--------------------------- MODULE GeneratorProofs ---------------------------
(***************************************************************************)
(* That the generator orders the types of a project right, for any number  *)
(* of types, files and levels: its passes find an order whenever there is  *)
(* one, and refuse a project only if there is none or a rule is broken.    *)
(*                                                                         *)
(* And that what it reads in a file of annotations, however long, is what  *)
(* the file says: each annotation is bound to the declaration below it,    *)
(* and no return leaves a transaction of a file that is accepted.          *)
(***************************************************************************)
EXTENDS Models, Annotations, TLAPS, FiniteSetTheorems, SequenceTheorems, WellFoundedInduction

Type ==
    [json : BOOLEAN, nested : SUBSET Nat, pick : Nat, id : BOOLEAN, ref : Nat,
     file : 1..FileCount]

TypesOK ==
    /\ types \in Seq(Type)
    /\ \A t \in DOMAIN types : types[t].pick # NoType => types[t].json

(* What resolve_picks and validate_type_fields let through.                *)
PicksUsable == \A t \in DOMAIN types : PickSourceUsable(t)

FieldsUsable ==
    \A t \in DOMAIN types :
        /\ \A k \in types[t].nested : NestedFieldValid(t, k)
        /\ ReferenceValid(t) /\ ~(types[t].json /\ types[t].id)

(* What depth[] says so far is true: each depth that is known is one more  *)
(* than the largest of the types that are nested there.                    *)
Known(depth) == {t \in DOMAIN types : depth[t] # 0}

Explained(depth, t) ==
    /\ \A k \in types[t].nested : depth[k] # 0 /\ depth[k] < depth[t]
    /\ depth[t] = 1 \/ \E k \in types[t].nested : depth[k] = depth[t] - 1

Depths(depth) ==
    /\ depth \in [DOMAIN types -> Nat]
    /\ \A t \in DOMAIN types : depth[t] # 0 => Explained(depth, t)

(* No further pass of validate_nesting_depth changes anything.             *)
Stuck(depth) ==
    \A t \in DOMAIN types : depth[t] = 0 => \E k \in types[t].nested : depth[k] = 0

(* The files included so far come after those that they use.               *)
Includes(done) ==
    /\ done \in Seq(ModelFiles) /\ IsInjective(done)
    /\ \A i \in DOMAIN done : \A t \in DOMAIN types : types[t].file = done[i] =>
          \A k \in Uses(t) :
              types[k].file = done[i] \/ \E j \in 1..(i - 1) : done[j] = types[k].file

(* No further pass of emit_model_includes changes anything.                *)
Blocked(done) ==
    \A f \in ModelFiles : f \in ToSet(done) \/ ~ModelFileReady(f, done)

(* The inductive invariant: every pass settles one more type, or one more  *)
(* file, until nothing is left that could be settled.                      *)
ModelsInv ==
    /\ TypesOK /\ passes \in Nat
    /\ phase \in {"parse", "fields", "nesting", "emit", "accepted", "refused"}
    /\ phase \in {"parse", "fields"} => passes = 0
    /\ phase \in {"parse", "fields", "nesting"} => included = <<>>
    /\ phase \in {"fields", "nesting", "emit", "accepted"} => PicksUsable
    /\ phase \in {"nesting", "emit", "accepted"} => FieldsUsable /\ Depths(nesting)
    /\ phase = "nesting" => Stuck(nesting) \/ Cardinality(Known(nesting)) >= passes
    /\ phase \in {"emit", "accepted"} =>
          (\A t \in DOMAIN types : nesting[t] \in 1..NestingMax) /\ Includes(included)
    /\ phase = "emit" => Blocked(included) \/ Cardinality(ToSet(included)) >= passes
    /\ phase = "accepted" => ModelFiles \subseteq ToSet(included)
    /\ phase = "refused" => ~WellFormed

-----------------------------------------------------------------------------
(* Induction over an interval of numbers, and the largest of a few numbers. *)

LEMMA LeastOfNat ==
    ASSUME NEW T \in SUBSET Nat, T # {}
    PROVE  \E x \in T : \A y \in T : x <= y
<1>1. PICK x \in T : \A y \in T : ~(<<y, x>> \in OpToRel(<, Nat))
    BY NatLessThanWellFounded, WFMin
<1>2. \A y \in T : ~(y < x)
    BY <1>1 DEF OpToRel
<1> QED BY <1>2

LEMMA UpTo ==
    ASSUME NEW n \in Nat, NEW P, 0 \in P, \A k \in 1..n : k - 1 \in P => k \in P
    PROVE  \A k \in 0..n : k \in P
<1> DEFINE T == {k \in 0..n : k \notin P}
<1>1. SUFFICES ASSUME T # {} PROVE FALSE
    OBVIOUS
<1>2. PICK k \in T : \A y \in T : k <= y
    <2>1. T \in SUBSET Nat
        OBVIOUS
    <2> QED BY <1>1, <2>1, LeastOfNat
<1>3. k \in 1..n /\ k - 1 \in 0..n
    BY <1>2
<1>4. k - 1 \notin T
    BY <1>2, <1>3
<1> QED BY <1>2, <1>3, <1>4

(* A step for each number, from x: what the loops of the generator run.    *)
IsRun(r, x, g, n) == r = [k \in 0..n |-> IF k = 0 THEN x ELSE g[k][r[k - 1]]]

LEMMA RunExists ==
    ASSUME NEW x, NEW g
    PROVE  \A n \in Nat : \E r : IsRun(r, x, g, n)
<1> DEFINE T == {n \in Nat : ~\E r : IsRun(r, x, g, n)}
<1>1. SUFFICES ASSUME T # {} PROVE FALSE
    OBVIOUS
<1>2. PICK n \in T : \A y \in T : n <= y
    BY <1>1, LeastOfNat
<1>3. CASE n = 0
    <2> DEFINE r == [k \in 0..0 |-> x]
    <2>1. r = [k \in 0..n |-> IF k = 0 THEN x ELSE g[k][r[k - 1]]]
        BY <1>3
    <2>2. IsRun(r, x, g, n)
        BY <2>1 DEF IsRun
    <2> QED BY <1>2, <2>2
<1>4. CASE n # 0
    <2>1. n - 1 \in Nat /\ n - 1 \notin T /\ n \in Nat
        BY <1>2, <1>4
    <2>2. PICK r : IsRun(r, x, g, n - 1)
        BY <2>1
    <2> DEFINE s == [k \in 0..n |-> IF k \in 0..(n - 1) THEN r[k] ELSE g[n][r[n - 1]]]
               h == [k \in 0..n |-> IF k = 0 THEN x ELSE g[k][s[k - 1]]]
    <2>3. \A k \in 0..(n - 1) : r[k] = IF k = 0 THEN x ELSE g[k][r[k - 1]]
        BY <2>2 DEF IsRun
    <2>4. \A k \in 0..n : s[k] = h[k]
        <3>1. TAKE k \in 0..n
        <3>2. CASE k = 0
            <4>1. k \in 0..(n - 1)
                BY <2>1, <3>2
            <4> QED BY <2>3, <3>2, <4>1
        <3>3. CASE k # 0 /\ k \in 0..(n - 1)
            <4>1. k - 1 \in 0..(n - 1) /\ k - 1 \in 0..n
                BY <2>1, <3>3
            <4> QED BY <2>3, <3>3, <4>1
        <3>4. CASE k = n
            <4>1. n - 1 \in 0..(n - 1) /\ n - 1 \in 0..n /\ n \notin 0..(n - 1)
                BY <2>1
            <4> QED BY <1>4, <3>4, <4>1
        <3>5. k = n \/ k \in 0..(n - 1)
            BY <2>1
        <3> QED BY <3>2, <3>3, <3>4, <3>5
    <2>5. s = h
        <3>1. s = [k \in 0..n |-> s[k]] /\ h = [k \in 0..n |-> h[k]]
            OBVIOUS
        <3> HIDE DEF s, h
        <3> QED BY <2>4, <3>1
    <2>6. IsRun(s, x, g, n)
        <3> HIDE DEF s
        <3> QED BY <2>5 DEF IsRun
    <2> QED BY <1>2, <2>6
<1> QED BY <1>3, <1>4

LEMMA LargestExists ==
    \A n \in Nat : \A S : S \subseteq Nat /\ S # {} /\ IsFiniteSet(S) /\ Cardinality(S) = n
        => \E x \in S : \A y \in S : x >= y
<1> DEFINE Bad(S) == /\ S \subseteq Nat /\ S # {} /\ IsFiniteSet(S)
                     /\ ~\E x \in S : \A y \in S : x >= y
           T == {n \in Nat : \E S : Bad(S) /\ Cardinality(S) = n}
<1>1. SUFFICES ASSUME T # {} PROVE FALSE
    OBVIOUS
<1>2. PICK n \in T : \A y \in T : n <= y
    <2>1. T \in SUBSET Nat
        OBVIOUS
    <2> QED BY <1>1, <2>1, LeastOfNat
<1>3. PICK S : Bad(S) /\ Cardinality(S) = n
    BY <1>2
<1>4. PICK e \in S : TRUE
    BY <1>3
<1> DEFINE R == S \ {e}
<1>5. IsFiniteSet(R) /\ Cardinality(R) = n - 1
    BY <1>3, <1>4, FS_RemoveElement
<1>6. R \subseteq Nat /\ n \in Nat /\ e \in Nat
    BY <1>2, <1>3, <1>4
<1>7. R # {}
    <2>1. ASSUME R = {} PROVE FALSE
        <3>1. \A y \in S : y = e
            BY <2>1
        <3> QED BY <1>3, <1>4, <1>6, <3>1
    <2> QED BY <2>1
<1>8. n - 1 \in Nat
    BY <1>5, FS_CardinalityType
<1>9. ~Bad(R)
    <2>1. n - 1 \notin T
        BY <1>2, <1>6
    <2> QED BY <1>5, <1>8, <2>1
<1>10. PICK x \in R : \A y \in R : x >= y
    BY <1>5, <1>6, <1>7, <1>9
<1>11. x \in Nat /\ x \in S /\ \A y \in S : y = e \/ x >= y
    BY <1>6, <1>10
<1>12. CASE x >= e
    BY <1>3, <1>11, <1>12
<1>13. CASE e >= x
    <2>1. \A y \in S : e >= y
        BY <1>3, <1>6, <1>11, <1>13
    <2> QED BY <1>3, <1>4, <2>1
<1> QED BY <1>6, <1>11, <1>12, <1>13

LEMMA MaxIsLargest ==
    ASSUME NEW S, S \subseteq Nat, S # {}, IsFiniteSet(S)
    PROVE  Max(S) \in S /\ \A y \in S : Max(S) >= y
<1>1. Cardinality(S) \in Nat
    BY FS_CardinalityType
<1>2. \E x \in S : \A y \in S : x >= y
    BY <1>1, LargestExists
<1> QED BY <1>2 DEF Max

-----------------------------------------------------------------------------
(* The passes of validate_nesting_depth.                                   *)

LEMMA TypesDomain ==
    ASSUME TypesOK
    PROVE  /\ Len(types) \in Nat /\ DOMAIN types = 1..Len(types)
           /\ \A t \in DOMAIN types : types[t] \in Type
<1>1. types \in Seq(Type)
    BY DEF TypesOK
<1> QED BY <1>1, LenProperties, ElementOfSeq

LEMMA NestedExist ==
    ASSUME FieldsUsable, NEW t \in DOMAIN types
    PROVE  types[t].nested \subseteq DOMAIN types
BY DEF FieldsUsable, NestedFieldValid, Exists

Below(depth, t) == {depth[k] : k \in types[t].nested}

LEMMA BelowFinite ==
    ASSUME TypesOK, FieldsUsable, NEW depth, Depths(depth), NEW t \in DOMAIN types
    PROVE  IsFiniteSet(Below(depth, t)) /\ Below(depth, t) \subseteq Nat
<1> DEFINE f == [k \in types[t].nested |-> depth[k]]
<1>1. IsFiniteSet(DOMAIN types)
    BY TypesDomain, FS_Interval
<1>2. IsFiniteSet(types[t].nested)
    BY <1>1, NestedExist, FS_Subset
<1>3. f \in Surjection(types[t].nested, Below(depth, t))
    BY DEF Surjection, Below
<1>4. \A k \in types[t].nested : depth[k] \in Nat
    BY NestedExist DEF Depths
<1> QED BY <1>2, <1>3, <1>4, FS_Surjection DEF Below

Deepest(depth, t) == Max(Below(depth, t) \union {0})

LEMMA DeepestIs ==
    ASSUME TypesOK, FieldsUsable, NEW depth, Depths(depth), NEW t \in DOMAIN types
    PROVE  /\ Deepest(depth, t) \in Nat
           /\ \A k \in types[t].nested : depth[k] <= Deepest(depth, t)
           /\ Deepest(depth, t) = 0 \/ \E k \in types[t].nested : depth[k] = Deepest(depth, t)
<1> DEFINE S == Below(depth, t) \union {0}
<1>1. IsFiniteSet(S) /\ S \subseteq Nat /\ S # {}
    BY BelowFinite, FS_AddElement
<1>2. Max(S) \in S /\ \A y \in S : Max(S) >= y
    <2> HIDE DEF S
    <2> QED BY <1>1, MaxIsLargest
<1>3. \A k \in types[t].nested : depth[k] \in S
    BY DEF Below
<1>4. Deepest(depth, t) = Max(S)
    BY DEF Deepest
<1>5. Max(S) = 0 \/ \E k \in types[t].nested : depth[k] = Max(S)
    BY <1>2 DEF Below
<1>6. Max(S) \in Nat /\ \A k \in types[t].nested : depth[k] <= Max(S)
    <2> HIDE DEF S
    <2> QED BY <1>1, <1>2, <1>3
<1> QED BY <1>4, <1>5, <1>6

(* A type whose nested types are all known becomes known itself.           *)
Ready(depth, t) == \A k \in types[t].nested : depth[k] # 0

LEMMA NestingStepIs ==
    ASSUME TypesOK, FieldsUsable, NEW depth, Depths(depth), NEW t \in DOMAIN types
    PROVE  NestingStep(depth, t) =
               IF depth[t] # 0 \/ ~Ready(depth, t) THEN depth
               ELSE [depth EXCEPT ![t] = 1 + Deepest(depth, t)]
<1>1. depth = [depth EXCEPT ![t] = depth[t]]
    BY DEF Depths
<1>2. CASE depth[t] # 0
    BY <1>2 DEF NestingStep
<1>3. CASE depth[t] = 0 /\ ~Ready(depth, t)
    <2>1. 0 \in {depth[k] : k \in types[t].nested}
        BY <1>3 DEF Ready
    <2>2. NestingOf(depth, t) = 0
        BY <2>1 DEF NestingOf
    <2> QED BY <1>1, <1>3, <2>2 DEF NestingStep
<1>4. CASE depth[t] = 0 /\ Ready(depth, t)
    <2>1. ~(0 \in {depth[k] : k \in types[t].nested})
        BY <1>4 DEF Ready
    <2>2. NestingOf(depth, t) = 1 + Deepest(depth, t)
        BY <2>1 DEF NestingOf, Deepest, Below
    <2> QED BY <1>4, <2>2 DEF NestingStep
<1> QED BY <1>2, <1>3, <1>4

LEMMA NestingStepKeeps ==
    ASSUME TypesOK, FieldsUsable, NEW depth, Depths(depth), NEW t \in DOMAIN types
    PROVE  /\ Depths(NestingStep(depth, t))
           /\ \A u \in DOMAIN types : depth[u] # 0 => NestingStep(depth, t)[u] = depth[u]
           /\ Ready(depth, t) => NestingStep(depth, t)[t] # 0
           /\ ~Ready(depth, t) => NestingStep(depth, t) = depth
<1>1. CASE depth[t] # 0 \/ ~Ready(depth, t)
    <2>1. NestingStep(depth, t) = depth
        BY <1>1, NestingStepIs
    <2> QED BY <1>1, <2>1
<1>2. CASE depth[t] = 0 /\ Ready(depth, t)
    <2> DEFINE next == [depth EXCEPT ![t] = 1 + Deepest(depth, t)]
    <2>1. NestingStep(depth, t) = next
        BY <1>2, NestingStepIs
    <2>2. Deepest(depth, t) \in Nat
        BY DeepestIs
    <2>3. next \in [DOMAIN types -> Nat]
        BY <2>2 DEF Depths
    <2>4. next[t] = 1 + Deepest(depth, t) /\ next[t] # 0
        BY <2>2 DEF Depths
    <2>5. \A u \in DOMAIN types : u # t => next[u] = depth[u]
        BY DEF Depths
    <2>6. \A u \in DOMAIN types : depth[u] # 0 => next[u] = depth[u]
        BY <1>2, <2>5
    <2>7. \A u \in DOMAIN types : next[u] # 0 => Explained(next, u)
        <3>1. TAKE u \in DOMAIN types
        <3>2. CASE u = t
            <4>1. \A k \in types[t].nested : k \in DOMAIN types /\ depth[k] # 0
                BY <1>2, NestedExist DEF Ready
            <4>2. \A k \in types[t].nested : next[k] = depth[k]
                BY <2>6, <4>1
            <4>3. \A k \in types[t].nested : depth[k] \in Nat /\ depth[k] <= Deepest(depth, t)
                BY <4>1, DeepestIs DEF Depths
            <4>4. \A k \in types[t].nested : next[k] # 0 /\ next[k] < next[t]
                <5> HIDE DEF next
                <5> QED BY <2>2, <2>4, <4>1, <4>2, <4>3
            <4>5. CASE Deepest(depth, t) = 0
                <5>1. next[t] = 1
                    <6> HIDE DEF next
                    <6> QED BY <2>4, <4>5
                <5> HIDE DEF next
                <5> QED BY <3>2, <4>4, <5>1 DEF Explained
            <4>6. CASE Deepest(depth, t) # 0
                <5>1. PICK k \in types[t].nested : depth[k] = Deepest(depth, t)
                    BY <4>6, DeepestIs
                <5>2. next[k] = next[t] - 1
                    <6> HIDE DEF next
                    <6> QED BY <2>2, <2>4, <4>2, <5>1
                <5> HIDE DEF next
                <5> QED BY <3>2, <4>4, <5>2 DEF Explained
            <4> QED BY <4>5, <4>6
        <3>3. CASE u # t /\ next[u] # 0
            <4>1. next[u] = depth[u] /\ Explained(depth, u)
                BY <2>5, <3>3 DEF Depths
            <4>2. \A k \in types[u].nested : next[k] = depth[k]
                BY <2>6, <4>1, NestedExist DEF Explained
            <4> HIDE DEF next
            <4> QED BY <4>1, <4>2 DEF Explained
        <3> QED BY <3>2, <3>3
    <2>8. Depths(next)
        <3> HIDE DEF next
        <3> QED BY <2>3, <2>7 DEF Depths
    <2> HIDE DEF next
    <2> QED BY <1>2, <2>1, <2>4, <2>6, <2>8
<1> QED BY <1>1, <1>2

(* What a pass has made of depth[] when it has come to type k.             *)
Passed(old, new, k) ==
    /\ Depths(new)
    /\ \A t \in DOMAIN types : old[t] # 0 => new[t] = old[t]
    /\ \A t \in 1..k : Ready(old, t) => new[t] # 0
    /\ (\A t \in DOMAIN types : Ready(old, t) => old[t] # 0) => new = old

LEMMA PassStarts ==
    ASSUME NEW old, Depths(old)
    PROVE  Passed(old, old, 0)
BY DEF Passed

LEMMA PassGoesOn ==
    ASSUME TypesOK, FieldsUsable, NEW old, Depths(old), NEW k \in 1..Len(types),
           NEW new, Passed(old, new, k - 1)
    PROVE  Passed(old, NestingStep(new, k), k)
<1> DEFINE next == NestingStep(new, k)
<1>1. k \in DOMAIN types /\ k \in Nat /\ Len(types) \in Nat /\ DOMAIN types = 1..Len(types)
    BY TypesDomain
<1>2. Depths(new) /\ \A t \in DOMAIN types : old[t] # 0 => new[t] = old[t]
    BY DEF Passed
<1>3. /\ Depths(next)
      /\ \A u \in DOMAIN types : new[u] # 0 => next[u] = new[u]
      /\ Ready(new, k) => next[k] # 0
      /\ ~Ready(new, k) => next = new
    BY <1>1, <1>2, NestingStepKeeps
<1> HIDE DEF next
<1>4. \A t \in DOMAIN types : old[t] # 0 => next[t] = old[t]
    BY <1>2, <1>3
<1>5. \A t \in 1..k : Ready(old, t) => next[t] # 0
    <2>1. TAKE t \in 1..k
    <2>2. CASE t = k
        <3>1. Ready(old, k) => Ready(new, k)
            BY <1>1, <1>2, NestedExist DEF Ready
        <3> QED BY <1>3, <2>2, <3>1
    <2>3. CASE t # k
        <3>1. t \in 1..(k - 1) /\ t \in DOMAIN types
            BY <1>1, <2>3
        <3>2. Ready(old, t) => new[t] # 0
            BY <3>1 DEF Passed
        <3> QED BY <1>3, <3>1, <3>2
    <2> QED BY <2>2, <2>3
<1>6. ASSUME \A t \in DOMAIN types : Ready(old, t) => old[t] # 0
      PROVE  next = old
    <2>1. new = old
        BY <1>6 DEF Passed
    <2>2. CASE Ready(old, k)
        <3>1. old[k] # 0
            BY <1>1, <1>6, <2>2
        <3>2. NestingStep(old, k) = old
            BY <3>1 DEF NestingStep
        <3> QED BY <2>1, <3>2 DEF next
    <2>3. CASE ~Ready(old, k)
        BY <1>3, <2>1, <2>3
    <2> QED BY <2>2, <2>3
<1> QED BY <1>3, <1>4, <1>5, <1>6 DEF Passed, next

IsNestingPass(r, old) ==
    r = [t \in 0..Len(types) |-> IF t = 0 THEN old ELSE NestingStep(r[t - 1], t)]

LEMMA NestingPassExists ==
    ASSUME TypesOK, FieldsUsable, NEW old, Depths(old)
    PROVE  \E r : IsNestingPass(r, old)
<1> DEFINE n == Len(types)
           g == [t \in 1..n |-> [d \in [DOMAIN types -> Nat] |-> NestingStep(d, t)]]
           P(r) == {k \in 0..n : Passed(old, r[k], k)}
<1>1. n \in Nat
    BY TypesDomain
<1>2. PICK r : IsRun(r, old, g, n)
    BY <1>1, RunExists
<1>3. r[0] = old
    BY <1>1, <1>2 DEF IsRun
<1>4. ASSUME NEW k \in 1..n, Passed(old, r[k - 1], k - 1)
      PROVE  r[k] = NestingStep(r[k - 1], k)
    <2>1. r[k] = g[k][r[k - 1]]
        <3>1. k \in 0..n /\ k # 0
            BY <1>1
        <3> HIDE DEF g, n
        <3> QED BY <1>2, <3>1 DEF IsRun
    <2>2. r[k - 1] \in [DOMAIN types -> Nat]
        BY <1>4 DEF Passed, Depths
    <2>3. g[k] = [d \in [DOMAIN types -> Nat] |-> NestingStep(d, k)]
        OBVIOUS
    <2> HIDE DEF g
    <2> QED BY <2>1, <2>2, <2>3
<1>5. \A k \in 0..n : k \in P(r)
    <2>1. 0 \in P(r)
        BY <1>1, <1>3, PassStarts
    <2>2. ASSUME NEW k \in 1..n, k - 1 \in P(r) PROVE k \in P(r)
        <3>1. Passed(old, r[k - 1], k - 1)
            BY <2>2
        <3>2. Passed(old, r[k], k)
            BY <1>4, <3>1, PassGoesOn
        <3> QED BY <1>1, <3>2
    <2> HIDE DEF P
    <2> QED BY <1>1, <2>1, <2>2, UpTo
<1>6. \A k \in 1..n : r[k] = NestingStep(r[k - 1], k)
    <2>1. TAKE k \in 1..n
    <2>2. k - 1 \in 0..n
        BY <1>1
    <2>3. Passed(old, r[k - 1], k - 1)
        BY <1>5, <2>2
    <2> QED BY <1>4, <2>3
<1>7. r = [k \in 0..n |-> r[k]]
    BY <1>2 DEF IsRun
<1>8. r = [k \in 0..n |-> IF k = 0 THEN old ELSE NestingStep(r[k - 1], k)]
    <2>1. \A k \in 0..n : r[k] = IF k = 0 THEN old ELSE NestingStep(r[k - 1], k)
        BY <1>1, <1>3, <1>6
    <2> QED BY <1>7, <2>1
<1> QED BY <1>8 DEF IsNestingPass

LEMMA NestingPassDoes ==
    ASSUME TypesOK, FieldsUsable, Depths(nesting), NestingPass
    PROVE  Passed(nesting, nesting', Len(types))
<1> DEFINE n == Len(types)
           r == CHOOSE r : IsNestingPass(r, nesting)
           P == {k \in 0..n : Passed(nesting, r[k], k)}
<1>1. n \in Nat
    BY TypesDomain
<1>2. nesting' = r[n]
    BY DEF NestingPass, IsNestingPass
<1>3. IsNestingPass(r, nesting)
    BY NestingPassExists
<1>4. r[0] = nesting /\ \A k \in 1..n : r[k] = NestingStep(r[k - 1], k)
    <2> HIDE DEF r
    <2> QED BY <1>1, <1>3 DEF IsNestingPass
<1> HIDE DEF r
<1>5. 0 \in P
    BY <1>1, <1>4, PassStarts
<1>6. ASSUME NEW k \in 1..n, k - 1 \in P PROVE k \in P
    <2>1. Passed(nesting, r[k - 1], k - 1)
        BY <1>6
    <2>2. Passed(nesting, NestingStep(r[k - 1], k), k)
        BY <2>1, PassGoesOn
    <2> QED BY <1>1, <1>4, <2>2
<1>7. n \in P
    <2> HIDE DEF P
    <2>1. \A k \in 0..n : k \in P
        BY <1>1, <1>5, <1>6, UpTo
    <2> QED BY <1>1, <2>1
<1> QED BY <1>2, <1>7

LEMMA KnownFinite ==
    ASSUME TypesOK, NEW depth
    PROVE  /\ IsFiniteSet(Known(depth)) /\ Cardinality(Known(depth)) \in Nat
           /\ Cardinality(Known(depth)) >= Len(types) => Known(depth) = DOMAIN types
<1>1. Len(types) \in Nat /\ DOMAIN types = 1..Len(types)
    BY TypesDomain
<1>2. IsFiniteSet(DOMAIN types) /\ Cardinality(DOMAIN types) = Len(types)
    <2>1. PICK n \in Nat : n = Len(types)
        BY <1>1
    <2>2. IsFiniteSet(1..n) /\ Cardinality(1..n) = n
        BY FS_Interval
    <2> QED BY <1>1, <2>1, <2>2
<1>3. Known(depth) \in SUBSET DOMAIN types
    BY DEF Known
<1>4. /\ IsFiniteSet(Known(depth)) /\ Cardinality(Known(depth)) <= Len(types)
      /\ Len(types) = Cardinality(Known(depth)) => DOMAIN types = Known(depth)
    BY <1>2, <1>3, FS_Subset
<1>5. Cardinality(Known(depth)) \in Nat
    BY <1>4, FS_CardinalityType
<1> QED BY <1>1, <1>4, <1>5

LEMMA StuckIs ==
    ASSUME NEW depth
    PROVE  Stuck(depth) <=> \A t \in DOMAIN types : Ready(depth, t) => depth[t] # 0
BY DEF Stuck, Ready

(* A pass that finds nothing will never find anything; another one settles *)
(* a type at least.                                                        *)
LEMMA PassSettles ==
    ASSUME TypesOK, NEW old, NEW new, Passed(old, new, Len(types)), NEW n \in Nat,
           Stuck(old) \/ Cardinality(Known(old)) >= n
    PROVE  Stuck(new) \/ Cardinality(Known(new)) >= n + 1
<1>1. DOMAIN types = 1..Len(types)
    BY TypesDomain
<1>2. CASE Stuck(old)
    <2>1. new = old
        BY <1>2, StuckIs DEF Passed
    <2> QED BY <1>2, <2>1
<1>3. CASE ~Stuck(old) /\ Cardinality(Known(old)) >= n
    <2>1. PICK t \in DOMAIN types : Ready(old, t) /\ old[t] = 0
        BY <1>3, StuckIs
    <2>2. new[t] # 0
        BY <1>1, <2>1 DEF Passed
    <2>3. \A u \in DOMAIN types : old[u] # 0 => new[u] # 0
        BY DEF Passed
    <2>4. Known(old) \union {t} \in SUBSET Known(new) /\ t \notin Known(old)
        BY <2>1, <2>2, <2>3 DEF Known
    <2>5. Cardinality(Known(old) \union {t}) = Cardinality(Known(old)) + 1
        BY <2>4, KnownFinite, FS_AddElement
    <2>6. Cardinality(Known(old) \union {t}) <= Cardinality(Known(new))
        BY <2>4, KnownFinite, FS_Subset
    <2>7. Cardinality(Known(old)) \in Nat /\ Cardinality(Known(new)) \in Nat
        BY KnownFinite
    <2> QED BY <1>3, <2>5, <2>6, <2>7
<1> QED BY <1>2, <1>3

(* After as many passes as there are types.                                *)
LEMMA AllPassesStick ==
    ASSUME TypesOK, NEW depth, Stuck(depth) \/ Cardinality(Known(depth)) >= Len(types)
    PROVE  Stuck(depth)
<1>1. Known(depth) = DOMAIN types => Stuck(depth)
    BY DEF Known, Stuck
<1> QED BY <1>1, KnownFinite

-----------------------------------------------------------------------------
(* What validate_nesting_depth decides: a chain of types that is too long, *)
(* or that never ends, starts at a type it refuses.                        *)

LongChain(c, m) ==
    /\ c \in [1..m -> DOMAIN types]
    /\ \A i \in 1..(m - 1) : c[i + 1] \in types[c[i]].nested

ChainFrom(t, m) == \E c : LongChain(c, m) /\ c[1] = t

LEMMA ChainOne ==
    ASSUME NEW t \in DOMAIN types
    PROVE  ChainFrom(t, 1)
<1> DEFINE c == [i \in 1..1 |-> t]
<1>1. c \in [1..1 -> DOMAIN types] /\ c[1] = t
    OBVIOUS
<1>2. \A i \in 1..(1 - 1) : c[i + 1] \in types[c[i]].nested
    OBVIOUS
<1> HIDE DEF c
<1>3. LongChain(c, 1)
    BY <1>1, <1>2 DEF LongChain
<1> QED BY <1>1, <1>3 DEF ChainFrom

LEMMA ChainMore ==
    ASSUME NEW m \in Nat \ {0}, NEW t \in DOMAIN types, NEW k \in types[t].nested,
           ChainFrom(k, m)
    PROVE  ChainFrom(t, m + 1)
<1>1. PICK c : LongChain(c, m) /\ c[1] = k
    BY DEF ChainFrom
<1>2. /\ c \in [1..m -> DOMAIN types]
      /\ \A i \in 1..(m - 1) : c[i + 1] \in types[c[i]].nested
    BY <1>1 DEF LongChain
<1> DEFINE d == [i \in 1..(m + 1) |-> IF i = 1 THEN t ELSE c[i - 1]]
<1>3. d \in [1..(m + 1) -> DOMAIN types]
    <2>1. \A i \in 1..(m + 1) : i = 1 \/ i - 1 \in 1..m
        OBVIOUS
    <2> QED BY <1>2, <2>1
<1>4. d[1] = t /\ \A i \in 1..m : d[i + 1] = c[i]
    <2>1. \A i \in 1..m : i + 1 \in 1..(m + 1) /\ i + 1 # 1 /\ (i + 1) - 1 = i
        OBVIOUS
    <2> QED BY <2>1
<1> HIDE DEF d
<1>5. \A i \in 1..m : d[i + 1] \in types[d[i]].nested
    <2>1. TAKE i \in 1..m
    <2>2. CASE i = 1
        BY <1>1, <1>4, <2>2
    <2>3. CASE i # 1
        <3>1. i - 1 \in 1..(m - 1) /\ i - 1 \in 1..m /\ (i - 1) + 1 = i
            BY <2>3
        <3>2. c[i] \in types[c[i - 1]].nested
            BY <1>2, <3>1
        <3>3. d[i] = c[i - 1] /\ d[i + 1] = c[i]
            BY <1>4, <3>1
        <3> QED BY <3>2, <3>3
    <2> QED BY <2>2, <2>3
<1>6. LongChain(d, m + 1)
    <2>1. (m + 1) - 1 = m
        OBVIOUS
    <2> QED BY <1>3, <1>5, <2>1 DEF LongChain
<1> QED BY <1>4, <1>6 DEF ChainFrom

LEMMA DeepTypeChain ==
    ASSUME TypesOK, FieldsUsable, NEW depth, Depths(depth), Stuck(depth), NEW n \in Nat
    PROVE  \A m \in 0..n : m # 0 => \A t \in DOMAIN types :
               depth[t] = 0 \/ depth[t] >= m => ChainFrom(t, m)
<1> DEFINE Holds(m) == \A t \in DOMAIN types :
                           depth[t] = 0 \/ depth[t] >= m => ChainFrom(t, m)
           P == {m \in 0..n : m # 0 => Holds(m)}
<1>1. 0 \in P
    OBVIOUS
<1>2. ASSUME NEW m \in 1..n, m - 1 \in P PROVE m \in P
    <2>1. CASE m = 1
        BY <2>1, ChainOne
    <2>2. CASE m # 1
        <3>1. m - 1 \in Nat \ {0} /\ (m - 1) + 1 = m /\ m \in Nat
            BY <2>2
        <3>2. Holds(m - 1)
            BY <1>2, <3>1
        <3>3. ASSUME NEW t \in DOMAIN types, depth[t] = 0 \/ depth[t] >= m
              PROVE  ChainFrom(t, m)
            <4>1. depth[t] \in Nat /\ types[t].nested \subseteq DOMAIN types
                BY NestedExist DEF Depths
            <4>2. \E k \in types[t].nested : depth[k] = 0 \/ depth[k] >= m - 1
                <5>1. CASE depth[t] = 0
                    BY <5>1 DEF Stuck
                <5>2. CASE depth[t] # 0
                    <6>1. depth[t] >= m /\ depth[t] # 1
                        BY <2>2, <3>1, <3>3, <4>1, <5>2
                    <6>2. PICK k \in types[t].nested : depth[k] = depth[t] - 1
                        BY <5>2, <6>1 DEF Depths, Explained
                    <6>3. depth[k] >= m - 1
                        BY <3>1, <4>1, <6>1, <6>2
                    <6> QED BY <6>3
                <5> QED BY <5>1, <5>2
            <4>3. PICK k \in types[t].nested : depth[k] = 0 \/ depth[k] >= m - 1
                BY <4>2
            <4>4. ChainFrom(k, m - 1)
                BY <3>2, <4>1, <4>3
            <4>5. ChainFrom(t, (m - 1) + 1)
                BY <3>1, <4>4, ChainMore
            <4> QED BY <3>1, <4>5
        <3> QED BY <3>3
    <2> QED BY <2>1, <2>2
<1>3. \A m \in 0..n : m \in P
    <2> HIDE DEF P
    <2> QED BY <1>1, <1>2, UpTo
<1> QED BY <1>3

LEMMA TooDeepIsRefused ==
    ASSUME TypesOK, FieldsUsable, NEW depth, Depths(depth), Stuck(depth),
           NEW t \in DOMAIN types, depth[t] \notin 1..NestingMax
    PROVE  Chain(NestingMax + 1)
<1>1. NestingMax \in Nat /\ depth[t] \in Nat
    BY ModelsAssumption DEF Depths
<1>2. depth[t] = 0 \/ depth[t] >= NestingMax + 1
    BY <1>1
<1>3. NestingMax + 1 \in 0..(NestingMax + 1) /\ NestingMax + 1 # 0 /\ NestingMax + 1 \in Nat
    BY <1>1
<1>4. ChainFrom(t, NestingMax + 1)
    BY <1>2, <1>3, DeepTypeChain
<1>5. PICK c : LongChain(c, NestingMax + 1)
    BY <1>4 DEF ChainFrom
<1> QED BY <1>5 DEF LongChain, Chain

LEMMA ShallowHasNoChain ==
    ASSUME NEW depth, Depths(depth), \A t \in DOMAIN types : depth[t] \in 1..NestingMax
    PROVE  ~Chain(NestingMax + 1)
<1> DEFINE n == NestingMax + 1
<1>1. SUFFICES ASSUME NEW c \in [1..n -> DOMAIN types],
                      \A i \in 1..(n - 1) : c[i + 1] \in types[c[i]].nested
               PROVE  FALSE
    BY DEF Chain
<1>2. NestingMax \in Nat /\ n \in Nat
    BY ModelsAssumption
<1> DEFINE P == {i \in 0..n : i # 0 => depth[c[i]] + i <= n}
<1>3. 0 \in P
    BY <1>2
<1>4. ASSUME NEW i \in 1..n, i - 1 \in P PROVE i \in P
    <2>1. c[i] \in DOMAIN types /\ depth[c[i]] \in 1..NestingMax
        BY <1>1
    <2>2. CASE i = 1
        BY <1>2, <2>1, <2>2
    <2>3. CASE i # 1
        <3>1. i - 1 \in 1..(n - 1) /\ i - 1 \in 1..n /\ (i - 1) + 1 = i
            BY <1>2, <2>3
        <3>2. c[i] \in types[c[i - 1]].nested /\ c[i - 1] \in DOMAIN types
            BY <1>1, <3>1
        <3>3. depth[c[i]] < depth[c[i - 1]] /\ depth[c[i - 1]] \in 1..NestingMax
            <4>1. depth[c[i - 1]] \in 1..NestingMax
                BY <3>2
            <4>2. depth[c[i - 1]] # 0
                BY <1>2, <4>1
            <4>3. Explained(depth, c[i - 1])
                BY <3>2, <4>2 DEF Depths
            <4> QED BY <3>2, <4>1, <4>3 DEF Explained
        <3>4. depth[c[i - 1]] + (i - 1) <= n
            BY <1>4, <3>1
        <3>5. depth[c[i]] + i <= n
            BY <1>2, <2>1, <3>3, <3>4
        <3> QED BY <1>2, <3>5
    <2> QED BY <2>2, <2>3
<1>5. n \in P
    <2> HIDE DEF P
    <2>1. \A i \in 0..n : i \in P
        BY <1>2, <1>3, <1>4, UpTo
    <2> QED BY <1>2, <2>1
<1>6. depth[c[n]] \in 1..NestingMax /\ depth[c[n]] + n <= n
    <2>1. n \in 1..n /\ n # 0
        BY <1>2
    <2> QED BY <1>1, <1>5, <2>1
<1> QED BY <1>2, <1>6

-----------------------------------------------------------------------------
(* The passes of emit_model_includes.                                      *)

LEMMA UsesExist ==
    ASSUME PicksUsable, FieldsUsable, NEW t \in DOMAIN types, NEW k \in Uses(t)
    PROVE  k \in DOMAIN types /\ types[k].file \in ModelFiles
<1>1. k \in DOMAIN types
    BY DEF PicksUsable, FieldsUsable, Uses, NestedFieldValid, PickSourceUsable, Exists
<1> QED BY <1>1 DEF ModelFiles

LEMMA ModelFilesFinite ==
    ASSUME TypesOK
    PROVE  /\ FileCount \in Nat /\ ModelFiles \subseteq 1..FileCount
           /\ IsFiniteSet(ModelFiles) /\ Cardinality(ModelFiles) \in Nat
           /\ Cardinality(ModelFiles) <= FileCount
<1>1. FileCount \in Nat
    BY ModelsAssumption
<1>2. ModelFiles \in SUBSET (1..FileCount)
    BY TypesDomain DEF ModelFiles, Type
<1>3. IsFiniteSet(1..FileCount) /\ Cardinality(1..FileCount) = FileCount
    <2>1. PICK n \in Nat : n = FileCount
        BY <1>1
    <2>2. IsFiniteSet(1..n) /\ Cardinality(1..n) = n
        BY FS_Interval
    <2> QED BY <2>1, <2>2
<1>4. IsFiniteSet(ModelFiles) /\ Cardinality(ModelFiles) <= FileCount
    BY <1>2, <1>3, FS_Subset
<1> QED BY <1>1, <1>2, <1>4, FS_CardinalityType

LEMMA Appended ==
    ASSUME NEW S, NEW done \in Seq(S), NEW f \in S
    PROVE  /\ Append(done, f) \in Seq(S)
           /\ Len(done) \in Nat /\ Len(Append(done, f)) = Len(done) + 1
           /\ DOMAIN done = 1..Len(done)
           /\ DOMAIN Append(done, f) = 1..(Len(done) + 1)
           /\ \A i \in 1..Len(done) : Append(done, f)[i] = done[i]
           /\ Append(done, f)[Len(done) + 1] = f
           /\ ToSet(Append(done, f)) = ToSet(done) \union {f}
<1> DEFINE n == Len(done)
           new == Append(done, f)
<1>1. /\ new \in Seq(S) /\ n \in Nat /\ Len(new) = n + 1 /\ DOMAIN done = 1..n
      /\ DOMAIN new = 1..(n + 1)
    BY LenProperties
<1>2. (\A i \in 1..n : new[i] = done[i]) /\ new[n + 1] = f
    BY <1>1
<1>3. ToSet(new) = ToSet(done) \union {f}
    <2> HIDE DEF n, new
    <2>1. \A i \in 1..(n + 1) : i \in 1..n \/ i = n + 1
        BY <1>1
    <2>2. \A i \in 1..n : i \in 1..(n + 1)
        BY <1>1
    <2>3. n + 1 \in 1..(n + 1)
        BY <1>1
    <2> QED BY <1>1, <1>2, <2>1, <2>2, <2>3 DEF ToSet
<1> QED BY <1>1, <1>2, <1>3

(* The file of every use of a file is that file or among the first i done.  *)
UsesAmong(f, done, i) ==
    \A t \in DOMAIN types : types[t].file = f =>
        \A k \in Uses(t) :
            types[k].file = f \/ \E j \in 1..i : done[j] = types[k].file

LEMMA IncludesIs ==
    ASSUME NEW done
    PROVE  Includes(done) <=>
               /\ done \in Seq(ModelFiles) /\ IsInjective(done)
               /\ \A i \in DOMAIN done : UsesAmong(done[i], done, i - 1)
BY DEF Includes, UsesAmong

LEMMA ReadyIsAmong ==
    ASSUME NEW f, NEW done, DOMAIN done = 1..Len(done)
    PROVE  ModelFileReady(f, done) <=> UsesAmong(f, done, Len(done))
BY DEF ModelFileReady, UsesAmong, ToSet

LEMMA IncludeStepKeeps ==
    ASSUME NEW done, Includes(done), NEW f
    PROVE  /\ Includes(IncludeStep(done, f))
           /\ ToSet(done) \subseteq ToSet(IncludeStep(done, f))
           /\ f \in ModelFiles /\ ModelFileReady(f, done)
                  => f \in ToSet(IncludeStep(done, f))
           /\ f \notin ModelFiles \/ f \in ToSet(done) \/ ~ModelFileReady(f, done)
                  => IncludeStep(done, f) = done
<1>1. CASE f \in ModelFiles \ ToSet(done) /\ ModelFileReady(f, done)
    <2> DEFINE new == Append(done, f)
               n == Len(done)
    <2>1. IncludeStep(done, f) = new
        BY <1>1 DEF IncludeStep
    <2>2. /\ done \in Seq(ModelFiles) /\ IsInjective(done)
          /\ \A i \in DOMAIN done : UsesAmong(done[i], done, i - 1)
        BY IncludesIs
    <2>3. /\ new \in Seq(ModelFiles) /\ n \in Nat
          /\ DOMAIN done = 1..n /\ DOMAIN new = 1..(n + 1)
          /\ \A i \in 1..n : new[i] = done[i]
          /\ new[n + 1] = f
          /\ ToSet(new) = ToSet(done) \union {f}
        BY <1>1, <2>2, Appended
    <2> HIDE DEF new
    <2>4. \A i \in 1..(n + 1) : i \in 1..n \/ i = n + 1
        BY <2>3
    <2>5. \A i \in 1..n : done[i] # f
        BY <1>1, <2>3 DEF ToSet
    <2>6. IsInjective(new)
        <3>1. ASSUME NEW a \in 1..(n + 1), NEW b \in 1..(n + 1), new[a] = new[b]
              PROVE  a = b
            <4>1. CASE a \in 1..n /\ b \in 1..n
                BY <2>2, <2>3, <3>1, <4>1 DEF IsInjective
            <4>2. CASE a \in 1..n /\ b = n + 1
                BY <2>3, <2>5, <3>1, <4>2
            <4>3. CASE a = n + 1 /\ b \in 1..n
                BY <2>3, <2>5, <3>1, <4>3
            <4> QED BY <2>4, <4>1, <4>2, <4>3
        <3> QED BY <2>3, <3>1 DEF IsInjective
    <2>7. \A i \in 1..(n + 1) : UsesAmong(new[i], new, i - 1)
        <3>1. TAKE i \in 1..(n + 1)
        <3>2. i - 1 \in 0..n /\ \A j \in 1..(i - 1) : new[j] = done[j]
            <4>1. i - 1 \in 0..n
                BY <2>3
            <4>2. \A j \in 1..(i - 1) : j \in 1..n
                BY <2>3
            <4> QED BY <2>3, <4>1, <4>2
        <3>3. UsesAmong(new[i], done, i - 1)
            <4>1. CASE i \in 1..n
                BY <2>2, <2>3, <4>1
            <4>2. CASE i = n + 1
                <5>1. UsesAmong(f, done, n)
                    BY <1>1, <2>3, ReadyIsAmong
                <5>2. i - 1 = n
                    BY <2>3, <4>2
                <5> QED BY <2>3, <4>2, <5>1, <5>2
            <4> QED BY <2>4, <4>1, <4>2
        <3> QED BY <3>2, <3>3 DEF UsesAmong
    <2>8. Includes(new)
        BY <2>3, <2>6, <2>7, IncludesIs
    <2> QED BY <1>1, <2>1, <2>3, <2>8
<1>2. CASE ~(f \in ModelFiles \ ToSet(done) /\ ModelFileReady(f, done))
    <2>1. IncludeStep(done, f) = done
        BY <1>2 DEF IncludeStep
    <2> QED BY <1>2, <2>1
<1> QED BY <1>1, <1>2

(* What a pass has made of the includes when it has come to file k.        *)
Emitted(old, new, k) ==
    /\ Includes(new) /\ ToSet(old) \subseteq ToSet(new)
    /\ \A f \in 1..k : f \in ModelFiles /\ ModelFileReady(f, old) => f \in ToSet(new)
    /\ Blocked(old) => new = old

LEMMA EmitStarts ==
    ASSUME NEW old, Includes(old)
    PROVE  Emitted(old, old, 0)
BY DEF Emitted

LEMMA EmitGoesOn ==
    ASSUME NEW old, Includes(old), NEW k \in Nat \ {0},
           NEW new, Emitted(old, new, k - 1)
    PROVE  Emitted(old, IncludeStep(new, k), k)
<1> DEFINE next == IncludeStep(new, k)
<1>1. Includes(new) /\ ToSet(old) \subseteq ToSet(new)
    BY DEF Emitted
<1>2. /\ Includes(next) /\ ToSet(new) \subseteq ToSet(next)
      /\ k \in ModelFiles /\ ModelFileReady(k, new) => k \in ToSet(next)
      /\ k \notin ModelFiles \/ k \in ToSet(new) \/ ~ModelFileReady(k, new) => next = new
    BY <1>1, IncludeStepKeeps
<1> HIDE DEF next
<1>3. \A f : ModelFileReady(f, old) => ModelFileReady(f, new)
    BY <1>1 DEF ModelFileReady
<1>4. \A f \in 1..k : f \in ModelFiles /\ ModelFileReady(f, old) => f \in ToSet(next)
    <2>1. TAKE f \in 1..k
    <2>2. CASE f = k
        BY <1>2, <1>3, <2>2
    <2>3. CASE f # k
        <3>1. f \in 1..(k - 1)
            BY <2>3
        <3> QED BY <1>2, <3>1 DEF Emitted
    <2> QED BY <2>2, <2>3
<1>5. ASSUME Blocked(old) PROVE next = old
    <2>1. new = old
        BY <1>5 DEF Emitted
    <2>2. k \notin ModelFiles \/ k \in ToSet(new) \/ ~ModelFileReady(k, new)
        BY <1>5, <2>1 DEF Blocked
    <2> QED BY <1>2, <2>1, <2>2
<1> QED BY <1>1, <1>2, <1>4, <1>5 DEF Emitted, next

IsIncludePass(r, old) ==
    r = [f \in 0..FileCount |-> IF f = 0 THEN old ELSE IncludeStep(r[f - 1], f)]

LEMMA IncludePassExists ==
    ASSUME FileCount \in Nat, NEW old, Includes(old)
    PROVE  \E r : IsIncludePass(r, old)
<1> DEFINE n == FileCount
           g == [f \in 1..n |-> [d \in Seq(ModelFiles) |-> IncludeStep(d, f)]]
           P(r) == {k \in 0..n : Emitted(old, r[k], k)}
<1>1. n \in Nat
    OBVIOUS
<1>2. PICK r : IsRun(r, old, g, n)
    BY <1>1, RunExists
<1>3. r[0] = old
    BY <1>1, <1>2 DEF IsRun
<1>4. ASSUME NEW k \in 1..n, Emitted(old, r[k - 1], k - 1)
      PROVE  r[k] = IncludeStep(r[k - 1], k)
    <2>1. r[k] = g[k][r[k - 1]]
        <3>1. k \in 0..n /\ k # 0
            BY <1>1
        <3> HIDE DEF g, n
        <3> QED BY <1>2, <3>1 DEF IsRun
    <2>2. r[k - 1] \in Seq(ModelFiles)
        BY <1>4 DEF Emitted, Includes
    <2>3. g[k] = [d \in Seq(ModelFiles) |-> IncludeStep(d, k)]
        OBVIOUS
    <2> HIDE DEF g
    <2> QED BY <2>1, <2>2, <2>3
<1>5. \A k \in 0..n : k \in P(r)
    <2>1. 0 \in P(r)
        BY <1>1, <1>3, EmitStarts
    <2>2. ASSUME NEW k \in 1..n, k - 1 \in P(r) PROVE k \in P(r)
        <3>1. Emitted(old, r[k - 1], k - 1)
            BY <2>2
        <3>2. Emitted(old, r[k], k)
            BY <1>4, <3>1, EmitGoesOn
        <3> QED BY <1>1, <3>2
    <2> HIDE DEF P
    <2> QED BY <1>1, <2>1, <2>2, UpTo
<1>6. \A k \in 1..n : r[k] = IncludeStep(r[k - 1], k)
    <2>1. TAKE k \in 1..n
    <2>2. k - 1 \in 0..n
        BY <1>1
    <2>3. Emitted(old, r[k - 1], k - 1)
        BY <1>5, <2>2
    <2> QED BY <1>4, <2>3
<1>7. r = [k \in 0..n |-> r[k]]
    BY <1>2 DEF IsRun
<1>8. r = [k \in 0..n |-> IF k = 0 THEN old ELSE IncludeStep(r[k - 1], k)]
    <2>1. \A k \in 0..n : r[k] = IF k = 0 THEN old ELSE IncludeStep(r[k - 1], k)
        BY <1>1, <1>3, <1>6
    <2> QED BY <1>7, <2>1
<1> QED BY <1>8 DEF IsIncludePass

LEMMA IncludePassDoes ==
    ASSUME FileCount \in Nat, Includes(included), IncludePass
    PROVE  Emitted(included, included', FileCount)
<1> DEFINE n == FileCount
           r == CHOOSE r : IsIncludePass(r, included)
           P == {k \in 0..n : Emitted(included, r[k], k)}
<1>1. n \in Nat
    OBVIOUS
<1>2. included' = r[n]
    BY DEF IncludePass, IsIncludePass
<1>3. IsIncludePass(r, included)
    BY IncludePassExists
<1>4. r[0] = included /\ \A k \in 1..n : r[k] = IncludeStep(r[k - 1], k)
    <2> HIDE DEF r
    <2> QED BY <1>1, <1>3 DEF IsIncludePass
<1> HIDE DEF r
<1>5. 0 \in P
    BY <1>1, <1>4, EmitStarts
<1>6. ASSUME NEW k \in 1..n, k - 1 \in P PROVE k \in P
    <2>1. Emitted(included, r[k - 1], k - 1)
        BY <1>6
    <2>2. Emitted(included, IncludeStep(r[k - 1], k), k)
        BY <2>1, EmitGoesOn
    <2> QED BY <1>1, <1>4, <2>2
<1>7. n \in P
    <2> HIDE DEF P
    <2>1. \A k \in 0..n : k \in P
        BY <1>1, <1>5, <1>6, UpTo
    <2> QED BY <1>1, <2>1
<1> QED BY <1>2, <1>7

LEMMA IncludedFiles ==
    ASSUME TypesOK, NEW done, Includes(done)
    PROVE  /\ ToSet(done) \subseteq ModelFiles
           /\ IsFiniteSet(ToSet(done)) /\ Cardinality(ToSet(done)) \in Nat
           /\ Cardinality(ToSet(done)) >= FileCount => ToSet(done) = ModelFiles
<1>1. done \in Seq(ModelFiles)
    BY DEF Includes
<1>2. ToSet(done) \in SUBSET ModelFiles
    BY <1>1, LenProperties, ElementOfSeq DEF ToSet
<1>3. /\ IsFiniteSet(ToSet(done)) /\ Cardinality(ToSet(done)) <= Cardinality(ModelFiles)
      /\ Cardinality(ModelFiles) = Cardinality(ToSet(done)) => ModelFiles = ToSet(done)
    BY <1>2, ModelFilesFinite, FS_Subset
<1>4. Cardinality(ToSet(done)) \in Nat
    BY <1>3, FS_CardinalityType
<1> QED BY <1>2, <1>3, <1>4, ModelFilesFinite

LEMMA PassIncludes ==
    ASSUME TypesOK, NEW old, Includes(old), NEW new, Emitted(old, new, FileCount),
           NEW n \in Nat, Blocked(old) \/ Cardinality(ToSet(old)) >= n
    PROVE  Blocked(new) \/ Cardinality(ToSet(new)) >= n + 1
<1>1. CASE Blocked(old)
    <2>1. new = old
        BY <1>1 DEF Emitted
    <2> QED BY <1>1, <2>1
<1>2. CASE ~Blocked(old) /\ Cardinality(ToSet(old)) >= n
    <2>1. PICK f \in ModelFiles : f \notin ToSet(old) /\ ModelFileReady(f, old)
        BY <1>2 DEF Blocked
    <2>2. f \in ToSet(new) /\ ToSet(old) \subseteq ToSet(new) /\ Includes(new)
        BY <2>1, ModelFilesFinite DEF Emitted
    <2>3. ToSet(old) \union {f} \in SUBSET ToSet(new)
        BY <2>2
    <2>4. /\ IsFiniteSet(ToSet(old)) /\ Cardinality(ToSet(old)) \in Nat
          /\ IsFiniteSet(ToSet(new)) /\ Cardinality(ToSet(new)) \in Nat
        BY <2>2, IncludedFiles
    <2>5. Cardinality(ToSet(old) \union {f}) = Cardinality(ToSet(old)) + 1
        BY <2>1, <2>4, FS_AddElement
    <2>6. Cardinality(ToSet(old) \union {f}) <= Cardinality(ToSet(new))
        BY <2>3, <2>4, FS_Subset
    <2> QED BY <1>2, <2>4, <2>5, <2>6
<1> QED BY <1>1, <1>2

(* After as many passes as there are files.                                *)
LEMMA AllPassesBlock ==
    ASSUME TypesOK, NEW done, Includes(done),
           Blocked(done) \/ Cardinality(ToSet(done)) >= FileCount
    PROVE  Blocked(done)
<1>1. ToSet(done) = ModelFiles => Blocked(done)
    BY DEF Blocked
<1> QED BY <1>1, IncludedFiles

-----------------------------------------------------------------------------
(* What emit_model_includes decides.                                       *)

(* Of the files that are left when a pass finds none, the first of any     *)
(* order uses another that is left.                                        *)
LEMMA BlockedHasNoOrder ==
    ASSUME TypesOK, PicksUsable, FieldsUsable, NEW done, Blocked(done),
           ~(ModelFiles \subseteq ToSet(done))
    PROVE  ~SomeOrder
<1> DEFINE n == Cardinality(ModelFiles)
<1>1. SUFFICES ASSUME NEW pos \in [ModelFiles -> 1..n],
                      \A t \in DOMAIN types : \A k \in Uses(t) :
                          types[k].file # types[t].file
                              => pos[types[k].file] < pos[types[t].file]
               PROVE  FALSE
    BY DEF SomeOrder
<1>2. n \in Nat
    BY ModelFilesFinite
<1> DEFINE left == ModelFiles \ ToSet(done)
           T == {i \in 1..n : \E f \in left : pos[f] = i}
<1> HIDE DEF n
<1>3. T # {} /\ T \in SUBSET Nat
    BY <1>1, <1>2
<1>4. PICK i \in T : \A j \in T : i <= j
    <2> HIDE DEF T
    <2> QED BY <1>3, LeastOfNat
<1>5. PICK f \in left : pos[f] = i
    BY <1>4
<1>6. ~ModelFileReady(f, done)
    BY <1>5 DEF Blocked
<1>7. PICK t \in DOMAIN types : /\ types[t].file = f
                               /\ \E k \in Uses(t) : /\ types[k].file # f
                                                     /\ types[k].file \notin ToSet(done)
    BY <1>6 DEF ModelFileReady
<1>8. PICK k \in Uses(t) : types[k].file # f /\ types[k].file \notin ToSet(done)
    BY <1>7
<1>9. types[k].file \in left
    BY <1>8, UsesExist
<1>10. pos[types[k].file] < i
    BY <1>1, <1>5, <1>7, <1>8
<1>11. pos[types[k].file] \in T /\ pos[types[k].file] \in 1..n /\ i \in 1..n
    BY <1>1, <1>4, <1>9
<1>12. i <= pos[types[k].file]
    <2> HIDE DEF T
    <2> QED BY <1>4, <1>11
<1> QED BY <1>2, <1>10, <1>11, <1>12

At(done, f) == CHOOSE i \in DOMAIN done : done[i] = f

LEMMA AtIs ==
    ASSUME NEW done, Includes(done), NEW f \in ToSet(done)
    PROVE  /\ At(done, f) \in DOMAIN done /\ done[At(done, f)] = f
           /\ \A i \in DOMAIN done : done[i] = f => i = At(done, f)
<1>1. \E i \in DOMAIN done : done[i] = f
    BY DEF ToSet
<1>2. At(done, f) \in DOMAIN done /\ done[At(done, f)] = f
    BY <1>1 DEF At
<1>3. \A i \in DOMAIN done : done[i] = f => i = At(done, f)
    BY <1>2 DEF Includes, IsInjective
<1> QED BY <1>2, <1>3

LEMMA UsesAreAbove ==
    ASSUME TypesOK, PicksUsable, FieldsUsable, NEW done, Includes(done),
           ModelFiles \subseteq ToSet(done),
           NEW t \in DOMAIN types, NEW k \in Uses(t), types[k].file # types[t].file
    PROVE  At(done, types[k].file) < At(done, types[t].file)
<1> DEFINE f == types[t].file
           i == At(done, f)
<1>1. f \in ToSet(done) /\ types[k].file \in ToSet(done)
    BY UsesExist DEF ModelFiles
<1>2. i \in DOMAIN done /\ done[i] = f
    BY <1>1, AtIs
<1>3. DOMAIN done = 1..Len(done) /\ Len(done) \in Nat
    <2>1. done \in Seq(ModelFiles)
        BY DEF Includes
    <2> QED BY <2>1, LenProperties
<1>4. UsesAmong(done[i], done, i - 1)
    BY <1>2, IncludesIs
<1>5. PICK j \in 1..(i - 1) : done[j] = types[k].file
    BY <1>2, <1>4 DEF UsesAmong
<1>6. j \in DOMAIN done /\ j < i
    <2> HIDE DEF i
    <2> QED BY <1>2, <1>3
<1>7. j = At(done, types[k].file)
    BY <1>1, <1>5, <1>6, AtIs
<1> QED BY <1>6, <1>7

LEMMA AllIncludedIsAnOrder ==
    ASSUME TypesOK, PicksUsable, FieldsUsable, NEW done, Includes(done),
           ModelFiles \subseteq ToSet(done)
    PROVE  SomeOrder
<1> DEFINE n == Len(done)
           pos == [f \in ModelFiles |-> At(done, f)]
<1>1. done \in Seq(ModelFiles) /\ IsInjective(done)
    BY DEF Includes
<1>2. n \in Nat /\ DOMAIN done = 1..n /\ done \in [1..n -> ModelFiles]
    BY <1>1, LenProperties
<1>3. ToSet(done) = ModelFiles
    BY IncludedFiles
<1>4. done \in Bijection(1..n, ModelFiles)
    <2>1. done \in Injection(1..n, ModelFiles)
        BY <1>1, <1>2 DEF Injection, IsInjective
    <2>2. done \in Surjection(1..n, ModelFiles)
        BY <1>2, <1>3 DEF Surjection, ToSet
    <2> QED BY <2>1, <2>2 DEF Bijection
<1>5. Cardinality(ModelFiles) = n
    <2>1. ExistsBijection(1..n, ModelFiles)
        BY <1>4 DEF ExistsBijection
    <2> QED BY <1>2, <2>1, FS_CountingElements
<1>6. pos \in [ModelFiles -> 1..Cardinality(ModelFiles)]
    <2>1. \A f \in ModelFiles : At(done, f) \in 1..n
        BY <1>2, <1>3, AtIs
    <2> QED BY <1>5, <2>1
<1>7. \A t \in DOMAIN types : \A k \in Uses(t) :
          types[k].file # types[t].file => pos[types[k].file] < pos[types[t].file]
    <2> TAKE t \in DOMAIN types
    <2> TAKE k \in Uses(t)
    <2>2. types[k].file \in ModelFiles /\ types[t].file \in ModelFiles
        BY UsesExist DEF ModelFiles
    <2>3. types[k].file # types[t].file
              => At(done, types[k].file) < At(done, types[t].file)
        BY UsesAreAbove
    <2> QED BY <2>2, <2>3
<1> HIDE DEF pos
<1> QED BY <1>6, <1>7 DEF SomeOrder

-----------------------------------------------------------------------------
(* The rules: what resolve_picks and validate_type_fields refuse breaks    *)
(* one, what they and the two loops let through breaks none.               *)

LEMMA UsesAreFine ==
    ASSUME TypesOK, PicksUsable, FieldsUsable, NEW t \in DOMAIN types, NEW k \in Uses(t)
    PROVE  /\ Exists(k) /\ types[t].json
           /\ types[k].file = types[t].file => k < t
<1>1. CASE k \in types[t].nested
    BY <1>1 DEF FieldsUsable, NestedFieldValid
<1>2. CASE k = types[t].pick /\ k # NoType
    <2>1. PickSourceUsable(t)
        BY DEF PicksUsable
    <2>2. types[t].json
        BY <1>2 DEF TypesOK
    <2> QED BY <1>2, <2>1, <2>2 DEF PickSourceUsable
<1> QED BY <1>1, <1>2 DEF Uses

LEMMA AcceptedIsWellFormed ==
    ASSUME TypesOK, PicksUsable, FieldsUsable, Depths(nesting),
           \A t \in DOMAIN types : nesting[t] \in 1..NestingMax,
           Includes(included), ModelFiles \subseteq ToSet(included)
    PROVE  WellFormed
<1>1. \A t \in DOMAIN types :
          /\ \A k \in Uses(t) : Exists(k) /\ types[t].json
          /\ \A k \in Uses(t) : types[k].file = types[t].file => k < t
    BY UsesAreFine
<1>2. \A t \in DOMAIN types : types[t].pick # NoType => ~types[types[t].pick].json
    BY DEF PicksUsable, PickSourceUsable
<1>3. \A t \in DOMAIN types : ReferenceValid(t) /\ ~(types[t].json /\ types[t].id)
    BY DEF FieldsUsable
<1>4. ~Chain(NestingMax + 1)
    BY ShallowHasNoChain
<1>5. SomeOrder
    BY AllIncludedIsAnOrder
<1> QED BY <1>1, <1>2, <1>3, <1>4, <1>5 DEF WellFormed

LEMMA BadFieldBreaksARule ==
    ASSUME ~FieldsUsable
    PROVE  ~WellFormed
<1>1. PICK t \in DOMAIN types :
          \/ \E k \in types[t].nested : ~NestedFieldValid(t, k)
          \/ ~(ReferenceValid(t) /\ ~(types[t].json /\ types[t].id))
    BY DEF FieldsUsable
<1>2. ASSUME WellFormed PROVE FALSE
    <2>1. /\ \A k \in Uses(t) : Exists(k) /\ types[t].json
          /\ \A k \in Uses(t) : types[k].file = types[t].file => k < t
          /\ ReferenceValid(t) /\ ~(types[t].json /\ types[t].id)
        BY <1>2 DEF WellFormed
    <2>2. \A k \in types[t].nested : NestedFieldValid(t, k)
        BY <2>1 DEF Uses, NestedFieldValid
    <2> QED BY <1>1, <2>1, <2>2
<1> QED BY <1>2

LEMMA ResolvedIs ==
    ASSUME TypesOK, NEW t \in DOMAIN types
    PROVE  /\ Resolved(t) \in Type
           /\ Resolved(t).pick = types[t].pick /\ Resolved(t).json = types[t].json
           /\ Resolved(t).file = types[t].file
<1>1. types[t] \in Type
    BY TypesDomain
<1>2. CASE types[t].pick = NoType \/ ~Exists(types[t].pick)
    BY <1>1, <1>2 DEF Resolved
<1>3. CASE ~(types[t].pick = NoType \/ ~Exists(types[t].pick))
    <2> DEFINE more == types[t].nested \union types[types[t].pick].nested
    <2>1. Resolved(t) = [types[t] EXCEPT !.nested = more]
        BY <1>3 DEF Resolved
    <2>2. types[types[t].pick] \in Type
        BY <1>3, TypesDomain DEF Exists
    <2>3. more \in SUBSET Nat
        BY <1>1, <2>2 DEF Type
    <2> HIDE DEF more
    <2> QED BY <1>1, <2>1, <2>3 DEF Type
<1> QED BY <1>2, <1>3

LEMMA TypesResolved ==
    ASSUME TypesOK, types' = [t \in DOMAIN types |-> Resolved(t)]
    PROVE  /\ TypesOK' /\ DOMAIN types' = DOMAIN types
           /\ \A t \in DOMAIN types : PickSourceUsable(t)' <=> PickSourceUsable(t)
<1>1. Len(types) \in Nat /\ DOMAIN types = 1..Len(types)
    BY TypesDomain
<1>2. \A t \in DOMAIN types : types'[t] \in Type
    BY ResolvedIs
<1>3. types' \in Seq(Type)
    <2>1. types' \in [1..Len(types) -> Type]
        BY <1>1, <1>2
    <2> QED BY <1>1, <2>1, SeqDef
<1>4. DOMAIN types' = DOMAIN types
    OBVIOUS
<1>5. \A t \in DOMAIN types : /\ types'[t].pick = types[t].pick
                              /\ types'[t].json = types[t].json
                              /\ types'[t].file = types[t].file
    BY ResolvedIs
<1>6. TypesOK'
    BY <1>3, <1>4, <1>5 DEF TypesOK
<1>7. \A t \in DOMAIN types : PickSourceUsable(t)' <=> PickSourceUsable(t)
    <2>1. TAKE t \in DOMAIN types
    <2>2. CASE types[t].pick = NoType
        BY <1>5, <2>2 DEF PickSourceUsable
    <2>3. CASE types[t].pick # NoType /\ types[t].pick \in DOMAIN types
        <3> DEFINE k == types[t].pick
        <3>1. types'[t].pick = k /\ types'[k].json = types[k].json
              /\ types'[k].file = types[k].file /\ types'[t].file = types[t].file
            BY <1>5, <2>3
        <3> QED BY <1>4, <2>3, <3>1 DEF PickSourceUsable, Exists
    <2>4. CASE types[t].pick # NoType /\ types[t].pick \notin DOMAIN types
        BY <1>4, <1>5, <2>4 DEF PickSourceUsable, Exists
    <2> QED BY <2>2, <2>3, <2>4
<1> QED BY <1>4, <1>6, <1>7

-----------------------------------------------------------------------------
(* The invariant, action by action.                                        *)

LEMMA InvHolds ==
    ModelsInv => DeclaredBeforeUse
<1> SUFFICES ASSUME ModelsInv PROVE DeclaredBeforeUse
    OBVIOUS
<1>1. CASE phase = "accepted"
    <2>1. /\ TypesOK /\ PicksUsable /\ FieldsUsable /\ Depths(nesting)
          /\ \A t \in DOMAIN types : nesting[t] \in 1..NestingMax
          /\ Includes(included) /\ ModelFiles \subseteq ToSet(included)
        BY <1>1 DEF ModelsInv
    <2>2. WellFormed
        BY <2>1, AcceptedIsWellFormed
    <2>3. IsInjective(included) /\ ToSet(included) = ModelFiles
        BY <2>1, IncludedFiles DEF Includes
    <2>4. ASSUME NEW t \in DOMAIN types, NEW k \in Uses(t)
          PROVE  \/ At(included, types[k].file) < At(included, types[t].file)
                 \/ types[k].file = types[t].file /\ k < t
        BY <2>1, UsesAreAbove, UsesAreFine
    <2> QED BY <1>1, <2>2, <2>3, <2>4 DEF DeclaredBeforeUse, At
<1>2. CASE phase = "refused"
    BY <1>2 DEF ModelsInv, DeclaredBeforeUse
<1>3. CASE phase # "accepted" /\ phase # "refused"
    BY <1>3 DEF DeclaredBeforeUse
<1> QED BY <1>1, <1>2, <1>3

LEMMA InitInv ==
    ModelsInit => ModelsInv
<1> SUFFICES ASSUME ModelsInit PROVE ModelsInv
    OBVIOUS
<1>1. types = <<>> /\ phase = "parse" /\ passes = 0 /\ included = <<>>
    BY DEF ModelsInit
<1>2. types \in Seq(Type) /\ DOMAIN types = {}
    BY <1>1, EmptySeq
<1> QED BY <1>1, <1>2 DEF ModelsInv, TypesOK

LEMMA DeclareInv ==
    ASSUME ModelsInv, NEW said \in Declarations, NEW f \in 1..FileCount,
           DeclareType(said, f)
    PROVE  ModelsInv'
<1> DEFINE type == [json |-> said.json, nested |-> said.nested, pick |-> said.pick,
                    id |-> said.id, ref |-> said.ref, file |-> f]
           n == Len(types)
<1>1. TypesOK /\ phase = "parse" /\ passes = 0 /\ included = <<>>
    BY DEF ModelsInv, DeclareType
<1>2. types' = Append(types, type) /\ UNCHANGED <<phase, passes, included>>
    BY DEF DeclareType
<1>3. type \in Type /\ (type.pick # NoType => type.json)
    <2>1. said \in [json : BOOLEAN, nested : SUBSET Nat, pick : Nat, id : BOOLEAN, ref : Nat]
        BY ModelsAssumption
    <2>2. said.pick # NoType => said.json
        BY ModelsAssumption
    <2> QED BY <2>1, <2>2 DEF Type
<1> HIDE DEF type
<1>4. /\ types' \in Seq(Type) /\ n \in Nat
      /\ DOMAIN types = 1..n /\ DOMAIN types' = 1..(n + 1)
      /\ \A i \in 1..n : types'[i] = types[i]
      /\ types'[n + 1] = type
    <2>1. types \in Seq(Type)
        BY <1>1 DEF TypesOK
    <2> QED BY <1>2, <1>3, <2>1, Appended
<1>5. \A t \in DOMAIN types' : types'[t].pick # NoType => types'[t].json
    <2>1. \A t \in 1..(n + 1) : t \in 1..n \/ t = n + 1
        BY <1>4
    <2> QED BY <1>1, <1>3, <1>4, <2>1 DEF TypesOK
<1>6. TypesOK'
    BY <1>4, <1>5 DEF TypesOK
<1> QED BY <1>1, <1>2, <1>6 DEF ModelsInv

LEMMA ResolveInv ==
    ASSUME ModelsInv, ResolvePicks
    PROVE  ModelsInv'
<1>1. TypesOK /\ phase = "parse" /\ passes = 0 /\ included = <<>>
    BY DEF ModelsInv, ResolvePicks
<1>2. types' = [t \in DOMAIN types |-> Resolved(t)] /\ UNCHANGED <<passes, included>>
    BY DEF ResolvePicks
<1>3. /\ TypesOK' /\ DOMAIN types' = DOMAIN types
      /\ \A t \in DOMAIN types : PickSourceUsable(t)' <=> PickSourceUsable(t)
    BY <1>1, <1>2, TypesResolved
<1>4. CASE \A t \in DOMAIN types : PickSourceUsable(t)
    <2>1. phase' = "fields"
        BY <1>4 DEF ResolvePicks, Decided
    <2>2. PicksUsable'
        BY <1>3, <1>4 DEF PicksUsable
    <2> QED BY <1>1, <1>2, <1>3, <2>1, <2>2 DEF ModelsInv
<1>5. CASE ~\A t \in DOMAIN types : PickSourceUsable(t)
    <2>1. phase' = "refused"
        BY <1>5 DEF ResolvePicks, Decided
    <2>2. PICK t \in DOMAIN types : ~PickSourceUsable(t)
        BY <1>5
    <2>3. t \in DOMAIN types' /\ ~PickSourceUsable(t)'
        BY <1>3, <2>2
    <2>4. ~WellFormed'
        <3>1. PICK k : k = types'[t].pick
            OBVIOUS
        <3>2. k # NoType /\ ~(/\ k \in DOMAIN types' /\ ~types'[k].json
                              /\ types'[k].file = types'[t].file => k < t)
            BY <2>3, <3>1 DEF PickSourceUsable, Exists
        <3>3. k \in Uses(t)'
            BY <3>1, <3>2 DEF Uses
        <3>4. ASSUME WellFormed' PROVE FALSE
            <4>1. /\ k \in DOMAIN types'
                  /\ types'[k].file = types'[t].file => k < t
                  /\ ~types'[k].json
                BY <2>3, <3>1, <3>2, <3>3, <3>4 DEF WellFormed, Exists
            <4> QED BY <3>2, <4>1
        <3> QED BY <3>4
    <2> QED BY <1>1, <1>2, <1>3, <2>1, <2>4 DEF ModelsInv
<1> QED BY <1>4, <1>5

(* What is said of the types alone stays while they do.                    *)
LEMMA SameTypes ==
    ASSUME types' = types
    PROVE  /\ TypesOK' <=> TypesOK
           /\ PicksUsable' <=> PicksUsable
           /\ FieldsUsable' <=> FieldsUsable
           /\ WellFormed' <=> WellFormed
           /\ ModelFiles' = ModelFiles
<1>1. TypesOK' <=> TypesOK
    BY DEF TypesOK
<1>2. PicksUsable' <=> PicksUsable
    BY DEF PicksUsable, PickSourceUsable, Exists
<1>3. FieldsUsable' <=> FieldsUsable
    BY DEF FieldsUsable, NestedFieldValid, ReferenceValid, Exists
<1>4. ModelFiles' = ModelFiles
    BY DEF ModelFiles
<1>5. WellFormed' <=> WellFormed
    <2>1. Chain(NestingMax + 1)' <=> Chain(NestingMax + 1)
        BY DEF Chain
    <2>2. SomeOrder' <=> SomeOrder
        BY <1>4 DEF SomeOrder, Uses
    <2> QED BY <2>1, <2>2 DEF WellFormed, Uses, Exists, ReferenceValid
<1> QED BY <1>1, <1>2, <1>3, <1>4, <1>5

LEMMA SameIncludes ==
    ASSUME types' = types, included' = included
    PROVE  /\ Includes(included)' <=> Includes(included)
           /\ Blocked(included)' <=> Blocked(included)
<1>1. ModelFiles' = ModelFiles
    BY SameTypes
<1>2. Includes(included)' <=> Includes(included)
    BY <1>1 DEF Includes, Uses
<1>3. Blocked(included)' <=> Blocked(included)
    BY <1>1 DEF Blocked, ModelFileReady, Uses
<1> QED BY <1>2, <1>3

LEMMA SameDepths ==
    ASSUME types' = types, NEW d, nesting' = d
    PROVE  /\ Depths(nesting)' <=> Depths(d)
           /\ Stuck(nesting)' <=> Stuck(d)
           /\ Known(nesting)' = Known(d)
           /\ (\A t \in DOMAIN types : nesting[t] \in 1..NestingMax)'
                  <=> \A t \in DOMAIN types : d[t] \in 1..NestingMax
BY DEF Depths, Explained, Stuck, Known

LEMMA FieldsInv ==
    ASSUME ModelsInv, ValidateTypeFields
    PROVE  ModelsInv'
<1> DEFINE none == [t \in DOMAIN types |-> 0]
<1>1. TypesOK /\ PicksUsable /\ passes = 0 /\ included = <<>>
    BY DEF ModelsInv, ValidateTypeFields
<1>2. nesting' = none /\ UNCHANGED <<types, passes, included>>
    BY DEF ValidateTypeFields
<1>3. CASE FieldsUsable
    <2>1. phase' = "nesting"
        BY <1>3 DEF ValidateTypeFields, Decided, FieldsUsable
    <2>2. Depths(none)
        BY DEF Depths
    <2>3. Cardinality(Known(none)) >= 0
        <3>1. Cardinality(Known(none)) \in Nat
            <4> HIDE DEF none
            <4> QED BY <1>1, KnownFinite
        <3> QED BY <3>1
    <2> HIDE DEF none
    <2>4. Depths(nesting)' /\ Known(nesting)' = Known(none)
        BY <1>2, <2>2, SameDepths
    <2>5. TypesOK' /\ PicksUsable' /\ FieldsUsable'
        BY <1>1, <1>2, <1>3, SameTypes
    <2>6. Cardinality(Known(nesting)') >= passes'
        BY <1>1, <1>2, <2>3, <2>4
    <2> QED BY <1>1, <1>2, <2>1, <2>4, <2>5, <2>6 DEF ModelsInv
<1>4. CASE ~FieldsUsable
    <2>1. phase' = "refused"
        BY <1>4 DEF ValidateTypeFields, Decided, FieldsUsable
    <2>2. ~WellFormed' /\ TypesOK'
        BY <1>1, <1>2, <1>4, BadFieldBreaksARule, SameTypes
    <2> QED BY <1>1, <1>2, <2>1, <2>2 DEF ModelsInv
<1> QED BY <1>3, <1>4

LEMMA NestingPassInv ==
    ASSUME ModelsInv, NestingPass
    PROVE  ModelsInv'
<1>1. /\ TypesOK /\ PicksUsable /\ FieldsUsable /\ Depths(nesting)
      /\ passes \in Nat /\ phase = "nesting" /\ included = <<>>
      /\ Stuck(nesting) \/ Cardinality(Known(nesting)) >= passes
    BY DEF ModelsInv, NestingPass
<1>2. UNCHANGED <<types, phase, included>> /\ passes' = passes + 1
    BY DEF NestingPass
<1>3. Passed(nesting, nesting', Len(types))
    BY <1>1, NestingPassDoes
<1>4. PICK d : d = nesting'
    OBVIOUS
<1>5. Depths(d) /\ (Stuck(d) \/ Cardinality(Known(d)) >= passes + 1)
    <2>1. Passed(nesting, d, Len(types))
        BY <1>3, <1>4
    <2>2. Depths(d)
        BY <2>1 DEF Passed
    <2> QED BY <1>1, <2>1, <2>2, PassSettles
<1>6. Depths(nesting)' /\ (Stuck(nesting)' \/ Cardinality(Known(nesting)') >= passes')
    BY <1>2, <1>4, <1>5, SameDepths
<1>7. TypesOK' /\ PicksUsable' /\ FieldsUsable'
    BY <1>1, <1>2, SameTypes
<1> QED BY <1>1, <1>2, <1>6, <1>7 DEF ModelsInv

LEMMA NestingDecidedInv ==
    ASSUME ModelsInv, NestingDecided
    PROVE  ModelsInv'
<1>1. /\ TypesOK /\ PicksUsable /\ FieldsUsable /\ Depths(nesting)
      /\ included = <<>>
      /\ Stuck(nesting) \/ Cardinality(Known(nesting)) >= Len(types)
    BY DEF ModelsInv, NestingDecided
<1>2. UNCHANGED <<types, nesting, included>> /\ passes' = 0
    BY DEF NestingDecided
<1>3. Stuck(nesting)
    BY <1>1, AllPassesStick
<1>4. TypesOK' /\ PicksUsable' /\ FieldsUsable'
    BY <1>1, <1>2, SameTypes
<1>5. CASE \A t \in DOMAIN types : nesting[t] \in 1..NestingMax
    <2>1. phase' = "emit"
        BY <1>5 DEF NestingDecided, Decided
    <2>2. Depths(nesting)' /\ (\A t \in DOMAIN types : nesting[t] \in 1..NestingMax)'
        BY <1>1, <1>2, <1>5, SameDepths
    <2>3. Includes(included)
        <3>1. included \in Seq(ModelFiles) /\ DOMAIN included = {}
            BY <1>1, EmptySeq
        <3> QED BY <3>1 DEF Includes, IsInjective
    <2>4. Includes(included)'
        BY <1>2, <2>3, SameIncludes
    <2>5. Cardinality(ToSet(included)) >= 0
        <3>1. Cardinality(ToSet(included)) \in Nat
            BY <1>1, <2>3, IncludedFiles
        <3> QED BY <3>1
    <2>6. Cardinality(ToSet(included)') >= passes'
        BY <1>2, <2>5
    <2> QED BY <1>2, <1>4, <2>1, <2>2, <2>4, <2>6 DEF ModelsInv
<1>6. CASE ~\A t \in DOMAIN types : nesting[t] \in 1..NestingMax
    <2>1. phase' = "refused"
        BY <1>6 DEF NestingDecided, Decided
    <2>2. Chain(NestingMax + 1)
        BY <1>1, <1>3, <1>6, TooDeepIsRefused
    <2>3. ~WellFormed
        BY <2>2 DEF WellFormed
    <2>4. ~WellFormed'
        BY <1>2, <2>3, SameTypes
    <2> QED BY <1>1, <1>2, <1>4, <2>1, <2>4 DEF ModelsInv
<1> QED BY <1>5, <1>6

LEMMA IncludePassInv ==
    ASSUME ModelsInv, IncludePass
    PROVE  ModelsInv'
<1>1. /\ TypesOK /\ PicksUsable /\ FieldsUsable /\ Depths(nesting)
      /\ \A t \in DOMAIN types : nesting[t] \in 1..NestingMax
      /\ Includes(included) /\ passes \in Nat /\ phase = "emit"
      /\ Blocked(included) \/ Cardinality(ToSet(included)) >= passes
    BY DEF ModelsInv, IncludePass
<1>2. UNCHANGED <<types, phase, nesting>> /\ passes' = passes + 1
    BY DEF IncludePass
<1>3. Emitted(included, included', FileCount)
    BY <1>1, ModelFilesFinite, IncludePassDoes
<1>4. PICK d : d = included'
    OBVIOUS
<1>5. Includes(d) /\ (Blocked(d) \/ Cardinality(ToSet(d)) >= passes + 1)
    <2>1. Emitted(included, d, FileCount)
        BY <1>3, <1>4
    <2>2. Includes(d)
        BY <2>1 DEF Emitted
    <2> QED BY <1>1, <2>1, <2>2, PassIncludes
<1>6. ModelFiles' = ModelFiles
    BY <1>2, SameTypes
<1>7. Includes(included)'
    BY <1>2, <1>4, <1>5, <1>6 DEF Includes, Uses
<1>8. Blocked(included)' \/ Cardinality(ToSet(included)') >= passes'
    BY <1>2, <1>4, <1>5, <1>6 DEF Blocked, ModelFileReady, Uses
<1>9. TypesOK' /\ PicksUsable' /\ FieldsUsable'
    BY <1>1, <1>2, SameTypes
<1>10. Depths(nesting)' /\ (\A t \in DOMAIN types : nesting[t] \in 1..NestingMax)'
    BY <1>1, <1>2, SameDepths
<1> QED BY <1>1, <1>2, <1>7, <1>8, <1>9, <1>10 DEF ModelsInv

LEMMA IncludesDecidedInv ==
    ASSUME ModelsInv, IncludesDecided
    PROVE  ModelsInv'
<1>1. /\ TypesOK /\ PicksUsable /\ FieldsUsable /\ Depths(nesting)
      /\ \A t \in DOMAIN types : nesting[t] \in 1..NestingMax
      /\ Includes(included) /\ passes \in Nat
      /\ Blocked(included) \/ Cardinality(ToSet(included)) >= FileCount
    BY DEF ModelsInv, IncludesDecided
<1>2. UNCHANGED <<types, passes, nesting, included>>
    BY DEF IncludesDecided
<1>3. TypesOK' /\ PicksUsable' /\ FieldsUsable' /\ ModelFiles' = ModelFiles
    BY <1>1, <1>2, SameTypes
<1>4. CASE ModelFiles \subseteq ToSet(included)
    <2>1. phase' = "accepted"
        BY <1>4 DEF IncludesDecided, Decided
    <2>2. Depths(nesting)' /\ (\A t \in DOMAIN types : nesting[t] \in 1..NestingMax)'
        BY <1>1, <1>2, SameDepths
    <2>3. Includes(included)'
        BY <1>1, <1>2, SameIncludes
    <2>4. (ModelFiles \subseteq ToSet(included))'
        BY <1>2, <1>3, <1>4
    <2> QED BY <1>1, <1>2, <1>3, <2>1, <2>2, <2>3, <2>4 DEF ModelsInv
<1>5. CASE ~(ModelFiles \subseteq ToSet(included))
    <2>1. phase' = "refused"
        BY <1>5 DEF IncludesDecided, Decided
    <2>2. Blocked(included)
        BY <1>1, AllPassesBlock
    <2>3. ~SomeOrder
        BY <1>1, <1>5, <2>2, BlockedHasNoOrder
    <2>4. ~WellFormed
        BY <2>3 DEF WellFormed
    <2>5. ~WellFormed'
        BY <1>2, <2>4, SameTypes
    <2> QED BY <1>1, <1>2, <1>3, <2>1, <2>5 DEF ModelsInv
<1> QED BY <1>4, <1>5

LEMMA StutterInv ==
    ASSUME ModelsInv, UNCHANGED modelVars
    PROVE  ModelsInv'
<1>1. types' = types /\ nesting' = nesting /\ included' = included
      /\ phase' = phase /\ passes' = passes
    BY DEF modelVars
<1>2. /\ TypesOK' <=> TypesOK
      /\ PicksUsable' <=> PicksUsable
      /\ FieldsUsable' <=> FieldsUsable
      /\ WellFormed' <=> WellFormed
      /\ ModelFiles' = ModelFiles
    BY <1>1, SameTypes
<1>3. /\ Includes(included)' <=> Includes(included)
      /\ Blocked(included)' <=> Blocked(included)
    BY <1>1, SameIncludes
<1>4. /\ Depths(nesting)' <=> Depths(nesting)
      /\ Stuck(nesting)' <=> Stuck(nesting)
      /\ Known(nesting)' = Known(nesting)
    BY <1>1, SameDepths
<1> QED BY <1>1, <1>2, <1>3, <1>4 DEF ModelsInv

(* TypesAreOrdered: whatever a project declares, in however many files and *)
(* levels, the generator accepts it exactly when its types can be declared *)
(* before they are used, and then includes its files in such an order      *)
(* (resolve_picks, validate_types, emit_model_includes).                   *)
THEOREM TypesAreOrdered == ModelsSpec => []DeclaredBeforeUse
<1>1. ModelsInit => ModelsInv
    BY InitInv
<1>2. ModelsInv /\ [ModelsNext]_modelVars => ModelsInv'
    <2> SUFFICES ASSUME ModelsInv, [ModelsNext]_modelVars PROVE ModelsInv'
        OBVIOUS
    <2>1. CASE \E said \in Declarations, f \in 1..FileCount : DeclareType(said, f)
        BY <2>1, DeclareInv
    <2>2. CASE ResolvePicks
        BY <2>2, ResolveInv
    <2>3. CASE ValidateTypeFields
        BY <2>3, FieldsInv
    <2>4. CASE NestingPass
        BY <2>4, NestingPassInv
    <2>5. CASE NestingDecided
        BY <2>5, NestingDecidedInv
    <2>6. CASE IncludePass
        BY <2>6, IncludePassInv
    <2>7. CASE IncludesDecided
        BY <2>7, IncludesDecidedInv
    <2>8. CASE UNCHANGED modelVars
        BY <2>8, StutterInv
    <2> QED BY <2>1, <2>2, <2>3, <2>4, <2>5, <2>6, <2>7, <2>8 DEF ModelsNext
<1>3. ModelsInv => DeclaredBeforeUse
    BY InvHolds
<1> QED BY <1>1, <1>2, <1>3, PTL DEF ModelsSpec

-----------------------------------------------------------------------------
(* The reading of a file.                                                  *)

Decl == [name : STRING, at : Nat]

Notes == [auth : BOOLEAN, public : BOOLEAN, role : STRING \union {NoRole},
          transactional : BOOLEAN, produces : BOOLEAN]

RouteDecl == [name : STRING, at : Nat, notes : Notes]

FieldDecl == [name : STRING, at : Nat, flags : SUBSET STRING, rules : SUBSET STRING,
              references : BOOLEAN]

TypeDecl == [name : STRING, fields : Seq(FieldDecl), json : BOOLEAN]

ParserState ==
    [ lineno : Nat, inStruct : BOOLEAN, needOpen : BOOLEAN,
      failed : BOOLEAN, auth : BOOLEAN, public : BOOLEAN, role : STRING \union {NoRole},
      produces : BOOLEAN,
      transactional : BOOLEAN, routeArmed : BOOLEAN, taskArmed : BOOLEAN,
      joining : Seq(STRING), depth : Nat, txArmed : BOOLEAN, txDepths : Seq(Nat \ {0}),
      pending : SUBSET STRING, rules : SUBSET STRING, references : BOOLEAN,
      routes : Seq(RouteDecl), services : Seq(Decl), tasks : Seq(Decl), stores : Seq(Decl),
      functions : Seq(Decl), types : Seq(TypeDecl) ]

(* What a call leaves alone.                                               *)
KeepsPlace(p, q) == q.lineno = p.lineno /\ q.joining = p.joining

KeepsGuard(p, q) == q.depth = p.depth /\ q.txArmed = p.txArmed /\ q.txDepths = p.txDepths

KeepsNotes(p, q) ==
    q.auth = p.auth /\ q.public = p.public /\ q.role = p.role /\ q.produces = p.produces

KeepsRoutes(p, q) == q.routes = p.routes /\ q.routeArmed = p.routeArmed

KeepsServices(p, q) == q.services = p.services /\ q.transactional = p.transactional

KeepsTasks(p, q) == q.tasks = p.tasks /\ q.taskArmed = p.taskArmed

KeepsPending(p, q) ==
    q.pending = p.pending /\ q.rules = p.rules /\ q.references = p.references

KeepsTypes(p, q) ==
    /\ q.inStruct = p.inStruct /\ q.needOpen = p.needOpen
    /\ q.types = p.types /\ KeepsPending(p, q)

KeepsDeclared(p, q) ==
    KeepsNotes(p, q) /\ KeepsRoutes(p, q) /\ KeepsServices(p, q) /\ KeepsTasks(p, q)

KeepsAll(p, q) == KeepsPlace(p, q) /\ KeepsGuard(p, q) /\ KeepsDeclared(p, q) /\ KeepsTypes(p, q)

LEMMA BooleanFields ==
    ASSUME NEW p \in ParserState
    PROVE  /\ p.inStruct \in BOOLEAN /\ p.needOpen \in BOOLEAN /\ p.failed \in BOOLEAN
           /\ p.auth \in BOOLEAN /\ p.public \in BOOLEAN /\ p.produces \in BOOLEAN
           /\ p.transactional \in BOOLEAN /\ p.routeArmed \in BOOLEAN
           /\ p.taskArmed \in BOOLEAN /\ p.txArmed \in BOOLEAN /\ p.references \in BOOLEAN
BY DEF ParserState

LEMMA FailIs ==
    ASSUME NEW p \in ParserState
    PROVE  Fail(p) \in ParserState /\ Fail(p).failed
BY Zenon DEF Fail, ParserState

LEMMA CollectIs ==
    ASSUME NEW p \in ParserState, NEW line \in Lines
    PROVE  LET q == CollectFunction(p, line)
           IN  q \in ParserState /\ (~q.failed => ~p.failed /\ KeepsAll(p, q))
<1> DEFINE q == CollectFunction(p, line)
<1>1. CASE q = p
    BY <1>1 DEF KeepsAll, KeepsPlace, KeepsGuard, KeepsDeclared, KeepsNotes, KeepsRoutes,
                KeepsServices, KeepsTasks, KeepsTypes, KeepsPending
<1>2. CASE q = Fail(p)
    BY <1>2, FailIs
<1>3. CASE line.kind = "signature"
           /\ q = [p EXCEPT !.functions = Append(@, [name |-> line.name, at |-> p.lineno])]
    <2> DEFINE list == Append(p.functions, [name |-> line.name, at |-> p.lineno])
    <2>1. line.name \in STRING /\ p.lineno \in Nat /\ p.functions \in Seq(Decl)
        BY <1>3 DEF Lines, NamedKinds, PlainKinds, ParserState
    <2>2. list \in Seq(Decl)
        BY <2>1 DEF Decl
    <2>3. q = [p EXCEPT !.functions = list]
        BY <1>3
    <2> HIDE DEF list
    <2>4. q \in ParserState
        BY <2>2, <2>3, ZenonT(60) DEF ParserState
    <2>5. KeepsAll(p, q) /\ q.failed = p.failed
        BY <2>3 DEF ParserState, KeepsAll, KeepsPlace, KeepsGuard, KeepsDeclared, KeepsNotes,
                KeepsRoutes, KeepsServices, KeepsTasks, KeepsTypes, KeepsPending
    <2> QED BY <2>4, <2>5
<1>4. q = p \/ q = Fail(p) \/ (line.kind = "signature"
           /\ q = [p EXCEPT !.functions = Append(@, [name |-> line.name, at |-> p.lineno])])
    BY DEF CollectFunction
<1> QED BY <1>1, <1>2, <1>3, <1>4

(* The effects of parse_top_level_line on what is pending and declared.    *)
Calm(p) == ~p.auth /\ ~p.public /\ p.role = NoRole /\ ~p.produces

Noted(p, q, line) ==
    /\ line.kind \in RouteNotes
    /\ KeepsRoutes(p, q) /\ KeepsTasks(p, q) /\ KeepsTypes(p, q)
    /\ q.auth = (p.auth \/ line.kind = "authenticated")
    /\ q.public = (p.public \/ line.kind = "public")
    /\ q.produces = (p.produces \/ line.kind = "produces")
    /\ q.role = IF line.kind = "role" THEN line.role ELSE p.role
    /\ q.services = p.services
    /\ q.transactional = (p.transactional \/ line.kind = "transactional")
    /\ line.kind = "transactional" => ~p.transactional

RouteAwaited(p, q, line) ==
    /\ line.kind = "route" /\ ~p.routeArmed /\ ~p.taskArmed
    /\ q.routeArmed /\ q.routes = p.routes
    /\ KeepsNotes(p, q) /\ KeepsServices(p, q) /\ KeepsTasks(p, q) /\ KeepsTypes(p, q)

RouteTaken(p, q, line) ==
    /\ line.kind = "signature" /\ p.routeArmed /\ ~q.routeArmed
    /\ q.routes = Append(p.routes, [name |-> line.name, at |-> p.lineno,
                                    notes |-> PendingRoute(p)])
    /\ Calm(q) /\ q.services = p.services /\ ~q.transactional
    /\ KeepsTasks(p, q) /\ KeepsTypes(p, q)

TaskAwaited(p, q, line) ==
    /\ line.kind \in TaskKinds /\ ~p.routeArmed /\ ~p.taskArmed
    /\ q.taskArmed /\ q.tasks = p.tasks
    /\ KeepsNotes(p, q) /\ KeepsRoutes(p, q) /\ KeepsServices(p, q) /\ KeepsTypes(p, q)

TaskTaken(p, q, line) ==
    /\ line.kind \in {"signature", "prototype", "oneline"}
    /\ p.taskArmed /\ ~p.routeArmed /\ ~q.taskArmed
    /\ q.tasks = Append(p.tasks, [name |-> line.name, at |-> p.lineno])
    /\ KeepsNotes(p, q) /\ KeepsRoutes(p, q) /\ KeepsServices(p, q) /\ KeepsTypes(p, q)

ServiceTaken(p, q, line) ==
    /\ line.kind = "signature" /\ p.transactional /\ ~q.transactional
    /\ ~p.routeArmed /\ ~p.taskArmed /\ Calm(p)
    /\ q.services = Append(p.services, [name |-> line.name, at |-> p.lineno])
    /\ KeepsNotes(p, q) /\ KeepsRoutes(p, q) /\ KeepsTasks(p, q) /\ KeepsTypes(p, q)

TypeOpened(p, q, line) ==
    /\ line.kind \in {"table", "json"} /\ ~p.transactional
    /\ ~p.routeArmed /\ ~p.taskArmed /\ Calm(p)
    /\ q.types = Append(p.types, [name |-> line.name, fields |-> <<>>,
                                  json |-> line.kind = "json"])
    /\ q.inStruct /\ q.needOpen /\ q.pending = {} /\ q.rules = p.rules
    /\ q.references = p.references /\ KeepsDeclared(p, q)

PassedOver(p, q, line) ==
    /\ line.kind \notin RouteNotes \union TaskKinds \union {"route"}
    /\ p.routeArmed => line.kind = "blank"
    /\ p.taskArmed => line.kind \in {"blank", "store"}
    /\ KeepsDeclared(p, q) /\ KeepsTypes(p, q)

TopEffect(p, q, line) ==
    \/ Noted(p, q, line) \/ RouteAwaited(p, q, line) \/ RouteTaken(p, q, line)
    \/ TaskAwaited(p, q, line) \/ TaskTaken(p, q, line) \/ ServiceTaken(p, q, line)
    \/ TypeOpened(p, q, line) \/ PassedOver(p, q, line)

(* A call that is no error leaves a state with one of these effects.       *)
Effective(p, q, line) ==
    ~q.failed => /\ q \in ParserState /\ ~p.failed
                 /\ KeepsPlace(p, q) /\ KeepsGuard(p, q) /\ TopEffect(p, q, line)

LEMMA NoteIs ==
    ASSUME NEW p \in ParserState, NEW line \in Lines, line.kind \in AuthKinds
    PROVE  Effective(p, ParseAuth(p, line), line)
<1> DEFINE q == ParseAuth(p, line)
<1>1. CASE line.kind = "authenticated"
    <2>1. q = [p EXCEPT !.auth = TRUE]
        BY <1>1 DEF ParseAuth
    <2>2. q \in ParserState
        BY <2>1, ZenonT(60) DEF ParserState
    <2>3. /\ KeepsPlace(p, q) /\ KeepsGuard(p, q) /\ KeepsTypes(p, q) /\ KeepsRoutes(p, q)
          /\ KeepsTasks(p, q) /\ q.failed = p.failed /\ q.auth = TRUE /\ q.public = p.public
          /\ q.role = p.role /\ q.produces = p.produces /\ KeepsServices(p, q)
        BY <2>1 DEF ParserState, KeepsPlace, KeepsGuard, KeepsTypes, KeepsRoutes, KeepsTasks,
                    KeepsPending, KeepsServices
    <2> HIDE DEF q
    <2>4. Noted(p, q, line)
        BY <1>1, <2>3, BooleanFields DEF Noted, RouteNotes, AuthKinds, KeepsServices
    <2> QED BY <2>2, <2>3, <2>4 DEF Effective, TopEffect, q
<1>2. CASE line.kind = "public"
    <2>1. q = [p EXCEPT !.public = TRUE]
        BY <1>2 DEF ParseAuth
    <2>2. q \in ParserState
        BY <2>1, ZenonT(60) DEF ParserState
    <2>3. /\ KeepsPlace(p, q) /\ KeepsGuard(p, q) /\ KeepsTypes(p, q) /\ KeepsRoutes(p, q)
          /\ KeepsTasks(p, q) /\ q.failed = p.failed /\ q.auth = p.auth /\ q.public = TRUE
          /\ q.role = p.role /\ q.produces = p.produces /\ KeepsServices(p, q)
        BY <2>1 DEF ParserState, KeepsPlace, KeepsGuard, KeepsTypes, KeepsRoutes, KeepsTasks,
                    KeepsPending, KeepsServices
    <2> HIDE DEF q
    <2>4. Noted(p, q, line)
        BY <1>2, <2>3, BooleanFields DEF Noted, RouteNotes, AuthKinds, KeepsServices
    <2> QED BY <2>2, <2>3, <2>4 DEF Effective, TopEffect, q
<1>3. CASE line.kind = "role"
    <2>1. q = [p EXCEPT !.role = line.role] /\ line.role \in STRING
        BY <1>3 DEF ParseAuth, Lines, PlainKinds, NamedKinds
    <2>2a. line.role \in STRING \union {NoRole}
        BY <2>1
    <2>2. q \in ParserState
        BY <2>1, <2>2a, ZenonT(60) DEF ParserState
    <2>3. /\ KeepsPlace(p, q) /\ KeepsGuard(p, q) /\ KeepsTypes(p, q) /\ KeepsRoutes(p, q)
          /\ KeepsTasks(p, q) /\ q.failed = p.failed /\ q.auth = p.auth /\ q.public = p.public
          /\ q.role = line.role /\ q.produces = p.produces /\ KeepsServices(p, q)
        BY <2>1 DEF ParserState, KeepsPlace, KeepsGuard, KeepsTypes, KeepsRoutes, KeepsTasks,
                    KeepsPending, KeepsServices
    <2> HIDE DEF q
    <2>4. Noted(p, q, line)
        BY <1>3, <2>3, BooleanFields DEF Noted, RouteNotes, AuthKinds, KeepsServices
    <2> QED BY <2>2, <2>3, <2>4 DEF Effective, TopEffect, q
<1> QED BY <1>1, <1>2, <1>3 DEF AuthKinds

LEMMA ProducesIs ==
    ASSUME NEW p \in ParserState, NEW line \in Lines, line.kind = "produces"
    PROVE  Effective(p, ParseProduces(p), line)
<1> DEFINE q == ParseProduces(p)
<1>1. CASE p.produces
    <2>1. q.failed
        BY <1>1, FailIs DEF ParseProduces
    <2> QED BY <2>1 DEF Effective
<1>2. CASE ~p.produces
    <2>1. q = [p EXCEPT !.produces = TRUE]
        BY <1>2 DEF ParseProduces
    <2>2. q \in ParserState
        BY <2>1, ZenonT(60) DEF ParserState
    <2>3. /\ KeepsPlace(p, q) /\ KeepsGuard(p, q) /\ KeepsTypes(p, q) /\ KeepsRoutes(p, q)
          /\ KeepsTasks(p, q) /\ q.failed = p.failed /\ q.auth = p.auth /\ q.public = p.public
          /\ q.role = p.role /\ q.produces = TRUE /\ KeepsServices(p, q)
        BY <2>1 DEF ParserState, KeepsPlace, KeepsGuard, KeepsTypes, KeepsRoutes, KeepsTasks,
                    KeepsPending, KeepsServices
    <2> HIDE DEF q
    <2>4. Noted(p, q, line)
        BY <2>3, BooleanFields DEF Noted, RouteNotes, AuthKinds, KeepsServices
    <2> QED BY <2>2, <2>3, <2>4 DEF Effective, TopEffect, q
<1> QED BY <1>1, <1>2

LEMMA TransactionalIs ==
    ASSUME NEW p \in ParserState, NEW line \in Lines, line.kind = "transactional"
    PROVE  Effective(p, ParseTransactional(p), line)
<1> DEFINE q == ParseTransactional(p)
<1>1. CASE p.depth # 0 \/ p.transactional
    <2>1. q.failed
        BY <1>1, FailIs DEF ParseTransactional
    <2> QED BY <2>1 DEF Effective
<1>2. CASE ~(p.depth # 0 \/ p.transactional)
    <2>1. q = [p EXCEPT !.transactional = TRUE]
        BY <1>2 DEF ParseTransactional
    <2>2. q \in ParserState
        BY <2>1, ZenonT(60) DEF ParserState
    <2>3. /\ KeepsPlace(p, q) /\ KeepsGuard(p, q) /\ KeepsTypes(p, q) /\ KeepsRoutes(p, q)
          /\ KeepsTasks(p, q) /\ q.failed = p.failed /\ KeepsNotes(p, q)
          /\ q.services = p.services /\ q.transactional = TRUE
        BY <2>1 DEF ParserState, KeepsPlace, KeepsGuard, KeepsTypes, KeepsRoutes, KeepsTasks,
                    KeepsPending, KeepsNotes
    <2> HIDE DEF q
    <2>4. Noted(p, q, line)
        BY <1>2, <2>3, BooleanFields DEF Noted, RouteNotes, AuthKinds, KeepsNotes
    <2> QED BY <2>2, <2>3, <2>4 DEF Effective, TopEffect, q
<1> QED BY <1>1, <1>2

LEMMA DeclIs ==
    ASSUME NEW p \in ParserState, NEW line \in Lines,
           line.kind \in {"signature", "prototype", "oneline", "store", "table", "json", "pick"}
    PROVE  line.name \in STRING /\ [name |-> line.name, at |-> p.lineno] \in Decl
<1>1. line.name \in STRING
    BY DEF Lines, NamedKinds, PlainKinds
<1> QED BY <1>1 DEF Decl, ParserState

LEMMA AppendIs ==
    ASSUME NEW S, NEW s \in Seq(S), NEW e \in S
    PROVE  Append(s, e) \in Seq(S)
OBVIOUS

LEMMA PendingRouteIs ==
    ASSUME NEW p \in ParserState
    PROVE  PendingRoute(p) \in Notes
BY DEF PendingRoute, Notes, ParserState

LEMMA RouteIs ==
    ASSUME NEW p \in ParserState, NEW line \in Lines, p.routeArmed
    PROVE  Effective(p, ParseRoute(p, line), line)
<1> DEFINE q0 == [p EXCEPT !.routeArmed = FALSE]
           q == ParseRoute(p, line)
<1>1. q0 \in ParserState
    BY Zenon DEF ParserState
<1>2. CASE Full(p.routes) \/ line.kind # "signature"
    <2>1. q = Fail(q0)
        BY <1>2 DEF ParseRoute
    <2>2. q.failed
        BY <1>1, <2>1, FailIs
    <2> QED BY <2>2 DEF Effective
<1>3. CASE ~(Full(p.routes) \/ line.kind # "signature")
    <2> DEFINE route == [name |-> line.name, at |-> p.lineno, notes |-> PendingRoute(p)]
               list == Append(p.routes, route)
               bad == p.failed \/ (p.public /\ (p.auth \/ p.role # NoRole))
    <2>1. line.name \in STRING /\ p.lineno \in Nat /\ p.routes \in Seq(RouteDecl)
        BY <1>3, DeclIs DEF ParserState
    <2>2. route \in RouteDecl
        BY <2>1, PendingRouteIs DEF RouteDecl
    <2>3. list \in Seq(RouteDecl)
        <3> HIDE DEF route
        <3> QED BY <2>1, <2>2, AppendIs
    <2>4. q = [TakePending(q0) EXCEPT !.routes = Append(@, route)]
        BY <1>3 DEF ParseRoute
    <2> HIDE DEF route
    <2>5. TakePending(q0) =
              [p EXCEPT !.routeArmed = FALSE, !.failed = bad, !.auth = FALSE,
                        !.public = FALSE, !.role = NoRole, !.transactional = FALSE,
                        !.produces = FALSE]
        BY DEF TakePending, ParserState
    <2>6. q = [p EXCEPT !.routeArmed = FALSE, !.failed = bad, !.auth = FALSE,
                        !.public = FALSE, !.role = NoRole, !.transactional = FALSE,
                        !.produces = FALSE, !.routes = list]
        BY <2>4, <2>5 DEF ParserState
    <2>7. bad \in BOOLEAN
        BY BooleanFields
    <2> HIDE DEF list, bad
    <2>8. q \in ParserState
        <3> DEFINE q1 == [p EXCEPT !.routeArmed = FALSE, !.failed = bad, !.auth = FALSE]
                   q2 == [q1 EXCEPT !.public = FALSE, !.role = NoRole, !.transactional = FALSE]
        <3>1. NoRole \in STRING \union {NoRole}
            OBVIOUS
        <3>2. q1 \in ParserState
            BY <2>7, ZenonT(60) DEF ParserState
        <3> HIDE DEF q1
        <3>3. q2 \in ParserState
            BY <3>1, <3>2, ZenonT(60) DEF ParserState
        <3>4. q = [q2 EXCEPT !.produces = FALSE, !.routes = list]
            BY <2>6 DEF q1
        <3> HIDE DEF q2, q
        <3> QED BY <2>3, <3>3, <3>4, ZenonT(60) DEF ParserState
    <2>9. /\ KeepsPlace(p, q) /\ KeepsGuard(p, q) /\ KeepsTypes(p, q) /\ KeepsTasks(p, q)
          /\ q.failed = bad /\ ~q.auth /\ ~q.public /\ q.role = NoRole /\ ~q.produces
          /\ ~q.transactional /\ q.services = p.services /\ ~q.routeArmed /\ q.routes = list
        <3> HIDE DEF q
        <3> QED BY <2>6 DEF ParserState, KeepsPlace, KeepsGuard, KeepsTypes, KeepsTasks,
                            KeepsPending
    <2> HIDE DEF q
    <2>10. RouteTaken(p, q, line)
        BY <1>3, <2>9 DEF RouteTaken, Calm, list, route
    <2>11. q.failed = (p.failed \/ (p.public /\ (p.auth \/ p.role # NoRole)))
        BY <2>9 DEF bad
    <2> QED BY <2>8, <2>9, <2>10, <2>11 DEF Effective, TopEffect, q
<1> QED BY <1>2, <1>3

LEMMA StoreIs ==
    ASSUME NEW p \in ParserState, NEW line \in Lines, line.kind = "store", ~p.routeArmed
    PROVE  Effective(p, ParseStore(p, line), line)
<1> DEFINE q == ParseStore(p, line)
<1>1. CASE Full(p.stores) \/ Declared(p.stores, line.name)
    <2>1. q.failed
        BY <1>1, FailIs DEF ParseStore
    <2> QED BY <2>1 DEF Effective
<1>2. CASE ~(Full(p.stores) \/ Declared(p.stores, line.name))
    <2> DEFINE list == Append(p.stores, [name |-> line.name, at |-> p.lineno])
    <2>1. list \in Seq(Decl)
        <3>1. p.stores \in Seq(Decl) /\ [name |-> line.name, at |-> p.lineno] \in Decl
            BY DeclIs DEF ParserState
        <3> QED BY <3>1, AppendIs
    <2>2. q = [p EXCEPT !.stores = list]
        BY <1>2 DEF ParseStore
    <2> HIDE DEF list
    <2>3. q \in ParserState
        BY <2>1, <2>2, ZenonT(60) DEF ParserState
    <2>4. KeepsAll(p, q) /\ q.failed = p.failed
        BY <2>2 DEF ParserState, KeepsAll, KeepsPlace, KeepsGuard, KeepsDeclared, KeepsNotes,
                KeepsRoutes, KeepsServices, KeepsTasks, KeepsTypes, KeepsPending
    <2> HIDE DEF q
    <2>5. PassedOver(p, q, line)
        BY <2>4 DEF PassedOver, KeepsAll, RouteNotes, AuthKinds, TaskKinds
    <2> QED BY <2>3, <2>4, <2>5 DEF Effective, TopEffect, KeepsAll, q
<1> QED BY <1>1, <1>2

LEMMA RepeatIs ==
    ASSUME NEW p \in ParserState, NEW line \in Lines, line.kind \in TaskKinds, ~p.routeArmed
    PROVE  Effective(p, ParseRepeat(p), line)
<1> DEFINE q == ParseRepeat(p)
<1>1. CASE p.taskArmed
    <2>1. q.failed
        BY <1>1, FailIs DEF ParseRepeat
    <2> QED BY <2>1 DEF Effective
<1>2. CASE ~p.taskArmed
    <2>1. q = [p EXCEPT !.taskArmed = TRUE]
        BY <1>2 DEF ParseRepeat
    <2>2. q \in ParserState
        BY <2>1, ZenonT(60) DEF ParserState
    <2>3. /\ KeepsPlace(p, q) /\ KeepsGuard(p, q) /\ KeepsTypes(p, q) /\ KeepsRoutes(p, q)
          /\ KeepsNotes(p, q) /\ KeepsServices(p, q) /\ q.failed = p.failed
          /\ q.taskArmed = TRUE /\ q.tasks = p.tasks
        BY <2>1 DEF ParserState, KeepsPlace, KeepsGuard, KeepsTypes, KeepsRoutes,
                    KeepsPending, KeepsNotes, KeepsServices
    <2> HIDE DEF q
    <2>4. TaskAwaited(p, q, line)
        BY <1>2, <2>3 DEF TaskAwaited
    <2> QED BY <2>2, <2>3, <2>4 DEF Effective, TopEffect, q
<1> QED BY <1>1, <1>2

LEMMA TaskIs ==
    ASSUME NEW p \in ParserState, NEW line \in Lines, p.taskArmed, ~p.routeArmed
    PROVE  Effective(p, ParseTask(p, line), line)
<1> DEFINE q0 == [p EXCEPT !.taskArmed = FALSE]
           q == ParseTask(p, line)
           ok == ~Full(p.tasks) /\ line.kind \in {"signature", "prototype", "oneline"}
<1>1. q0 \in ParserState
    BY Zenon DEF ParserState
<1>2. CASE ~ok
    <2>1. q = Fail(q0)
        BY <1>2 DEF ParseTask
    <2>2. q.failed
        BY <1>1, <2>1, FailIs
    <2> QED BY <2>2 DEF Effective
<1>3. CASE ok
    <2> DEFINE list == Append(p.tasks, [name |-> line.name, at |-> p.lineno])
    <2>1. list \in Seq(Decl)
        <3>1. p.tasks \in Seq(Decl) /\ [name |-> line.name, at |-> p.lineno] \in Decl
            BY <1>3, DeclIs DEF ParserState
        <3> QED BY <3>1, AppendIs
    <2>2. q = [q0 EXCEPT !.tasks = list]
        BY <1>3 DEF ParseTask, ParserState
    <2> HIDE DEF list
    <2>3. q = [p EXCEPT !.taskArmed = FALSE, !.tasks = list]
        BY <2>2
    <2>4. q \in ParserState
        BY <2>1, <2>3, ZenonT(60) DEF ParserState
    <2>5. /\ KeepsPlace(p, q) /\ KeepsGuard(p, q) /\ KeepsTypes(p, q) /\ KeepsRoutes(p, q)
          /\ KeepsNotes(p, q) /\ KeepsServices(p, q) /\ q.failed = p.failed
          /\ ~q.taskArmed /\ q.tasks = list
        <3> HIDE DEF q
        <3> QED BY <2>3 DEF ParserState, KeepsPlace, KeepsGuard, KeepsTypes, KeepsRoutes,
                    KeepsPending, KeepsNotes, KeepsServices
    <2> HIDE DEF q
    <2>6. TaskTaken(p, q, line)
        BY <1>3, <2>5 DEF TaskTaken, list
    <2> QED BY <2>4, <2>5, <2>6 DEF Effective, TopEffect, q
<1> QED BY <1>2, <1>3

LEMMA DropIs ==
    ASSUME NEW p \in ParserState
    PROVE  /\ Calm(p) => DropDanglingAuth(p) = p
           /\ ~Calm(p) => DropDanglingAuth(p) \in ParserState /\ DropDanglingAuth(p).failed
<1>1. CASE Calm(p)
    BY <1>1 DEF Calm, DropDanglingAuth
<1>2. CASE ~Calm(p)
    <2> DEFINE q == [p EXCEPT !.auth = FALSE, !.public = FALSE, !.role = NoRole,
                              !.produces = FALSE]
    <2>1. DropDanglingAuth(p) = Fail(q)
        BY <1>2 DEF Calm, DropDanglingAuth
    <2>2. q \in ParserState
        <3>1. NoRole \in STRING \union {NoRole}
            OBVIOUS
        <3> QED BY <3>1, ZenonT(60) DEF ParserState
    <2> QED BY <1>2, <2>1, <2>2, FailIs
<1> QED BY <1>1, <1>2

LEMMA ServiceFails ==
    ASSUME NEW p \in ParserState, NEW line \in Lines, p.failed
    PROVE  ParseService(p, line).failed
<1> DEFINE q0 == [p EXCEPT !.transactional = FALSE]
           q1 == [q0 EXCEPT !.services = Append(@, [name |-> line.name, at |-> p.lineno])]
<1>1. q0 \in ParserState
    BY Zenon DEF ParserState
<1>2. Fail(q0).failed
    BY <1>1, FailIs
<1>3. q1.failed
    <2>1. q0.failed
        BY DEF ParserState
    <2> HIDE DEF q0
    <2> QED BY <1>1, <2>1 DEF ParserState
<1>4. ParseService(p, line) = Fail(q0) \/ ParseService(p, line) = q1
    BY DEF ParseService
<1> QED BY <1>2, <1>3, <1>4

LEMMA OpenTypeFails ==
    ASSUME NEW p \in ParserState, NEW line \in Lines, p.failed
    PROVE  OpenType(p, line).failed
<1> DEFINE q == [p EXCEPT !.types = Append(@, [name |-> line.name, fields |-> <<>>,
                                               json |-> line.kind = "json"]),
                          !.inStruct = TRUE, !.needOpen = TRUE, !.pending = {}]
<1>1. Fail(p).failed
    BY FailIs
<1>2. q.failed
    BY DEF ParserState
<1>3. OpenType(p, line) = Fail(p) \/ OpenType(p, line) = q
    BY DEF OpenType
<1> QED BY <1>1, <1>2, <1>3

LEMMA DeclarationFails ==
    ASSUME NEW p \in ParserState, NEW line \in Lines, p.failed
    PROVE  ParseDeclaration(p, line).failed
BY ServiceFails, OpenTypeFails, BooleanFields DEF ParseDeclaration

LEMMA ServiceIs ==
    ASSUME NEW p \in ParserState, NEW line \in Lines, p.transactional, Calm(p),
           ~p.routeArmed, ~p.taskArmed
    PROVE  Effective(p, ParseService(p, line), line)
<1> DEFINE q0 == [p EXCEPT !.transactional = FALSE]
           q == ParseService(p, line)
           ok == ~Full(p.services) /\ line.kind = "signature"
<1>1. q0 \in ParserState
    BY Zenon DEF ParserState
<1>2. CASE ~ok
    <2>1. q = Fail(q0)
        BY <1>2 DEF ParseService
    <2>2. q.failed
        BY <1>1, <2>1, FailIs
    <2> QED BY <2>2 DEF Effective
<1>3. CASE ok
    <2> DEFINE list == Append(p.services, [name |-> line.name, at |-> p.lineno])
    <2>1. list \in Seq(Decl)
        <3>1. p.services \in Seq(Decl) /\ [name |-> line.name, at |-> p.lineno] \in Decl
            BY <1>3, DeclIs DEF ParserState
        <3> QED BY <3>1, AppendIs
    <2>2. q = [q0 EXCEPT !.services = list]
        BY <1>3 DEF ParseService, ParserState
    <2> HIDE DEF list
    <2>3. q = [p EXCEPT !.transactional = FALSE, !.services = list]
        BY <2>2
    <2>4. q \in ParserState
        BY <2>1, <2>3, ZenonT(60) DEF ParserState
    <2>5. /\ KeepsPlace(p, q) /\ KeepsGuard(p, q) /\ KeepsTypes(p, q) /\ KeepsRoutes(p, q)
          /\ KeepsNotes(p, q) /\ KeepsTasks(p, q) /\ q.failed = p.failed
          /\ ~q.transactional /\ q.services = list
        <3> HIDE DEF q
        <3> QED BY <2>3 DEF ParserState, KeepsPlace, KeepsGuard, KeepsTypes, KeepsRoutes,
                    KeepsPending, KeepsNotes, KeepsTasks
    <2> HIDE DEF q
    <2>6. ServiceTaken(p, q, line)
        BY <1>3, <2>5 DEF ServiceTaken, list
    <2> QED BY <2>4, <2>5, <2>6 DEF Effective, TopEffect, q
<1> QED BY <1>2, <1>3

LEMMA OpenTypeIs ==
    ASSUME NEW p \in ParserState, NEW line \in Lines, ~p.transactional, Calm(p),
           ~p.routeArmed, ~p.taskArmed, line.kind \in {"table", "json"}
    PROVE  Effective(p, OpenType(p, line), line)
<1> DEFINE q == OpenType(p, line)
           ok == ~(Full(p.types) \/ Declared(p.types, line.name))
<1>2. CASE ~ok
    <2>1. q = Fail(p)
        BY <1>2 DEF OpenType
    <2>2. q.failed
        BY <2>1, FailIs
    <2> QED BY <2>2 DEF Effective
<1>3. CASE ok
    <2> DEFINE type == [name |-> line.name, fields |-> <<>>, json |-> line.kind = "json"]
               list == Append(p.types, type)
    <2>1. list \in Seq(TypeDecl)
        <3>1. p.types \in Seq(TypeDecl) /\ line.name \in STRING
            BY DeclIs DEF ParserState
        <3>2. type \in TypeDecl
            <4>1. <<>> \in Seq(FieldDecl) /\ (line.kind = "json") \in BOOLEAN
                OBVIOUS
            <4> QED BY <3>1, <4>1, Zenon DEF TypeDecl
        <3> HIDE DEF type
        <3> QED BY <3>1, <3>2, AppendIs
    <2> HIDE DEF type
    <2>2. q = [p EXCEPT !.types = list, !.inStruct = TRUE, !.needOpen = TRUE, !.pending = {}]
        BY <1>3 DEF OpenType, type
    <2> HIDE DEF list
    <2>4. q \in ParserState
        <3>1. {} \in SUBSET STRING
            OBVIOUS
        <3> QED BY <2>1, <2>2, <3>1, ZenonT(60) DEF ParserState
    <2>5. /\ KeepsPlace(p, q) /\ KeepsGuard(p, q) /\ KeepsDeclared(p, q)
          /\ q.failed = p.failed /\ q.types = list /\ q.inStruct /\ q.needOpen
          /\ q.pending = {} /\ q.rules = p.rules /\ q.references = p.references
        <3> HIDE DEF q
        <3> QED BY <2>2 DEF ParserState, KeepsPlace, KeepsGuard, KeepsDeclared, KeepsRoutes,
                    KeepsServices, KeepsNotes, KeepsTasks
    <2> HIDE DEF q
    <2>6. TypeOpened(p, q, line)
        BY <1>3, <2>5 DEF TypeOpened, list, type
    <2> QED BY <2>4, <2>5, <2>6 DEF Effective, TopEffect, q
<1> QED BY <1>2, <1>3

LEMMA PassIs ==
    ASSUME NEW p \in ParserState, NEW line \in Lines,
           line.kind \notin RouteNotes \union TaskKinds \union {"route"},
           p.routeArmed => line.kind = "blank",
           p.taskArmed => line.kind \in {"blank", "store"}
    PROVE  Effective(p, p, line)
BY DEF Effective, TopEffect, PassedOver, KeepsDeclared, KeepsTypes, KeepsNotes, KeepsRoutes,
       KeepsServices, KeepsTasks, KeepsPending, KeepsPlace, KeepsGuard

LEMMA RouteLineIs ==
    ASSUME NEW p \in ParserState, NEW line \in Lines, line.kind = "route",
           ~p.routeArmed, ~p.taskArmed
    PROVE  Effective(p, [p EXCEPT !.routeArmed = TRUE], line)
<1> DEFINE q == [p EXCEPT !.routeArmed = TRUE]
<1>1. q \in ParserState
    BY Zenon DEF ParserState
<1>2. /\ KeepsPlace(p, q) /\ KeepsGuard(p, q) /\ KeepsTypes(p, q) /\ KeepsServices(p, q)
      /\ KeepsNotes(p, q) /\ KeepsTasks(p, q) /\ q.failed = p.failed
      /\ q.routeArmed = TRUE /\ q.routes = p.routes
    BY DEF ParserState, KeepsPlace, KeepsGuard, KeepsTypes, KeepsServices,
           KeepsPending, KeepsNotes, KeepsTasks
<1> HIDE DEF q
<1>3. RouteAwaited(p, q, line)
    BY <1>2 DEF RouteAwaited
<1> QED BY <1>1, <1>2, <1>3 DEF Effective, TopEffect, q

LEMMA DeclarationIs ==
    ASSUME NEW p \in ParserState, NEW line \in Lines, ~p.routeArmed, ~p.taskArmed,
           line.kind \notin RouteNotes \union TaskKinds \union {"route"}
    PROVE  Effective(p, ParseDeclaration(DropDanglingAuth(p), line), line)
<1>1. CASE ~Calm(p)
    BY <1>1, DropIs, DeclarationFails DEF Effective
<1>2. CASE Calm(p)
    <2>1. DropDanglingAuth(p) = p
        BY <1>2, DropIs
    <2>2. CASE p.transactional
        <3>1. ParseDeclaration(p, line) = ParseService(p, line)
            BY <2>2 DEF ParseDeclaration
        <3> QED BY <1>2, <2>1, <2>2, <3>1, ServiceIs
    <2>3. CASE ~p.transactional /\ line.kind \in {"table", "json"}
        <3>1. ParseDeclaration(p, line) = OpenType(p, line)
            BY <2>3 DEF ParseDeclaration
        <3> QED BY <1>2, <2>1, <2>3, <3>1, OpenTypeIs
    <2>4. CASE ~p.transactional /\ line.kind \notin {"table", "json"}
        <3>1. ParseDeclaration(p, line) = p
            BY <2>4 DEF ParseDeclaration
        <3> QED BY <2>1, <3>1, PassIs
    <2> QED BY <2>2, <2>3, <2>4
<1> QED BY <1>1, <1>2

LEMMA TopLevelIs ==
    ASSUME NEW p \in ParserState, NEW line \in Lines
    PROVE  Effective(p, ParseTopLevel(p, line), line)
<1> DEFINE q == ParseTopLevel(p, line)
<1>1. CASE line.kind = "blank"
    <2>1. q = p
        BY <1>1 DEF ParseTopLevel, AuthKinds
    <2> QED BY <1>1, <2>1, PassIs DEF RouteNotes, AuthKinds, TaskKinds
<1>2. CASE line.kind = "malformed"
    <2>1. q = Fail(p)
        BY <1>2 DEF ParseTopLevel, AuthKinds
    <2> QED BY <2>1, FailIs DEF Effective
<1>3. CASE line.kind = "transactional"
    <2>1. q = ParseTransactional(p)
        BY <1>3 DEF ParseTopLevel, AuthKinds
    <2> QED BY <1>3, <2>1, TransactionalIs
<1>4. CASE line.kind \in AuthKinds
    <2>1. q = ParseAuth(p, line)
        BY <1>4 DEF ParseTopLevel, AuthKinds
    <2> QED BY <1>4, <2>1, NoteIs
<1>5. CASE line.kind = "produces"
    <2>1. q = ParseProduces(p)
        BY <1>5 DEF ParseTopLevel, AuthKinds
    <2> QED BY <1>5, <2>1, ProducesIs
<1>6. CASE line.kind \notin RouteNotes \union {"blank", "malformed"}
    <2>1. CASE p.routeArmed
        <3>1. q = ParseRoute(p, line)
            BY <1>6, <2>1 DEF ParseTopLevel, RouteNotes
        <3> QED BY <2>1, <3>1, RouteIs
    <2>2. CASE ~p.routeArmed /\ line.kind = "store"
        <3>1. q = ParseStore(p, line)
            BY <2>2 DEF ParseTopLevel, AuthKinds, TaskKinds
        <3> QED BY <2>2, <3>1, StoreIs
    <2>3. CASE ~p.routeArmed /\ line.kind \in TaskKinds
        <3>1. q = ParseRepeat(p)
            BY <2>3 DEF ParseTopLevel, TaskKinds, AuthKinds
        <3> QED BY <2>3, <3>1, RepeatIs
    <2>4. CASE ~p.routeArmed /\ line.kind \notin TaskKinds \union {"store"} /\ p.taskArmed
        <3>1. q = ParseTask(p, line)
            BY <1>6, <2>4 DEF ParseTopLevel, RouteNotes
        <3> QED BY <2>4, <3>1, TaskIs
    <2>5. CASE ~p.routeArmed /\ line.kind = "route" /\ ~p.taskArmed
        <3>1. q = [p EXCEPT !.routeArmed = TRUE]
            BY <2>5 DEF ParseTopLevel, AuthKinds, TaskKinds
        <3> QED BY <2>5, <3>1, RouteLineIs
    <2>6. CASE /\ ~p.routeArmed /\ line.kind \notin TaskKinds \union {"store", "route"}
               /\ ~p.taskArmed
        <3>1. q = ParseDeclaration(DropDanglingAuth(p), line)
            BY <1>6, <2>6 DEF ParseTopLevel, RouteNotes
        <3>2. line.kind \notin RouteNotes \union TaskKinds \union {"route"}
            BY <1>6, <2>6
        <3> QED BY <2>6, <3>1, <3>2, DeclarationIs
    <2> QED BY <2>1, <2>2, <2>3, <2>4, <2>5, <2>6
<1> QED BY <1>1, <1>2, <1>3, <1>4, <1>5, <1>6 DEF RouteNotes

(* The effects of the lines of a type.                                     *)
TypeUnopened(p, q, line) ==
    /\ line.kind = "open" /\ p.needOpen /\ ~q.needOpen
    /\ q.inStruct = p.inStruct /\ q.types = p.types /\ KeepsPending(p, q)

TypeClosed(p, q, line) ==
    /\ line.kind = "typeclose" /\ ~p.needOpen /\ ~q.inStruct /\ ~q.needOpen
    /\ p.pending = {} /\ p.rules = {} /\ ~p.references
    /\ q.types = p.types /\ KeepsPending(p, q)

Extended(list, field) ==
    LET n == Len(list)
    IN  [list EXCEPT ![n] = [list[n] EXCEPT !.fields = Append(list[n].fields, field)]]

Picked(p, q, line) ==
    /\ line.kind = "pick" /\ p.pending = {} /\ p.rules = {} /\ ~p.references
    /\ q.types = Extended(p.types, [name |-> line.name, at |-> p.lineno, flags |-> {},
                                    rules |-> {}, references |-> FALSE])
    /\ KeepsPending(p, q)

Fielded(p, q, line) ==
    /\ line.kind = "field"
    /\ q.types = Extended(p.types, [name |-> line.name, at |-> p.lineno,
                                    flags |-> line.flags \union p.pending,
                                    rules |-> p.rules, references |-> p.references])
    /\ q.pending = {} /\ q.rules = {} /\ ~q.references

Prefixed(p, q, line) ==
    /\ line.kind \in {"rule", "flags", "references"}
    /\ q.types = p.types
    /\ q.rules = IF line.kind = "rule" THEN p.rules \union {line.rule} ELSE p.rules
    /\ q.pending = IF line.kind = "flags" THEN p.pending \union line.flags ELSE p.pending
    /\ q.references = (p.references \/ line.kind = "references")

BodyEffect(p, q, line) ==
    /\ ~p.needOpen /\ ~q.needOpen /\ p.inStruct /\ q.inStruct
    /\ Picked(p, q, line) \/ Fielded(p, q, line) \/ Prefixed(p, q, line)

StructEffect(p, q, line) ==
    \/ line.kind = "blank" /\ KeepsTypes(p, q)
    \/ TypeUnopened(p, q, line) \/ TypeClosed(p, q, line) \/ BodyEffect(p, q, line)

InType(p, q, line) ==
    ~q.failed => /\ q \in ParserState /\ ~p.failed /\ KeepsPlace(p, q) /\ KeepsGuard(p, q)
                 /\ KeepsDeclared(p, q) /\ StructEffect(p, q, line)

LEMMA ExtendedIs ==
    ASSUME NEW list \in Seq(TypeDecl), list # <<>>, NEW field \in FieldDecl
    PROVE  Extended(list, field) \in Seq(TypeDecl)
<1> DEFINE n == Len(list)
           last == [list[n] EXCEPT !.fields = Append(list[n].fields, field)]
<1>0. n \in 1..Len(list) /\ list[n] \in TypeDecl
    OBVIOUS
<1>1. list[n].fields \in Seq(FieldDecl)
    <2> HIDE DEF n
    <2> QED BY <1>0 DEF TypeDecl
<1>2. Append(list[n].fields, field) \in Seq(FieldDecl)
    BY <1>1, AppendIs
<1>3. last \in TypeDecl
    <2> DEFINE fields == Append(list[n].fields, field)
    <2>1. last = [list[n] EXCEPT !.fields = fields]
        OBVIOUS
    <2>2. fields \in Seq(FieldDecl)
        BY <1>2
    <2> HIDE DEF fields, n
    <2> QED BY <1>0, <2>1, <2>2, Zenon DEF TypeDecl
<1>4. Extended(list, field) = [list EXCEPT ![n] = last]
    BY DEF Extended
<1> HIDE DEF last
<1> QED BY <1>0, <1>3, <1>4

LEMMA AddFieldIs ==
    ASSUME NEW p \in ParserState, p.types # <<>>, NEW field \in FieldDecl
    PROVE  LET q == AddField(p, field)
           IN  /\ q \in ParserState /\ q.types = Extended(p.types, field)
               /\ q.failed = p.failed /\ KeepsPlace(p, q) /\ KeepsGuard(p, q)
               /\ KeepsDeclared(p, q) /\ KeepsPending(p, q)
               /\ q.inStruct = p.inStruct /\ q.needOpen = p.needOpen
<1> DEFINE q == AddField(p, field)
           list == Extended(p.types, field)
<1>1. list \in Seq(TypeDecl)
    <2>1. p.types \in Seq(TypeDecl)
        BY DEF ParserState
    <2> QED BY <2>1, ExtendedIs
<1>2. q = [p EXCEPT !.types = list]
    BY DEF AddField, Extended
<1> HIDE DEF list
<1>3. q \in ParserState
    BY <1>1, <1>2, ZenonT(60) DEF ParserState
<1>4. /\ q.types = list /\ q.failed = p.failed /\ KeepsPlace(p, q) /\ KeepsGuard(p, q)
      /\ KeepsDeclared(p, q) /\ KeepsPending(p, q)
      /\ q.inStruct = p.inStruct /\ q.needOpen = p.needOpen
    <2> HIDE DEF q
    <2> QED BY <1>2 DEF ParserState, KeepsPlace, KeepsGuard, KeepsDeclared, KeepsRoutes,
                KeepsServices, KeepsNotes, KeepsTasks, KeepsPending
<1> QED BY <1>3, <1>4 DEF list

LEMMA PickIs ==
    ASSUME NEW p \in ParserState, p.types # <<>>, p.inStruct, ~p.needOpen,
           NEW line \in Lines, line.kind = "pick"
    PROVE  InType(p, ParsePick(p, line), line)
<1> DEFINE q == ParsePick(p, line)
           field == [name |-> line.name, at |-> p.lineno, flags |-> {}, rules |-> {},
                     references |-> FALSE]
           ok == ~(~Last(p.types).json \/ Fields(p) # <<>>
                   \/ p.pending # {} \/ p.rules # {} \/ p.references)
<1>1. CASE ~ok
    <2>1. q = Fail(p)
        BY <1>1 DEF ParsePick
    <2> QED BY <2>1, FailIs DEF InType
<1>2. CASE ok
    <2>1. field \in FieldDecl
        <3>1. line.name \in STRING /\ p.lineno \in Nat /\ {} \in SUBSET STRING
            BY DeclIs DEF ParserState
        <3> QED BY <3>1 DEF FieldDecl
    <2>2. q = AddField(p, field)
        BY <1>2 DEF ParsePick
    <2> HIDE DEF field
    <2>3. /\ q \in ParserState /\ q.types = Extended(p.types, field)
          /\ q.failed = p.failed /\ KeepsPlace(p, q) /\ KeepsGuard(p, q)
          /\ KeepsDeclared(p, q) /\ KeepsPending(p, q)
          /\ q.inStruct = p.inStruct /\ q.needOpen = p.needOpen
        BY <2>1, <2>2, AddFieldIs, ZenonT(60)
    <2>4. p.pending = {} /\ p.rules = {} /\ ~p.references
        BY <1>2
    <2> HIDE DEF q, ok
    <2>5. BodyEffect(p, q, line)
        BY <2>3, <2>4 DEF BodyEffect, Picked, field
    <2> QED BY <2>3, <2>5 DEF InType, StructEffect, q
<1> QED BY <1>1, <1>2

LEMMA FieldIs ==
    ASSUME NEW p \in ParserState, p.types # <<>>, p.inStruct, ~p.needOpen,
           NEW line \in Lines, line.kind = "field"
    PROVE  InType(p, ParseField(p, line), line)
<1> DEFINE q == ParseField(p, line)
           q0 == [p EXCEPT !.rules = {}, !.references = FALSE, !.pending = {}]
           field == [name |-> line.name, at |-> p.lineno,
                     flags |-> line.flags \union p.pending, rules |-> p.rules,
                     references |-> p.references]
           ok == ~(Len(Fields(p)) >= MaxFields \/ ~CheckValidation(line, p.rules)
                   \/ FieldConflicts(p, field, line))
<1>1. q0 \in ParserState
    <2>1. {} \in SUBSET STRING
        OBVIOUS
    <2> QED BY <2>1, ZenonT(60) DEF ParserState
<1>2. CASE ~ok
    <2>1. q = Fail(q0)
        BY <1>2 DEF ParseField
    <2> QED BY <1>1, <2>1, FailIs DEF InType
<1>3. CASE ok
    <2>1. field \in FieldDecl
        <3>1. line.name \in STRING /\ line.flags \in SUBSET STRING
            BY DEF Lines, PlainKinds, NamedKinds
        <3>2. /\ p.lineno \in Nat /\ p.pending \in SUBSET STRING /\ p.rules \in SUBSET STRING
              /\ p.references \in BOOLEAN
            BY DEF ParserState
        <3>3. line.flags \union p.pending \in SUBSET STRING
            BY <3>1, <3>2
        <3> QED BY <3>1, <3>2, <3>3, Zenon DEF FieldDecl
    <2>2. q = AddField(q0, field)
        BY <1>3 DEF ParseField
    <2>3. /\ q0.types = p.types /\ q0.failed = p.failed /\ KeepsPlace(p, q0)
          /\ KeepsGuard(p, q0) /\ KeepsDeclared(p, q0) /\ q0.inStruct = p.inStruct
          /\ q0.needOpen = p.needOpen
          /\ q0.rules = {} /\ q0.pending = {} /\ ~q0.references
        BY DEF ParserState, KeepsPlace, KeepsGuard, KeepsDeclared, KeepsRoutes,
                KeepsServices, KeepsNotes, KeepsTasks
    <2> HIDE DEF field, q0
    <2>4. /\ q \in ParserState /\ q.types = Extended(p.types, field)
          /\ q.failed = q0.failed /\ KeepsPlace(q0, q) /\ KeepsGuard(q0, q)
          /\ KeepsDeclared(q0, q) /\ KeepsPending(q0, q)
          /\ q.inStruct = q0.inStruct /\ q.needOpen = q0.needOpen
        <3>1. q0.types # <<>>
            BY <2>3
        <3>2. q = AddField(q0, field)
            BY <2>2
        <3>3. AddField(q0, field).types = Extended(q0.types, field)
            BY <1>1, <2>1, <3>1, AddFieldIs
        <3> HIDE DEF q
        <3> QED BY <1>1, <2>1, <2>3, <3>1, <3>2, <3>3, AddFieldIs, Zenon
    <2> HIDE DEF q, ok
    <2>5. KeepsPlace(p, q) /\ KeepsGuard(p, q) /\ KeepsDeclared(p, q)
        BY <2>3, <2>4 DEF KeepsPlace, KeepsGuard, KeepsDeclared, KeepsRoutes,
                KeepsServices, KeepsNotes, KeepsTasks
    <2>6. BodyEffect(p, q, line)
        BY <2>3, <2>4 DEF BodyEffect, Fielded, KeepsPending, field
    <2> QED BY <2>3, <2>4, <2>5, <2>6 DEF InType, StructEffect, q
<1> QED BY <1>2, <1>3

LEMMA PrefixIs ==
    ASSUME NEW p \in ParserState, p.inStruct, ~p.needOpen, NEW q \in ParserState,
           NEW line \in Lines, Prefixed(p, q, line), q.failed = p.failed, KeepsPlace(p, q),
           KeepsGuard(p, q), KeepsDeclared(p, q), q.inStruct = p.inStruct,
           q.needOpen = p.needOpen
    PROVE  InType(p, q, line)
BY DEF InType, StructEffect, BodyEffect

LEMMA BodyIs ==
    ASSUME NEW p \in ParserState, p.types # <<>>, p.inStruct, ~p.needOpen, NEW line \in Lines
    PROVE  InType(p, ParseTypeBody(p, line), line)
<1> DEFINE q == ParseTypeBody(p, line)
<1>1. CASE line.kind = "pick"
    <2>1. q = ParsePick(p, line)
        BY <1>1 DEF ParseTypeBody
    <2> QED BY <1>1, <2>1, PickIs
<1>2. CASE line.kind = "field"
    <2>1. q = ParseField(p, line)
        BY <1>2 DEF ParseTypeBody
    <2> QED BY <1>2, <2>1, FieldIs
<1>3. CASE line.kind = "rule" /\ line.rule \notin p.rules
    <2> DEFINE rules == p.rules \union {line.rule}
    <2>1. q = [p EXCEPT !.rules = rules]
        BY <1>3 DEF ParseTypeBody, RuleAnnotation
    <2>2. rules \in SUBSET STRING
        BY <1>3 DEF Lines, PlainKinds, NamedKinds, ParserState
    <2> HIDE DEF rules
    <2>3. q \in ParserState
        BY <2>1, <2>2, ZenonT(60) DEF ParserState
    <2>4. /\ q.failed = p.failed /\ KeepsPlace(p, q) /\ KeepsGuard(p, q)
          /\ KeepsDeclared(p, q) /\ q.inStruct = p.inStruct /\ q.needOpen = p.needOpen
          /\ q.types = p.types /\ q.rules = rules /\ q.pending = p.pending
          /\ q.references = p.references
        BY <2>1 DEF ParserState, KeepsPlace, KeepsGuard, KeepsDeclared, KeepsRoutes,
                KeepsServices, KeepsNotes, KeepsTasks
    <2> HIDE DEF q
    <2>5. Prefixed(p, q, line)
        BY <1>3, <2>4, BooleanFields DEF Prefixed, rules
    <2> QED BY <2>3, <2>4, <2>5, PrefixIs DEF q
<1>4. CASE line.kind = "flags"
    <2> DEFINE flags == p.pending \union line.flags
    <2>1. q = [p EXCEPT !.pending = flags]
        BY <1>4 DEF ParseTypeBody
    <2>2. flags \in SUBSET STRING
        BY <1>4 DEF Lines, PlainKinds, NamedKinds, ParserState
    <2> HIDE DEF flags
    <2>3. q \in ParserState
        BY <2>1, <2>2, ZenonT(60) DEF ParserState
    <2>4. /\ q.failed = p.failed /\ KeepsPlace(p, q) /\ KeepsGuard(p, q)
          /\ KeepsDeclared(p, q) /\ q.inStruct = p.inStruct /\ q.needOpen = p.needOpen
          /\ q.types = p.types /\ q.rules = p.rules /\ q.pending = flags
          /\ q.references = p.references
        BY <2>1 DEF ParserState, KeepsPlace, KeepsGuard, KeepsDeclared, KeepsRoutes,
                KeepsServices, KeepsNotes, KeepsTasks
    <2> HIDE DEF q
    <2>5. Prefixed(p, q, line)
        BY <1>4, <2>4, BooleanFields DEF Prefixed, flags
    <2> QED BY <2>3, <2>4, <2>5, PrefixIs DEF q
<1>5. CASE line.kind = "references" /\ ~p.references
    <2>1. q = [p EXCEPT !.references = TRUE]
        BY <1>5 DEF ParseTypeBody, ParseReferences
    <2>3. q \in ParserState
        BY <2>1, ZenonT(60) DEF ParserState
    <2>4. /\ q.failed = p.failed /\ KeepsPlace(p, q) /\ KeepsGuard(p, q)
          /\ KeepsDeclared(p, q) /\ q.inStruct = p.inStruct /\ q.needOpen = p.needOpen
          /\ q.types = p.types /\ q.rules = p.rules /\ q.pending = p.pending
          /\ q.references = TRUE
        BY <2>1 DEF ParserState, KeepsPlace, KeepsGuard, KeepsDeclared, KeepsRoutes,
                KeepsServices, KeepsNotes, KeepsTasks
    <2> HIDE DEF q
    <2>5. Prefixed(p, q, line)
        BY <1>5, <2>4 DEF Prefixed
    <2> QED BY <2>3, <2>4, <2>5, PrefixIs DEF q
<1>6. CASE \/ line.kind \notin {"pick", "field", "rule", "flags", "references"}
           \/ line.kind = "rule" /\ line.rule \in p.rules
           \/ line.kind = "references" /\ p.references
    <2>1. q = Fail(p)
        BY <1>6 DEF ParseTypeBody, RuleAnnotation, ParseReferences
    <2> QED BY <2>1, FailIs DEF InType
<1> QED BY <1>1, <1>2, <1>3, <1>4, <1>5, <1>6

LEMMA StructIs ==
    ASSUME NEW p \in ParserState, p.types # <<>>, p.inStruct, NEW line \in Lines
    PROVE  InType(p, ParseStruct(p, line), line)
<1> DEFINE q == ParseStruct(p, line)
<1>1. CASE line.kind = "blank"
    <2>1. q = p
        BY <1>1 DEF ParseStruct
    <2> QED BY <1>1, <2>1 DEF InType, StructEffect, KeepsDeclared, KeepsTypes, KeepsNotes,
                KeepsRoutes, KeepsServices, KeepsTasks, KeepsPending, KeepsPlace, KeepsGuard
<1>2. CASE line.kind # "blank" /\ p.needOpen
    <2> DEFINE bad == p.failed \/ line.kind # "open"
    <2>1. q = [p EXCEPT !.failed = bad, !.needOpen = FALSE]
        BY <1>2 DEF ParseStruct
    <2>2. bad \in BOOLEAN
        BY BooleanFields
    <2> HIDE DEF bad
    <2>3. q \in ParserState
        BY <2>1, <2>2, ZenonT(60) DEF ParserState
    <2>4. /\ q.failed = bad /\ KeepsPlace(p, q) /\ KeepsGuard(p, q)
          /\ KeepsDeclared(p, q) /\ q.inStruct = p.inStruct /\ ~q.needOpen
          /\ q.types = p.types /\ KeepsPending(p, q)
        BY <2>1, ZenonT(60) DEF ParserState, KeepsPlace, KeepsGuard, KeepsDeclared, KeepsRoutes,
                KeepsServices, KeepsNotes, KeepsTasks, KeepsPending
    <2> HIDE DEF q
    <2>5. ~q.failed => ~p.failed /\ line.kind = "open"
        BY <2>4 DEF bad
    <2>6. ~q.failed => TypeUnopened(p, q, line)
        BY <1>2, <2>4, <2>5 DEF TypeUnopened
    <2> QED BY <2>3, <2>4, <2>5, <2>6 DEF InType, StructEffect, q
<1>3. CASE line.kind \in {"close", "else", "typeclose"} /\ ~p.needOpen
    <2> DEFINE bad == \/ p.failed \/ line.kind # "typeclose"
                      \/ p.pending # {} \/ p.references \/ p.rules # {}
                      \/ Fields(p) = <<>>
    <2>1. q = [p EXCEPT !.failed = bad, !.inStruct = FALSE, !.needOpen = FALSE,
                        !.pending = {}]
        BY <1>3 DEF ParseStruct, HandleClose
    <2>2. bad \in BOOLEAN /\ {} \in SUBSET STRING
        BY BooleanFields
    <2>2a. ~bad => /\ ~p.failed /\ line.kind = "typeclose" /\ p.pending = {} /\ ~p.references
                   /\ p.rules = {}
        OBVIOUS
    <2> HIDE DEF bad
    <2>3. q \in ParserState
        <3> DEFINE q1 == [p EXCEPT !.failed = bad, !.inStruct = FALSE]
        <3>1. q1 \in ParserState
            BY <2>2, ZenonT(60) DEF ParserState
        <3>2. q = [q1 EXCEPT !.needOpen = FALSE, !.pending = {}]
            BY <2>1
        <3> HIDE DEF q1, q
        <3> QED BY <2>2, <3>1, <3>2, ZenonT(60) DEF ParserState
    <2>4. /\ q.failed = bad /\ KeepsPlace(p, q) /\ KeepsGuard(p, q)
          /\ KeepsDeclared(p, q) /\ ~q.inStruct /\ ~q.needOpen
          /\ q.types = p.types /\ q.pending = {} /\ q.rules = p.rules
          /\ q.references = p.references
        BY <2>1 DEF ParserState, KeepsPlace, KeepsGuard, KeepsDeclared, KeepsRoutes,
                KeepsServices, KeepsNotes, KeepsTasks, KeepsPending
    <2> HIDE DEF q
    <2>6. ~q.failed => TypeClosed(p, q, line)
        BY <1>3, <2>2a, <2>4 DEF TypeClosed, KeepsPending
    <2> QED BY <2>2a, <2>3, <2>4, <2>6 DEF InType, StructEffect, q
<1>4. CASE line.kind \notin {"blank", "close", "else", "typeclose"} /\ ~p.needOpen
    <2>1. q = ParseTypeBody(p, line)
        BY <1>4 DEF ParseStruct
    <2> QED BY <1>4, <2>1, BodyIs
<1> QED BY <1>1, <1>2, <1>3, <1>4

-----------------------------------------------------------------------------
(* The tokens of the file, one after the other.                            *)
GuardTokens == {"open", "close", "transaction", "return"}

Flat(seqs, f) == f = [i \in 1..Len(seqs) |-> IF i = 1 THEN seqs[i] ELSE f[i - 1] \o seqs[i]]

LEMMA FlatExists ==
    ASSUME NEW S, NEW seqs \in Seq(Seq(S))
    PROVE  \E f : Flat(seqs, f)
<1> DEFINE n == Len(seqs)
           g == [k \in 1..n |-> [y \in Seq(S) |-> y \o seqs[k]]]
<1>0. n \in Nat /\ \A k \in 1..n : seqs[k] \in Seq(S)
    OBVIOUS
<1> HIDE DEF n
<1>1. PICK r : IsRun(r, <<>>, g, n)
    BY <1>0, RunExists
<1>2. /\ r[0] = <<>>
      /\ \A k \in 1..n : r[k] = g[k][r[k - 1]]
    <2> HIDE DEF g
    <2> QED BY <1>0, <1>1 DEF IsRun
<1> DEFINE P == {k \in 0..n : r[k] \in Seq(S)}
<1>3. \A k \in 0..n : k \in P
    <2>1. 0 \in P
        <3>1. <<>> \in Seq(S) /\ 0 \in 0..n
            BY <1>0
        <3> QED BY <1>2, <3>1
    <2>2. ASSUME NEW k \in 1..n, k - 1 \in P PROVE k \in P
        <3>1. r[k] = r[k - 1] \o seqs[k]
            BY <1>2, <2>2
        <3>2. r[k] \in Seq(S)
            BY <1>0, <2>2, <3>1, ConcatProperties
        <3>3. k \in 0..n
            OBVIOUS
        <3> QED BY <3>2, <3>3
    <2> HIDE DEF P
    <2> QED BY <1>0, <2>1, <2>2, UpTo
<1>4. \A k \in 1..n : r[k - 1] \in Seq(S) /\ r[k] = r[k - 1] \o seqs[k]
    <2> TAKE k \in 1..n
    <2>1. k - 1 \in 0..n
        BY <1>0
    <2> QED BY <1>2, <1>3, <2>1
<1> HIDE DEF g, P
<1> DEFINE f == [i \in 1..n |-> r[i]]
           h == [i \in 1..n |-> IF i = 1 THEN seqs[i] ELSE f[i - 1] \o seqs[i]]
<1>5. \A i \in 1..n : f[i] = h[i]
    <2> TAKE i \in 1..n
    <2>1. CASE i = 1
        <3>0. 1 - 1 = 0
            OBVIOUS
        <3>1. r[1] = <<>> \o seqs[1]
            BY <1>2, <1>4, <2>1, <3>0
        <3>2. <<>> \o seqs[1] = seqs[1]
            BY <1>0, <2>1, ConcatEmptySeq
        <3> QED BY <2>1, <3>1, <3>2
    <2>2. CASE i # 1
        <3>1. i - 1 \in 1..n
            BY <1>0, <2>2
        <3> QED BY <1>4, <2>2, <3>1
    <2> QED BY <2>1, <2>2
<1>6. f = h
    <2>1. f = [i \in 1..n |-> f[i]] /\ h = [i \in 1..n |-> h[i]]
        OBVIOUS
    <2> HIDE DEF f, h
    <2> QED BY <1>5, <2>1
<1> HIDE DEF f
<1> QED BY <1>6 DEF Flat, n

LEMMA FlattenIs ==
    ASSUME NEW S, NEW seqs \in Seq(Seq(S)), Len(seqs) # 0
    PROVE  \E f : Flat(seqs, f) /\ FlattenSeq(seqs) = f[Len(seqs)]
<1> DEFINE f == CHOOSE f : Flat(seqs, f)
<1>1. Flat(seqs, f)
    BY FlatExists
<1>2. FlattenSeq(seqs) = f[Len(seqs)]
    BY DEF FlattenSeq, Flat
<1> QED BY <1>1, <1>2

LEMMA FlattenType ==
    ASSUME NEW S, NEW seqs \in Seq(Seq(S)), Len(seqs) # 0
    PROVE  FlattenSeq(seqs) \in Seq(S)
<1>n. PICK n \in Nat : n = Len(seqs)
    OBVIOUS
<1>0. \A k \in 1..n : seqs[k] \in Seq(S)
    BY <1>n
<1>1. PICK f : Flat(seqs, f) /\ FlattenSeq(seqs) = f[n]
    BY <1>n, FlattenIs
<1>2. \A i \in 1..n : f[i] = IF i = 1 THEN seqs[i] ELSE f[i - 1] \o seqs[i]
    BY <1>n, <1>1 DEF Flat
<1> DEFINE P == {k \in 0..n : k # 0 => f[k] \in Seq(S)}
<1>3. \A k \in 0..n : k \in P
    <2>1. 0 \in P
        OBVIOUS
    <2>2. ASSUME NEW k \in 1..n, k - 1 \in P PROVE k \in P
        <3>1. k \in 0..n
            OBVIOUS
        <3>2. CASE k = 1
            BY <1>0, <1>2, <3>1, <3>2
        <3>3. CASE k # 1
            <4>1. f[k - 1] \in Seq(S) /\ seqs[k] \in Seq(S)
                BY <1>0, <2>2, <3>3
            <4>2. f[k] = f[k - 1] \o seqs[k]
                BY <1>2, <3>3
            <4>3. f[k] \in Seq(S)
                BY <4>1, <4>2, ConcatProperties
            <4> QED BY <3>1, <4>3
        <3> QED BY <3>2, <3>3
    <2> HIDE DEF P
    <2> QED BY <2>1, <2>2, UpTo
<1>4. n \in P /\ n # 0
    <2>1. n \in 0..n /\ n # 0
        BY <1>n
    <2> QED BY <1>3, <2>1
<1> QED BY <1>1, <1>4

LEMMA FlattenGrows ==
    ASSUME NEW S, NEW seqs \in Seq(Seq(S)), NEW e \in Seq(S)
    PROVE  FlattenSeq(Append(seqs, e)) = FlattenSeq(seqs) \o e
<1> DEFINE n == Len(seqs)
           more == Append(seqs, e)
<1>n. n \in Nat
    OBVIOUS
<1>0. more \in Seq(Seq(S)) /\ Len(more) = n + 1 /\ more[n + 1] = e
    OBVIOUS
<1>m. \A i \in 1..n : more[i] = seqs[i]
    OBVIOUS
<1> HIDE DEF more, n
<1>1. PICK h : Flat(more, h) /\ FlattenSeq(more) = h[n + 1]
    <2>1. Len(more) # 0 /\ Len(more) = n + 1
        BY <1>n, <1>0
    <2>2. \E h : Flat(more, h) /\ FlattenSeq(more) = h[Len(more)]
        BY <1>0, <2>1, FlattenIs
    <2> QED BY <2>1, <2>2
<1>2. \A i \in 1..(n + 1) : h[i] = IF i = 1 THEN more[i] ELSE h[i - 1] \o more[i]
    BY <1>0, <1>1 DEF Flat
<1>3. CASE n = 0
    <2>1. FlattenSeq(seqs) = <<>>
        <3>1. Len(seqs) = 0
            BY <1>3 DEF n
        <3> QED BY <3>1 DEF FlattenSeq
    <2>2. h[n + 1] = e
        BY <1>0, <1>2, <1>3
    <2>3. <<>> \o e = e
        BY ConcatEmptySeq
    <2> QED BY <1>1, <2>1, <2>2, <2>3 DEF more
<1>4. CASE n # 0
    <2>1. PICK f : Flat(seqs, f) /\ FlattenSeq(seqs) = f[n]
        BY <1>4, FlattenIs DEF n
    <2>2. \A i \in 1..n : f[i] = IF i = 1 THEN seqs[i] ELSE f[i - 1] \o seqs[i]
        BY <2>1 DEF Flat, n
    <2> DEFINE P == {k \in 0..n : k # 0 => f[k] = h[k]}
    <2>3. \A k \in 0..n : k \in P
        <3>1. 0 \in P
            BY <1>n
        <3>2. ASSUME NEW k \in 1..n, k - 1 \in P PROVE k \in P
            <4>0. k \in 0..n /\ k \in 1..(n + 1)
                BY <1>n
            <4>1. k \in 0..n /\ k \in 1..(n + 1) /\ more[k] = seqs[k]
                BY <1>m, <4>0
            <4>2. CASE k = 1
                BY <1>2, <2>2, <4>1, <4>2
            <4>3. CASE k # 1
                <5>1. f[k - 1] = h[k - 1]
                    BY <3>2, <4>3
                <5>2. f[k] = f[k - 1] \o seqs[k] /\ h[k] = h[k - 1] \o more[k]
                    BY <1>2, <2>2, <4>1, <4>3
                <5> QED BY <4>1, <5>1, <5>2
            <4> QED BY <4>2, <4>3
        <3> HIDE DEF P
        <3> QED BY <1>n, <3>1, <3>2, UpTo
    <2>4. f[n] = h[n]
        <3>1. n \in 0..n
            BY <1>n
        <3>2. n \in P
            BY <2>3, <3>1
        <3> QED BY <1>4, <3>2
    <2>5. h[n + 1] = h[n] \o more[n + 1]
        <3>1. n + 1 \in 1..(n + 1) /\ n + 1 # 1 /\ (n + 1) - 1 = n
            BY <1>n, <1>4
        <3> QED BY <1>2, <3>1
    <2> QED BY <1>0, <1>1, <2>1, <2>4, <2>5 DEF more
<1> QED BY <1>3, <1>4

Stream(x) == FlattenSeq([i \in DOMAIN x |-> Tokens(x[i])])

LEMMA TokensAre ==
    ASSUME NEW line
    PROVE  /\ Tokens(line) \in Seq(GuardTokens)
           /\ \/ Tokens(line) = <<>>
              \/ \E a \in GuardTokens : Tokens(line) = <<a>>
              \/ \E a, b \in GuardTokens : Tokens(line) = <<a, b>>
              \/ \E a, b, c \in GuardTokens : Tokens(line) = <<a, b, c>>
<1>1. \/ Tokens(line) = <<>>
      \/ \E a \in GuardTokens : Tokens(line) = <<a>>
      \/ \E a, b \in GuardTokens : Tokens(line) = <<a, b>>
      \/ \E a, b, c \in GuardTokens : Tokens(line) = <<a, b, c>>
    <2>1. Tokens(line) \in {<<>>, <<"open">>, <<"close">>, <<"close", "open">>, <<"transaction">>,
                            <<"transaction", "open">>, <<"return">>, <<"open", "return", "close">>}
        BY DEF Tokens
    <2> QED BY <2>1 DEF GuardTokens
<1>2. /\ <<>> \in Seq(GuardTokens)
      /\ \A a, b, c \in GuardTokens : /\ <<a>> \in Seq(GuardTokens)
                                      /\ <<a, b>> \in Seq(GuardTokens)
                                      /\ <<a, b, c>> \in Seq(GuardTokens)
    OBVIOUS
<1> QED BY <1>1, <1>2

LEMMA StreamGrows ==
    ASSUME NEW x \in Seq(Lines), NEW line \in Lines
    PROVE  Stream(Append(x, line)) = Stream(x) \o Tokens(line)
<1> DEFINE seqs == [i \in DOMAIN x |-> Tokens(x[i])]
           more == [i \in DOMAIN Append(x, line) |-> Tokens(Append(x, line)[i])]
<1>1. seqs \in Seq(Seq(GuardTokens)) /\ Len(seqs) = Len(x)
    BY TokensAre
<1>2. Tokens(line) \in Seq(GuardTokens)
    BY TokensAre
<1>3. more = Append(seqs, Tokens(line))
    <2>1. /\ DOMAIN more = 1..(Len(x) + 1)
          /\ DOMAIN Append(seqs, Tokens(line)) = 1..(Len(x) + 1)
        BY <1>1
    <2>2. \A i \in 1..(Len(x) + 1) : more[i] = Append(seqs, Tokens(line))[i]
        OBVIOUS
    <2> QED BY <2>1, <2>2
<1> HIDE DEF seqs, more
<1>4. FlattenSeq(more) = FlattenSeq(seqs) \o Tokens(line)
    BY <1>1, <1>2, <1>3, FlattenGrows
<1> QED BY <1>4 DEF Stream, seqs, more

-----------------------------------------------------------------------------
(* What guard_transaction does with a token.                               *)
Guarding(p, q) ==
    /\ q \in ParserState /\ KeepsPlace(p, q) /\ KeepsDeclared(p, q) /\ KeepsTypes(p, q)
    /\ ~q.failed => ~p.failed

GuardEffect(p, q, token) ==
    \/ /\ token = "open" /\ q.depth = p.depth + 1 /\ ~q.txArmed
       /\ q.txDepths = IF p.txArmed THEN Append(p.txDepths, p.depth + 1) ELSE p.txDepths
    \/ /\ token = "close" /\ q.depth = (IF p.depth > 0 THEN p.depth - 1 ELSE 0)
       /\ q.txArmed = p.txArmed
       /\ q.txDepths = IF p.txDepths # <<>> /\ p.txDepths[Len(p.txDepths)] = p.depth
                       THEN Front(p.txDepths) ELSE p.txDepths
    \/ token = "transaction" /\ q.txArmed /\ q.depth = p.depth /\ q.txDepths = p.txDepths
    \/ token = "return" /\ p.txDepths = <<>> /\ KeepsGuard(p, q)

LEMMA GuardingSteps ==
    ASSUME NEW p, NEW q, NEW r, Guarding(p, q), Guarding(q, r)
    PROVE  Guarding(p, r)
BY DEF Guarding, KeepsPlace, KeepsDeclared, KeepsTypes, KeepsNotes, KeepsRoutes, KeepsServices,
       KeepsTasks, KeepsPending

LEMMA GuardingSelf ==
    ASSUME NEW p \in ParserState
    PROVE  Guarding(p, p)
BY DEF Guarding, KeepsPlace, KeepsDeclared, KeepsTypes, KeepsNotes, KeepsRoutes, KeepsServices,
       KeepsTasks, KeepsPending

LEMMA FrontIs ==
    ASSUME NEW S, NEW s \in Seq(S), s # <<>>
    PROVE  /\ Front(s) \in Seq(S) /\ Len(Front(s)) = Len(s) - 1
           /\ \A i \in 1..(Len(s) - 1) : Front(s)[i] = s[i]
<1>1. Len(s) \in Nat \ {0}
    BY EmptySeq
<1>2. Front(s) = [i \in 1..(Len(s) - 1) |-> s[i]]
    BY <1>1 DEF Front
<1> QED BY <1>1, <1>2

LEMMA OpenBraceIs ==
    ASSUME NEW p \in ParserState
    PROVE  LET q == OpenBrace(p)
           IN  Guarding(p, q) /\ (~q.failed => GuardEffect(p, q, "open"))
<1> DEFINE q == OpenBrace(p)
           full == Len(p.txDepths) >= MaxTransactions
           depth == p.depth + 1
           bad == p.failed \/ (p.txArmed /\ full)
           depths == IF p.txArmed /\ ~full THEN Append(p.txDepths, p.depth + 1)
                                           ELSE p.txDepths
<1>1. q = [p EXCEPT !.depth = depth, !.failed = bad, !.txDepths = depths, !.txArmed = FALSE]
    BY DEF OpenBrace
<1>2. depth \in Nat /\ bad \in BOOLEAN /\ depths \in Seq(Nat \ {0})
    <2>1. p.depth \in Nat /\ p.txDepths \in Seq(Nat \ {0})
        BY DEF ParserState
    <2>2. p.depth + 1 \in Nat \ {0}
        BY <2>1
    <2>3. Append(p.txDepths, p.depth + 1) \in Seq(Nat \ {0})
        BY <2>1, <2>2, AppendIs
    <2>4. bad \in BOOLEAN
        BY BooleanFields
    <2> QED BY <2>1, <2>2, <2>3, <2>4
<1>3. ~bad => /\ ~p.failed /\ depth = p.depth + 1
              /\ depths = IF p.txArmed THEN Append(p.txDepths, p.depth + 1) ELSE p.txDepths
    OBVIOUS
<1>3a. bad \/ ~bad
    OBVIOUS
<1> HIDE DEF bad, depths, depth
<1>4. q \in ParserState
    <2> DEFINE q1 == [p EXCEPT !.depth = depth, !.failed = bad]
    <2>1. q1 \in ParserState
        BY <1>2, ZenonT(60) DEF ParserState
    <2>2. q = [q1 EXCEPT !.txDepths = depths, !.txArmed = FALSE]
        BY <1>1
    <2> HIDE DEF q1, q
    <2> QED BY <1>2, <2>1, <2>2, ZenonT(60) DEF ParserState
<1> HIDE DEF q
<1>5. /\ KeepsPlace(p, q) /\ KeepsDeclared(p, q) /\ KeepsTypes(p, q)
      /\ q.failed = bad /\ q.depth = depth /\ ~q.txArmed /\ q.txDepths = depths
    BY <1>1 DEF ParserState, KeepsPlace, KeepsDeclared, KeepsTypes, KeepsNotes, KeepsRoutes,
                KeepsServices, KeepsTasks, KeepsPending
<1>6. Guarding(p, q)
    BY <1>3, <1>4, <1>5 DEF Guarding
<1>7. ~q.failed => GuardEffect(p, q, "open")
    BY <1>3, <1>5 DEF GuardEffect
<1> QED BY <1>6, <1>7 DEF q

LEMMA CloseBraceIs ==
    ASSUME NEW p \in ParserState
    PROVE  LET q == CloseBrace(p)
           IN  Guarding(p, q) /\ GuardEffect(p, q, "close")
<1> DEFINE q == CloseBrace(p)
           depth == IF p.depth > 0 THEN p.depth - 1 ELSE 0
           ends == p.txDepths # <<>> /\ p.txDepths[Len(p.txDepths)] = p.depth
           depths == IF ends THEN Front(p.txDepths) ELSE p.txDepths
<1>1. q = [p EXCEPT !.txDepths = depths, !.depth = depth]
    BY DEF CloseBrace, EndsTransaction, Last
<1>2. depth \in Nat /\ depths \in Seq(Nat \ {0})
    <2>1. p.depth \in Nat /\ p.txDepths \in Seq(Nat \ {0})
        BY DEF ParserState
    <2>2. ends => Front(p.txDepths) \in Seq(Nat \ {0})
        BY <2>1, FrontIs
    <2>3. depth \in Nat
        BY <2>1
    <2> HIDE DEF depth, ends
    <2> QED BY <2>1, <2>2, <2>3
<1>3. /\ depths = IF p.txDepths # <<>> /\ p.txDepths[Len(p.txDepths)] = p.depth
                  THEN Front(p.txDepths) ELSE p.txDepths
      /\ depth = IF p.depth > 0 THEN p.depth - 1 ELSE 0
    OBVIOUS
<1> HIDE DEF depths, depth
<1>4. q \in ParserState
    BY <1>1, <1>2, ZenonT(60) DEF ParserState
<1> HIDE DEF q
<1>5. /\ KeepsPlace(p, q) /\ KeepsDeclared(p, q) /\ KeepsTypes(p, q)
      /\ q.failed = p.failed /\ q.depth = depth /\ q.txArmed = p.txArmed /\ q.txDepths = depths
    BY <1>1 DEF ParserState, KeepsPlace, KeepsDeclared, KeepsTypes, KeepsNotes, KeepsRoutes,
                KeepsServices, KeepsTasks, KeepsPending
<1>6. Guarding(p, q)
    BY <1>4, <1>5 DEF Guarding
<1>7. GuardEffect(p, q, "close")
    BY <1>3, <1>5 DEF GuardEffect
<1> QED BY <1>6, <1>7 DEF q

LEMMA GuardTokenIs ==
    ASSUME NEW p \in ParserState, NEW token \in GuardTokens
    PROVE  LET q == GuardToken(p, token)
           IN  Guarding(p, q) /\ (~q.failed => GuardEffect(p, q, token))
<1> DEFINE q == GuardToken(p, token)
<1>1. CASE token = "open"
    <2>1. q = OpenBrace(p)
        BY <1>1 DEF GuardToken
    <2> QED BY <1>1, <2>1, OpenBraceIs
<1>2. CASE token = "close"
    <2>1. q = CloseBrace(p)
        BY <1>2 DEF GuardToken
    <2> QED BY <1>2, <2>1, CloseBraceIs
<1>3. CASE token = "transaction"
    <2>1. q = [p EXCEPT !.txArmed = TRUE]
        BY <1>3 DEF GuardToken
    <2>2. q \in ParserState
        BY <2>1, ZenonT(60) DEF ParserState
    <2> HIDE DEF q
    <2>3. /\ KeepsPlace(p, q) /\ KeepsDeclared(p, q) /\ KeepsTypes(p, q)
          /\ q.failed = p.failed /\ q.depth = p.depth /\ q.txArmed /\ q.txDepths = p.txDepths
        BY <2>1 DEF ParserState, KeepsPlace, KeepsDeclared, KeepsTypes, KeepsNotes, KeepsRoutes,
                    KeepsServices, KeepsTasks, KeepsPending
    <2> QED BY <1>3, <2>2, <2>3 DEF Guarding, GuardEffect, q
<1>4. CASE token = "return"
    <2> DEFINE bad == p.failed \/ p.txDepths # <<>>
    <2>1. q = [p EXCEPT !.failed = bad]
        BY <1>4 DEF GuardToken
    <2>2. bad \in BOOLEAN /\ (~bad => ~p.failed /\ p.txDepths = <<>>)
        BY BooleanFields
    <2> HIDE DEF bad
    <2>3. q \in ParserState
        BY <2>1, <2>2, ZenonT(60) DEF ParserState
    <2> HIDE DEF q
    <2>4. /\ KeepsPlace(p, q) /\ KeepsDeclared(p, q) /\ KeepsTypes(p, q)
          /\ q.failed = bad /\ KeepsGuard(p, q)
        BY <2>1 DEF ParserState, KeepsPlace, KeepsDeclared, KeepsTypes, KeepsNotes, KeepsRoutes,
                    KeepsServices, KeepsTasks, KeepsPending, KeepsGuard
    <2> QED BY <1>4, <2>2, <2>3, <2>4 DEF Guarding, GuardEffect, q
<1> QED BY <1>1, <1>2, <1>3, <1>4 DEF GuardTokens

LEMMA GuardUnrolled ==
    ASSUME NEW p, NEW line
    PROVE  LET t == Tokens(line)
               q1 == GuardToken(p, t[1])
               q2 == GuardToken(q1, t[2])
               q3 == GuardToken(q2, t[3])
           IN  /\ Len(t) = 0 => GuardTransaction(p, line) = p
               /\ Len(t) = 1 => GuardTransaction(p, line) = q1
               /\ Len(t) = 2 => GuardTransaction(p, line) = q2
               /\ Len(t) = 3 => GuardTransaction(p, line) = q3
<1> DEFINE t == Tokens(line)
           n == Len(t)
           q1 == GuardToken(p, t[1])
           q2 == GuardToken(q1, t[2])
           q3 == GuardToken(q2, t[3])
           Is(f) == f = [k \in 0..n |-> IF k = 0 THEN p ELSE GuardToken(f[k - 1], t[k])]
           after == CHOOSE f : Is(f)
           w == [k \in 0..n |-> IF k = 0 THEN p ELSE IF k = 1 THEN q1 ELSE IF k = 2 THEN q2 ELSE q3]
           v == [k \in 0..n |-> IF k = 0 THEN p ELSE GuardToken(w[k - 1], t[k])]
<1>1. GuardTransaction(p, line) = after[n]
    BY DEF GuardTransaction
<1> HIDE DEF t
<1>2. ASSUME n \in 0..3 PROVE w = v
    <2>1. \A k \in 0..n : w[k] = v[k]
        <3> HIDE DEF n, q1, q2, q3
        <3> TAKE k \in 0..n
        <3>1. k = 0 \/ (k = 1 /\ k - 1 = 0) \/ (k = 2 /\ k - 1 = 1) \/ (k = 3 /\ k - 1 = 2)
            BY <1>2
        <3>2. k # 0 => k - 1 \in 0..n
            BY <1>2
        <3>3. CASE k = 0
            BY <3>3
        <3>4. CASE k = 1 /\ k - 1 = 0
            BY <3>2, <3>4 DEF q1
        <3>5. CASE k = 2 /\ k - 1 = 1
            BY <3>2, <3>5 DEF q2
        <3>6. CASE k = 3 /\ k - 1 = 2
            BY <3>2, <3>6 DEF q3
        <3> QED BY <3>1, <3>3, <3>4, <3>5, <3>6
    <2>2. w = [k \in 0..n |-> w[k]] /\ v = [k \in 0..n |-> v[k]]
        OBVIOUS
    <2> HIDE DEF w, v
    <2> QED BY <2>1, <2>2
<1>3. ASSUME n \in 0..3 PROVE Is(after)
    <2> HIDE DEF w
    <2>1. Is(w)
        BY <1>2, <1>3
    <2> HIDE DEF Is
    <2> QED BY <2>1
<1>4. ASSUME n \in 0..3
      PROVE  after[0] = p /\ \A k \in 1..n : after[k] = GuardToken(after[k - 1], t[k])
    <2> HIDE DEF after, n
    <2>1. Is(after)
        BY <1>3, <1>4
    <2>2. \A k \in 0..n : after[k] = IF k = 0 THEN p ELSE GuardToken(after[k - 1], t[k])
        BY <2>1
    <2>3. 0 \in 0..n /\ \A k \in 1..n : k \in 0..n /\ k # 0
        BY <1>4
    <2> QED BY <2>2, <2>3
<1> HIDE DEF after, n, q1, q2, q3, Is
<1>5. n = 0 => after[n] = p
    BY <1>4
<1>6. n = 1 => after[n] = q1
    <2> SUFFICES ASSUME n = 1 PROVE after[1] = q1
        OBVIOUS
    <2>1. n \in 0..3 /\ 1 \in 1..n /\ 1 - 1 = 0
        OBVIOUS
    <2> QED BY <1>4, <2>1 DEF q1
<1>7. n = 2 => after[n] = q2
    <2> SUFFICES ASSUME n = 2 PROVE after[2] = q2
        OBVIOUS
    <2>1. n \in 0..3 /\ 1 \in 1..n /\ 1 - 1 = 0 /\ 2 \in 1..n /\ 2 - 1 = 1
        OBVIOUS
    <2>2. after[1] = q1
        BY <1>4, <2>1 DEF q1
    <2> QED BY <1>4, <2>1, <2>2 DEF q2
<1>8. n = 3 => after[n] = q3
    <2> SUFFICES ASSUME n = 3 PROVE after[3] = q3
        OBVIOUS
    <2>1. n \in 0..3 /\ 1 \in 1..n /\ 1 - 1 = 0 /\ 2 \in 1..n /\ 2 - 1 = 1 /\ 3 \in 1..n /\ 3 - 1 = 2
        OBVIOUS
    <2>2. after[1] = q1
        BY <1>4, <2>1 DEF q1
    <2>3. after[2] = q2
        BY <1>4, <2>1, <2>2 DEF q2
    <2> QED BY <1>4, <2>1, <2>3 DEF q3
<1> QED BY <1>1, <1>5, <1>6, <1>7, <1>8 DEF n, q1, q2, q3, t

-----------------------------------------------------------------------------
(* The blocks of a transaction in a stream of tokens.                      *)
Count(s, a, b, token) == Cardinality({i \in a..b : s[i] = token})

Opens(s, r, o) ==
    /\ s[r] = "transaction" /\ s[o] = "open" /\ r < o
    /\ \A i \in (r + 1)..(o - 1) : s[i] # "open"

Within(s, o, q) == \A i \in o..q : Count(s, o, i, "open") > Count(s, o, i, "close")

Escape(s, r, o, q) == s[q] = "return" /\ Opens(s, r, o) /\ o < q /\ Within(s, o, q)

Escapes(s) == \E r, o, q \in 1..Len(s) : Escape(s, r, o, q)

Deep(s, o) == Count(s, o, Len(s), "open") - Count(s, o, Len(s), "close")

(* A $transaction with no brace yet is remembered, and each of its blocks  *)
(* that is still open has its depth on the stack; own is TRUE when the     *)
(* last token is the brace of a type, which the code does not guard.       *)
AwaitsBrace(s, armed) ==
    \A r \in 1..Len(s) :
        s[r] = "transaction" /\ (\A i \in (r + 1)..Len(s) : s[i] # "open") => armed

Remembered(s, e, depths, own) ==
    \A r, o \in 1..Len(s) : Opens(s, r, o) /\ Within(s, o, Len(s)) =>
        \/ own /\ o = Len(s)
        \/ \E i \in 1..Len(depths) : depths[i] = e - Deep(s, o) + 1

Watch(s, e, armed, depths, own) ==
    /\ AwaitsBrace(s, armed) /\ Remembered(s, e, depths, own) /\ ~Escapes(s)

LEMMA CountNat ==
    ASSUME NEW s, NEW a \in Nat, NEW b \in Nat, NEW token
    PROVE  Count(s, a, b, token) \in Nat
<1>1. {i \in a..b : s[i] = token} \subseteq a..b
    OBVIOUS
<1> DEFINE M == {i \in a..b : s[i] = token}
<1>2. IsFiniteSet(a..b)
    BY FS_Interval
<1> HIDE DEF M
<1>3. IsFiniteSet(M)
    BY <1>1, <1>2, FS_Subset DEF M
<1>4. Cardinality(M) \in Nat
    BY <1>3, FS_CardinalityType
<1> QED BY <1>4 DEF Count, M

LEMMA CountNone ==
    ASSUME NEW s, NEW a \in Nat, NEW b \in Nat, NEW token, a > b
    PROVE  Count(s, a, b, token) = 0
<1>1. {i \in a..b : s[i] = token} = {}
    OBVIOUS
<1> QED BY <1>1, FS_EmptySet DEF Count

LEMMA CountNext ==
    ASSUME NEW s, NEW a \in Nat, NEW b \in Nat, NEW token, a <= b + 1
    PROVE  Count(s, a, b + 1, token) =
               Count(s, a, b, token) + (IF s[b + 1] = token THEN 1 ELSE 0)
<1> DEFINE M(n) == {i \in a..n : s[i] = token}
<1>1. IsFiniteSet(M(b))
    <2>1. IsFiniteSet(a..b) /\ M(b) \subseteq a..b
        BY FS_Interval
    <2> QED BY <2>1, FS_Subset
<1>2. Cardinality(M(b)) \in Nat
    BY <1>1, FS_CardinalityType
<1>4. ASSUME s[b + 1] = token
      PROVE  Cardinality(M(b + 1)) = Cardinality(M(b)) + 1
    <2>1. M(b + 1) = M(b) \union {b + 1} /\ b + 1 \notin M(b)
        BY <1>4
    <2> HIDE DEF M
    <2> QED BY <1>1, <2>1, FS_AddElement
<1>5. ASSUME s[b + 1] # token
      PROVE  Cardinality(M(b + 1)) = Cardinality(M(b)) + 0
    <2>1. M(b + 1) = M(b)
        BY <1>5
    <2> HIDE DEF M
    <2> QED BY <1>2, <2>1
<1> HIDE DEF M
<1>6. Cardinality(M(b + 1)) = Cardinality(M(b)) + (IF s[b + 1] = token THEN 1 ELSE 0)
    BY <1>4, <1>5
<1> QED BY <1>6 DEF Count, M

SameUpTo(s, t, m) == \A i \in 1..m : t[i] = s[i]

LEMMA CountPrefix ==
    ASSUME NEW s, NEW t, NEW m \in Nat, SameUpTo(s, t, m),
           NEW a \in 1..m, NEW b \in 1..m, NEW token
    PROVE  Count(t, a, b, token) = Count(s, a, b, token)
<1>1. {i \in a..b : s[i] = token} = {i \in a..b : t[i] = token}
    BY DEF SameUpTo
<1> QED BY <1>1 DEF Count

LEMMA CountMore ==
    ASSUME NEW s, NEW t, NEW m \in Nat, SameUpTo(s, t, m),
           NEW a \in 1..m, NEW token
    PROVE  /\ Count(s, a, m, token) \in Nat /\ Count(t, a, m + 1, token) \in Nat
           /\ Count(t, a, m + 1, token) =
                  Count(s, a, m, token) + (IF t[m + 1] = token THEN 1 ELSE 0)
<1>1. a \in Nat /\ a <= m + 1 /\ m \in 1..m /\ m + 1 \in Nat
    OBVIOUS
<1>2. Count(t, a, m, token) = Count(s, a, m, token)
    BY <1>1, CountPrefix
<1>3. Count(t, a, m + 1, token) =
          Count(t, a, m, token) + (IF t[m + 1] = token THEN 1 ELSE 0)
    BY <1>1, CountNext
<1>4. Count(s, a, m, token) \in Nat /\ Count(t, a, m + 1, token) \in Nat
    BY <1>1, CountNat
<1> QED BY <1>2, <1>3, <1>4

LEMMA CountLast ==
    ASSUME NEW t, NEW m \in Nat, NEW token
    PROVE  Count(t, m + 1, m + 1, token) = IF t[m + 1] = token THEN 1 ELSE 0
<1>1. m + 1 \in Nat /\ m + 1 > m /\ m + 1 <= m + 1
    OBVIOUS
<1>2. Count(t, m + 1, m, token) = 0
    BY <1>1, CountNone
<1>3. Count(t, m + 1, m + 1, token) =
          Count(t, m + 1, m, token) + (IF t[m + 1] = token THEN 1 ELSE 0)
    BY <1>1, CountNext
<1> QED BY <1>2, <1>3

(* What one more token changes.                                            *)
Grown(s, token, m, t) == m = Len(s) /\ t = Append(s, token)

TokenGrowth(s, token, m, t) ==
           /\ t \in Seq(GuardTokens) /\ Len(t) = m + 1 /\ t[m + 1] = token
           /\ \A i \in 1..m : t[i] = s[i]
           /\ \A r, o \in 1..m : Opens(t, r, o) <=> Opens(s, r, o)
           /\ \A o, q \in 1..m : Within(t, o, q) <=> Within(s, o, q)
           /\ \A o \in 1..m : Deep(s, o) \in Int
           /\ \A o \in 1..m : Deep(t, o) = Deep(s, o) + (IF token = "open" THEN 1 ELSE 0)
                                                      - (IF token = "close" THEN 1 ELSE 0)
           /\ \A o \in 1..m : Within(t, o, m + 1) <=> Within(s, o, m) /\ Deep(t, o) > 0
           /\ Within(t, m + 1, m + 1) => token = "open"
           /\ token = "open" => Deep(t, m + 1) = 1

LEMMA TokenGrows ==
    ASSUME NEW s \in Seq(GuardTokens), NEW token \in GuardTokens,
           NEW m \in Nat, NEW t, Grown(s, token, m, t)
    PROVE  TokenGrowth(s, token, m, t)
<1>0. Len(s) = m
    BY DEF Grown
<1>1. t \in Seq(GuardTokens) /\ Len(t) = m + 1 /\ t[m + 1] = token
    BY DEF Grown
<1>2. \A i \in 1..m : t[i] = s[i]
    BY DEF Grown
<1>2a. SameUpTo(s, t, m)
    BY <1>2 DEF SameUpTo
<1>3. \A r, o \in 1..m : Opens(t, r, o) <=> Opens(s, r, o)
    BY <1>2 DEF Opens
<1>4. \A x : \A a, b \in 1..m : Count(t, a, b, x) = Count(s, a, b, x)
    BY <1>2a, CountPrefix
<1>5. \A o, q \in 1..m : Within(t, o, q) <=> Within(s, o, q)
    <2> TAKE o, q \in 1..m
    <2>1. \A i \in o..q : i \in 1..m
        OBVIOUS
    <2> QED BY <1>4, <2>1 DEF Within
<1>6. ASSUME NEW o \in 1..m, NEW x
      PROVE  /\ Count(s, o, m, x) \in Nat /\ Count(t, o, m + 1, x) \in Nat
             /\ Count(t, o, m + 1, x) = Count(s, o, m, x) + (IF token = x THEN 1 ELSE 0)
    <2>1. Count(t, o, m + 1, x) = Count(s, o, m, x) + (IF t[m + 1] = x THEN 1 ELSE 0)
        BY <1>2a, CountMore
    <2>2. Count(s, o, m, x) \in Nat /\ Count(t, o, m + 1, x) \in Nat
        BY <1>2a, CountMore
    <2> QED BY <1>1, <2>1, <2>2
<1>7. \A o \in 1..m : Deep(s, o) \in Int
    BY <1>0, <1>6 DEF Deep
<1>8. \A o \in 1..m : Deep(t, o) = Deep(s, o) + (IF token = "open" THEN 1 ELSE 0)
                                             - (IF token = "close" THEN 1 ELSE 0)
    <2> TAKE o \in 1..m
    <2> HIDE <1>1
    <2>1. Count(t, o, m + 1, "open") = Count(s, o, m, "open") + (IF token = "open" THEN 1 ELSE 0)
        BY <1>6
    <2>2. Count(t, o, m + 1, "close") = Count(s, o, m, "close") + (IF token = "close" THEN 1 ELSE 0)
        BY <1>6
    <2>3. Count(s, o, m, "open") \in Nat /\ Count(s, o, m, "close") \in Nat
        BY <1>6
    <2>4. /\ Deep(t, o) = Count(t, o, m + 1, "open") - Count(t, o, m + 1, "close")
          /\ Deep(s, o) = Count(s, o, m, "open") - Count(s, o, m, "close")
        BY <1>0, <1>1 DEF Deep
    <2> QED BY <2>1, <2>2, <2>3, <2>4
<1>9. \A o \in 1..m : Within(t, o, m + 1) <=> Within(s, o, m) /\ Deep(t, o) > 0
    <2> TAKE o \in 1..m
    <2>1. o..(m + 1) = (o..m) \union {m + 1} /\ m \in 1..m
        OBVIOUS
    <2>2. Within(t, o, m) <=> Within(s, o, m)
        BY <1>5, <2>1
    <2>3. /\ Count(t, o, m + 1, "open") \in Nat /\ Count(t, o, m + 1, "close") \in Nat
        BY <1>6
    <2>4. Deep(t, o) > 0 <=> Count(t, o, m + 1, "open") > Count(t, o, m + 1, "close")
        BY <1>1, <2>3 DEF Deep
    <2>5. Within(t, o, m + 1) <=> Within(t, o, m) /\ Deep(t, o) > 0
        BY <2>1, <2>4 DEF Within
    <2> QED BY <2>2, <2>5
<1>10. \A x : Count(t, m + 1, m + 1, x) = IF token = x THEN 1 ELSE 0
    <2> TAKE x
    <2>1. Count(t, m + 1, m + 1, x) = IF t[m + 1] = x THEN 1 ELSE 0
        BY CountLast
    <2> QED BY <1>1, <2>1
<1>11. Within(t, m + 1, m + 1) => token = "open"
    <2>1. m + 1 \in (m + 1)..(m + 1)
        OBVIOUS
    <2>2. Count(t, m + 1, m + 1, "open") = (IF token = "open" THEN 1 ELSE 0)
        BY <1>10
    <2>3. Count(t, m + 1, m + 1, "close") = (IF token = "close" THEN 1 ELSE 0)
        BY <1>10
    <2> QED BY <2>1, <2>2, <2>3 DEF Within
<1>12. token = "open" => Deep(t, m + 1) = 1
    <2>1. Count(t, m + 1, m + 1, "open") = (IF token = "open" THEN 1 ELSE 0)
        BY <1>10
    <2>2. Count(t, m + 1, m + 1, "close") = (IF token = "close" THEN 1 ELSE 0)
        BY <1>10
    <2> QED BY <1>1, <2>1, <2>2 DEF Deep
<1> QED BY <1>1, <1>2, <1>3, <1>5, <1>7, <1>8, <1>9, <1>11, <1>12, Zenon DEF TokenGrowth

LEMMA AwaitsNext ==
    ASSUME NEW s \in Seq(GuardTokens), NEW token \in GuardTokens, NEW armed \in BOOLEAN,
           AwaitsBrace(s, armed)
    PROVE  /\ token \in {"close", "return"} => AwaitsBrace(Append(s, token), armed)
           /\ AwaitsBrace(Append(s, token), TRUE)
           /\ token = "open" => AwaitsBrace(Append(s, token), FALSE)
                                /\ AwaitsBrace(Append(s, token), armed)
<1> DEFINE m == Len(s)
           t == Append(s, token)
<1>1. m \in Nat /\ Len(t) = m + 1 /\ t[m + 1] = token /\ \A i \in 1..m : t[i] = s[i]
    OBVIOUS
<1>2. ASSUME token \in {"close", "return"} PROVE AwaitsBrace(t, armed)
    <2>1. SUFFICES ASSUME NEW r \in 1..(m + 1), t[r] = "transaction",
                          \A i \in (r + 1)..(m + 1) : t[i] # "open"
                   PROVE  armed
        BY <1>1 DEF AwaitsBrace
    <2> HIDE DEF t, m
    <2>2. r \in 1..m
        BY <1>1, <1>2, <2>1
    <2>3. \A i \in (r + 1)..m : s[i] # "open"
        BY <1>1, <2>1, <2>2
    <2>4. s[r] = "transaction"
        BY <1>1, <2>1, <2>2
    <2> QED BY <2>2, <2>3, <2>4 DEF AwaitsBrace, m
<1>3. AwaitsBrace(t, TRUE)
    BY DEF AwaitsBrace
<1>4. ASSUME token = "open", NEW any PROVE AwaitsBrace(t, any)
    <2>1. SUFFICES ASSUME NEW r \in 1..(m + 1), t[r] = "transaction",
                          \A i \in (r + 1)..(m + 1) : t[i] # "open"
                   PROVE  FALSE
        BY <1>1 DEF AwaitsBrace
    <2> HIDE DEF t, m
    <2>2. r # m + 1
        BY <1>1, <1>4, <2>1
    <2>3. m + 1 \in (r + 1)..(m + 1)
        BY <1>1, <2>2
    <2> QED BY <1>1, <1>4, <2>1, <2>3
<1> QED BY <1>2, <1>3, <1>4

(* An escape in the longer stream is an old one, or the token is a return  *)
(* in a block that is still open.                                          *)
LEMMA EscapesNext ==
    ASSUME NEW s \in Seq(GuardTokens), NEW token \in GuardTokens, ~Escapes(s),
           token = "return" => \A r, o \in 1..Len(s) : ~(Opens(s, r, o) /\ Within(s, o, Len(s)))
    PROVE  ~Escapes(Append(s, token))
<1> DEFINE t == Append(s, token)
<1>0. PICK m \in Nat : m = Len(s)
    OBVIOUS
<1>1. SUFFICES ASSUME NEW r \in 1..(m + 1), NEW o \in 1..(m + 1), NEW q \in 1..(m + 1),
                      t[q] = "return", Opens(t, r, o), o < q, Within(t, o, q)
               PROVE  FALSE
    BY <1>0 DEF Escapes, Escape
<1>2. /\ t[m + 1] = token
      /\ \A i \in 1..m : t[i] = s[i]
      /\ \A a, b \in 1..m : Opens(t, a, b) <=> Opens(s, a, b)
      /\ \A a, b \in 1..m : Within(t, a, b) <=> Within(s, a, b)
      /\ \A a \in 1..m : Within(t, a, m + 1) <=> Within(s, a, m) /\ Deep(t, a) > 0
    <2>1. TokenGrowth(s, token, m, t)
        <3>1. Grown(s, token, m, t)
            BY <1>0 DEF Grown
        <3> HIDE DEF t
        <3> QED BY <3>1, TokenGrows
    <2> HIDE DEF t
    <2> QED BY <2>1 DEF TokenGrowth
<1> HIDE DEF t
<1>3. o \in 1..m /\ r \in 1..m
    BY <1>1 DEF Opens
<1>4. Opens(s, r, o)
    BY <1>1, <1>2, <1>3
<1>5. CASE q \in 1..m
    <2>1. s[q] = "return" /\ Within(s, o, q)
        BY <1>1, <1>2, <1>3, <1>5
    <2>2. Escape(s, r, o, q)
        BY <1>1, <1>4, <2>1 DEF Escape
    <2> QED BY <1>0, <1>3, <1>5, <2>2 DEF Escapes
<1>6. CASE q = m + 1
    <2>1. Within(s, o, m) /\ token = "return"
        BY <1>1, <1>2, <1>3, <1>6
    <2> QED BY <1>0, <1>3, <1>4, <2>1
<1> QED BY <1>5, <1>6

(* A block of the longer stream is a block of the shorter one, except the  *)
(* block that the last token opens.                                        *)
LEMMA OldBlock ==
    ASSUME NEW s \in Seq(GuardTokens), NEW token \in GuardTokens,
           NEW m \in Nat, NEW t, Grown(s, token, m, t),
           NEW r \in 1..(m + 1), NEW o \in 1..(m + 1), Opens(t, r, o), Within(t, o, m + 1)
    PROVE  \/ /\ r \in 1..m /\ o \in 1..m /\ Opens(s, r, o) /\ Within(s, o, m)
              /\ Deep(s, o) \in Int /\ Deep(t, o) > 0
              /\ Deep(t, o) = Deep(s, o) + (IF token = "open" THEN 1 ELSE 0)
                                         - (IF token = "close" THEN 1 ELSE 0)
           \/ o = m + 1 /\ r \in 1..m /\ token = "open" /\ Deep(t, o) = 1
<1>1. TokenGrowth(s, token, m, t)
    BY TokenGrows
<1>2. r < o
    BY DEF Opens
<1>3. CASE o = m + 1
    <2>1. token = "open" /\ Deep(t, o) = 1
        BY <1>1, <1>3 DEF TokenGrowth
    <2>2. r \in 1..m
        BY <1>2, <1>3
    <2> QED BY <1>3, <2>1, <2>2
<1>4. CASE o # m + 1
    <2>1. o \in 1..m /\ r \in 1..m
        BY <1>2, <1>4
    <2>2. Opens(s, r, o) /\ Within(s, o, m) /\ Deep(t, o) > 0 /\ Deep(s, o) \in Int
        BY <1>1, <2>1 DEF TokenGrowth
    <2>3. Deep(t, o) = Deep(s, o) + (IF token = "open" THEN 1 ELSE 0)
                                  - (IF token = "close" THEN 1 ELSE 0)
        BY <1>1, <2>1 DEF TokenGrowth
    <2> QED BY <2>1, <2>2, <2>3
<1> QED BY <1>3, <1>4

LEMMA RememberOpen ==
    ASSUME NEW s \in Seq(GuardTokens), NEW m \in Nat, NEW t, Grown(s, "open", m, t),
           NEW e \in Nat, NEW armed \in BOOLEAN, NEW depths \in Seq(Nat \ {0}),
           AwaitsBrace(s, armed), Remembered(s, e, depths, FALSE)
    PROVE  Remembered(t, e + 1, IF armed THEN Append(depths, e + 1) ELSE depths, FALSE)
<1> DEFINE ds == IF armed THEN Append(depths, e + 1) ELSE depths
<1>0. "open" \in GuardTokens
    BY DEF GuardTokens
<1>1. m = Len(s) /\ Len(t) = m + 1 /\ \A i \in 1..m : t[i] = s[i]
    BY DEF Grown
<1>2. SUFFICES ASSUME NEW r \in 1..(m + 1), NEW o \in 1..(m + 1), Opens(t, r, o),
                      Within(t, o, m + 1)
               PROVE  \E i \in 1..Len(ds) : ds[i] = (e + 1) - Deep(t, o) + 1
    BY <1>1 DEF Remembered
<1>3. CASE /\ r \in 1..m /\ o \in 1..m /\ Opens(s, r, o) /\ Within(s, o, m)
           /\ Deep(s, o) \in Int /\ Deep(t, o) = Deep(s, o) + 1
    <2>1. PICK i \in 1..Len(depths) : depths[i] = e - Deep(s, o) + 1
        BY <1>1, <1>3 DEF Remembered
    <2>2. e - Deep(s, o) + 1 = (e + 1) - Deep(t, o) + 1
        BY <1>3
    <2>3. i \in 1..Len(ds) /\ ds[i] = depths[i]
        OBVIOUS
    <2> QED BY <2>1, <2>2, <2>3
<1>4. CASE o = m + 1 /\ r \in 1..m /\ Deep(t, o) = 1
    <2>1. s[r] = "transaction" /\ \A i \in (r + 1)..m : s[i] # "open"
        <3>1. \A i \in (r + 1)..m : i \in (r + 1)..(o - 1) /\ i \in 1..m
            BY <1>4
        <3> QED BY <1>1, <1>2, <1>4, <3>1 DEF Opens
    <2>2. armed
        BY <1>1, <1>4, <2>1 DEF AwaitsBrace
    <2>3. Len(ds) = Len(depths) + 1 /\ ds[Len(depths) + 1] = e + 1
          /\ Len(depths) + 1 \in 1..Len(ds)
        BY <2>2
    <2>4. (e + 1) - Deep(t, o) + 1 = e + 1
        BY <1>4
    <2> HIDE DEF ds
    <2> QED BY <2>3, <2>4
<1>5. \/ /\ r \in 1..m /\ o \in 1..m /\ Opens(s, r, o) /\ Within(s, o, m)
         /\ Deep(s, o) \in Int /\ Deep(t, o) > 0
         /\ Deep(t, o) = Deep(s, o) + 1 - 0
      \/ o = m + 1 /\ r \in 1..m /\ Deep(t, o) = 1
    <2> HIDE DEF ds
    <2> QED BY <1>0, <1>2, OldBlock
<1>6. Deep(s, o) \in Int => Deep(s, o) + 1 - 0 = Deep(s, o) + 1
    OBVIOUS
<1> HIDE DEF ds
<1> QED BY <1>3, <1>4, <1>5, <1>6

LEMMA RememberOwn ==
    ASSUME NEW s \in Seq(GuardTokens), NEW m \in Nat, NEW t, Grown(s, "open", m, t),
           NEW e \in Nat, NEW depths \in Seq(Nat \ {0}), Remembered(s, e, depths, FALSE)
    PROVE  Remembered(t, e + 1, depths, TRUE)
<1>0. "open" \in GuardTokens
    BY DEF GuardTokens
<1>1. m = Len(s) /\ Len(t) = m + 1
    BY DEF Grown
<1>2. SUFFICES ASSUME NEW r \in 1..(m + 1), NEW o \in 1..(m + 1), Opens(t, r, o),
                      Within(t, o, m + 1), o # m + 1
               PROVE  \E i \in 1..Len(depths) : depths[i] = (e + 1) - Deep(t, o) + 1
    BY <1>1 DEF Remembered
<1>3. \/ /\ r \in 1..m /\ o \in 1..m /\ Opens(s, r, o) /\ Within(s, o, m)
         /\ Deep(s, o) \in Int /\ Deep(t, o) > 0
         /\ Deep(t, o) = Deep(s, o) + 1 - 0
      \/ o = m + 1 /\ r \in 1..m /\ Deep(t, o) = 1
    BY <1>0, <1>2, OldBlock
<1>4. PICK i \in 1..Len(depths) : depths[i] = e - Deep(s, o) + 1
    BY <1>1, <1>2, <1>3 DEF Remembered
<1>5. e - Deep(s, o) + 1 = (e + 1) - Deep(t, o) + 1
    BY <1>2, <1>3
<1> QED BY <1>4, <1>5

LEMMA RememberSame ==
    ASSUME NEW s \in Seq(GuardTokens), NEW token \in GuardTokens,
           token \in {"return", "transaction"}, NEW m \in Nat, NEW t, Grown(s, token, m, t),
           NEW e \in Nat, NEW depths \in Seq(Nat \ {0}), Remembered(s, e, depths, FALSE)
    PROVE  Remembered(t, e, depths, FALSE)
<1>1. m = Len(s) /\ Len(t) = m + 1
    BY DEF Grown
<1>2. SUFFICES ASSUME NEW r \in 1..(m + 1), NEW o \in 1..(m + 1), Opens(t, r, o),
                      Within(t, o, m + 1)
               PROVE  \E i \in 1..Len(depths) : depths[i] = e - Deep(t, o) + 1
    BY <1>1 DEF Remembered
<1>3. /\ r \in 1..m /\ o \in 1..m /\ Opens(s, r, o) /\ Within(s, o, m)
      /\ Deep(s, o) \in Int /\ Deep(t, o) = Deep(s, o) + 0 - 0
    <2>1. token # "open" /\ token # "close"
        OBVIOUS
    <2> QED BY <1>2, <2>1, OldBlock
<1>4. PICK i \in 1..Len(depths) : depths[i] = e - Deep(s, o) + 1
    BY <1>1, <1>3 DEF Remembered
<1>5. Deep(t, o) = Deep(s, o)
    BY <1>3
<1> QED BY <1>4, <1>5

LEMMA RememberClose ==
    ASSUME NEW s \in Seq(GuardTokens), NEW m \in Nat, NEW t, Grown(s, "close", m, t),
           NEW e \in Nat, NEW depths \in Seq(Nat \ {0}), Remembered(s, e, depths, FALSE)
    PROVE  Remembered(t, IF e > 0 THEN e - 1 ELSE 0,
                      IF depths # <<>> /\ depths[Len(depths)] = e THEN Front(depths) ELSE depths,
                      FALSE)
<1> DEFINE ends == depths # <<>> /\ depths[Len(depths)] = e
           ds == IF ends THEN Front(depths) ELSE depths
           d == IF e > 0 THEN e - 1 ELSE 0
<1>0. "close" \in GuardTokens
    BY DEF GuardTokens
<1>1. m = Len(s) /\ Len(t) = m + 1
    BY DEF Grown
<1>2. SUFFICES ASSUME NEW r \in 1..(m + 1), NEW o \in 1..(m + 1), Opens(t, r, o),
                      Within(t, o, m + 1)
               PROVE  \E i \in 1..Len(ds) : ds[i] = d - Deep(t, o) + 1
    BY <1>1 DEF Remembered
<1>3. /\ r \in 1..m /\ o \in 1..m /\ Opens(s, r, o) /\ Within(s, o, m)
      /\ Deep(s, o) \in Int /\ Deep(t, o) > 0 /\ Deep(t, o) = Deep(s, o) + 0 - 1
    <2> HIDE DEF ds, d
    <2> QED BY <1>0, <1>2, OldBlock
<1>4. PICK i \in 1..Len(depths) : depths[i] = e - Deep(s, o) + 1
    BY <1>1, <1>3 DEF Remembered
<1>5. depths[i] \in Nat \ {0} /\ depths # <<>>
    BY <1>4
<1>6. e > 0 /\ depths[i] # e /\ d = e - 1
    BY <1>3, <1>4, <1>5, SMTT(30)
<1>7. e - Deep(s, o) + 1 = d - Deep(t, o) + 1
    <2> HIDE DEF d
    <2> QED BY <1>3, <1>6
<1>8. i \in 1..Len(ds) /\ ds[i] = depths[i]
    <2>1. CASE ends
        <3>1. /\ Len(Front(depths)) = Len(depths) - 1
              /\ \A k \in 1..(Len(depths) - 1) : Front(depths)[k] = depths[k]
            BY <1>5, FrontIs
        <3>2. i # Len(depths)
            BY <1>6, <2>1
        <3>3. i \in 1..(Len(depths) - 1)
            BY <3>2
        <3> QED BY <2>1, <3>1, <3>3
    <2>2. CASE ~ends
        BY <2>2
    <2> QED BY <2>1, <2>2
<1> HIDE DEF d, ds
<1> QED BY <1>4, <1>7, <1>8

LEMMA RememberOwnClose ==
    ASSUME NEW s \in Seq(GuardTokens), NEW m \in Nat, NEW t, Grown(s, "close", m, t),
           NEW e \in Nat, NEW depths \in Seq(Nat \ {0}), Remembered(s, e + 1, depths, TRUE)
    PROVE  Remembered(t, e, depths, FALSE)
<1>0. "close" \in GuardTokens
    BY DEF GuardTokens
<1>1. m = Len(s) /\ Len(t) = m + 1
    BY DEF Grown
<1>2. SUFFICES ASSUME NEW r \in 1..(m + 1), NEW o \in 1..(m + 1), Opens(t, r, o),
                      Within(t, o, m + 1)
               PROVE  \E i \in 1..Len(depths) : depths[i] = e - Deep(t, o) + 1
    BY <1>1 DEF Remembered
<1>3. /\ r \in 1..m /\ o \in 1..m /\ Opens(s, r, o) /\ Within(s, o, m)
      /\ Deep(s, o) \in Int /\ Deep(t, o) > 0 /\ Deep(t, o) = Deep(s, o) + 0 - 1
    BY <1>0, <1>2, OldBlock
<1>4. o # m
    <2> SUFFICES ASSUME o = m PROVE FALSE
        OBVIOUS
    <2>1. s[m] = "open"
        BY <1>3 DEF Opens
    <2>2. Count(s, m, m, "open") = 1 /\ Count(s, m, m, "close") = 0
        <3>1. m - 1 \in Nat /\ (m - 1) + 1 = m
            BY <1>3
        <3>2. \A x : Count(s, (m - 1) + 1, (m - 1) + 1, x) = IF s[(m - 1) + 1] = x THEN 1 ELSE 0
            BY <3>1, CountLast
        <3> QED BY <2>1, <3>1, <3>2
    <2>3. Deep(s, m) = 1
        BY <1>1, <2>2 DEF Deep
    <2> QED BY <1>3, <2>3
<1>5. PICK i \in 1..Len(depths) : depths[i] = (e + 1) - Deep(s, o) + 1
    BY <1>1, <1>3, <1>4 DEF Remembered
<1>6. (e + 1) - Deep(s, o) + 1 = e - Deep(t, o) + 1
    BY <1>3
<1> QED BY <1>5, <1>6

(* What one line does to the memory of the blocks.                         *)
GuardWatch(s, p) == Watch(s, p.depth, p.txArmed, p.txDepths, FALSE)

LEMMA GrownIs ==
    ASSUME NEW s \in Seq(GuardTokens), NEW token
    PROVE  \E m \in Nat : Len(s) = m /\ Grown(s, token, m, Append(s, token))
<1>1. Len(s) \in Nat
    OBVIOUS
<1> QED BY <1>1 DEF Grown

LEMMA GuardFields ==
    ASSUME NEW p \in ParserState
    PROVE  p.depth \in Nat /\ p.txArmed \in BOOLEAN /\ p.txDepths \in Seq(Nat \ {0})
BY DEF ParserState

LEMMA TokenWatched ==
    ASSUME NEW p \in ParserState, NEW q, NEW token \in GuardTokens, q.txArmed \in BOOLEAN,
           GuardEffect(p, q, token), NEW s \in Seq(GuardTokens), GuardWatch(s, p)
    PROVE  GuardWatch(Append(s, token), q)
<1> DEFINE t == Append(s, token)
<1>1. PICK m \in Nat : Len(s) = m /\ Grown(s, token, m, t)
    BY GrownIs
<1>2. /\ AwaitsBrace(s, p.txArmed) /\ Remembered(s, p.depth, p.txDepths, FALSE)
      /\ ~Escapes(s)
    BY DEF GuardWatch, Watch
<1>3. p.depth \in Nat /\ p.txArmed \in BOOLEAN /\ p.txDepths \in Seq(Nat \ {0})
    BY GuardFields
<1>4. ~Escapes(t)
    <2>1. ASSUME token = "return", NEW r \in 1..Len(s), NEW o \in 1..Len(s),
                 Opens(s, r, o), Within(s, o, Len(s))
          PROVE  FALSE
        <3>1. PICK i \in 1..Len(p.txDepths) : TRUE
            BY <1>2, <2>1 DEF Remembered
        <3>2. p.txDepths = <<>>
            BY <2>1 DEF GuardEffect
        <3> QED BY <3>1, <3>2
    <2> HIDE DEF t
    <2> QED BY <1>2, <2>1, EscapesNext DEF t
<1> HIDE DEF t
<1>5. CASE token = "open"
    <2>1. /\ q.depth = p.depth + 1 /\ q.txArmed = FALSE
          /\ q.txDepths = IF p.txArmed THEN Append(p.txDepths, p.depth + 1) ELSE p.txDepths
        BY <1>5 DEF GuardEffect
    <2>2. AwaitsBrace(t, FALSE)
        BY <1>2, <1>3, <1>5, AwaitsNext DEF t
    <2>3. Remembered(t, p.depth + 1,
                     IF p.txArmed THEN Append(p.txDepths, p.depth + 1) ELSE p.txDepths, FALSE)
        BY <1>1, <1>2, <1>3, <1>5, RememberOpen
    <2> QED BY <1>4, <2>1, <2>2, <2>3 DEF GuardWatch, Watch, t
<1>6. CASE token = "close"
    <2>1. /\ q.depth = (IF p.depth > 0 THEN p.depth - 1 ELSE 0) /\ q.txArmed = p.txArmed
          /\ q.txDepths = IF p.txDepths # <<>> /\ p.txDepths[Len(p.txDepths)] = p.depth
                          THEN Front(p.txDepths) ELSE p.txDepths
        BY <1>6 DEF GuardEffect
    <2>2. AwaitsBrace(t, p.txArmed)
        BY <1>2, <1>3, <1>6, AwaitsNext DEF t
    <2>3. Remembered(t, IF p.depth > 0 THEN p.depth - 1 ELSE 0,
                     IF p.txDepths # <<>> /\ p.txDepths[Len(p.txDepths)] = p.depth
                     THEN Front(p.txDepths) ELSE p.txDepths, FALSE)
        BY <1>1, <1>2, <1>3, <1>6, RememberClose
    <2> QED BY <1>4, <2>1, <2>2, <2>3 DEF GuardWatch, Watch, t
<1>7. CASE token = "transaction"
    <2>1. q.depth = p.depth /\ q.txArmed = TRUE /\ q.txDepths = p.txDepths
        BY <1>7 DEF GuardEffect
    <2>2. AwaitsBrace(t, TRUE)
        BY <1>2, <1>3, <1>7, AwaitsNext DEF t
    <2>3. Remembered(t, p.depth, p.txDepths, FALSE)
        BY <1>1, <1>2, <1>3, <1>7, RememberSame
    <2> QED BY <1>4, <2>1, <2>2, <2>3 DEF GuardWatch, Watch, t
<1>8. CASE token = "return"
    <2>1. q.depth = p.depth /\ q.txArmed = p.txArmed /\ q.txDepths = p.txDepths
        BY <1>8 DEF GuardEffect, KeepsGuard
    <2>2. AwaitsBrace(t, p.txArmed)
        BY <1>2, <1>3, <1>8, AwaitsNext DEF t
    <2>3. Remembered(t, p.depth, p.txDepths, FALSE)
        BY <1>1, <1>2, <1>3, <1>8, RememberSame
    <2> QED BY <1>4, <2>1, <2>2, <2>3 DEF GuardWatch, Watch, t
<1> QED BY <1>5, <1>6, <1>7, <1>8 DEF GuardTokens

(* From p to g, the tokens u were guarded.                                 *)
GuardedTo(p, g, u) ==
    /\ Guarding(p, g)
    /\ ~g.failed => \A s \in Seq(GuardTokens) : GuardWatch(s, p) => GuardWatch(s \o u, g)

LEMMA GuardedNone ==
    ASSUME NEW p \in ParserState
    PROVE  GuardedTo(p, p, <<>>)
<1>1. \A s \in Seq(GuardTokens) : s \o <<>> = s
    BY ConcatEmptySeq
<1> QED BY <1>1, GuardingSelf DEF GuardedTo

LEMMA GuardedMore ==
    ASSUME NEW p \in ParserState, NEW g, NEW u \in Seq(GuardTokens), GuardedTo(p, g, u),
           NEW token \in GuardTokens
    PROVE  GuardedTo(p, GuardToken(g, token), Append(u, token))
<1> DEFINE h == GuardToken(g, token)
<1>1. g \in ParserState /\ Guarding(p, g)
    BY DEF GuardedTo, Guarding
<1>2. Guarding(g, h) /\ (~h.failed => GuardEffect(g, h, token))
    BY <1>1, GuardTokenIs
<1> HIDE DEF h
<1>3. Guarding(p, h)
    BY <1>1, <1>2, GuardingSteps
<1>4. ASSUME ~h.failed, NEW s \in Seq(GuardTokens), GuardWatch(s, p)
      PROVE  GuardWatch(s \o Append(u, token), h)
    <2>1. ~g.failed /\ h \in ParserState
        BY <1>2, <1>4 DEF Guarding
    <2>2. GuardWatch(s \o u, g)
        BY <1>4, <2>1 DEF GuardedTo
    <2>3. s \o u \in Seq(GuardTokens)
        BY ConcatProperties
    <2>4. h.txArmed \in BOOLEAN
        BY <2>1, GuardFields
    <2>5. GuardWatch(Append(s \o u, token), h)
        BY <1>1, <1>2, <1>4, <2>2, <2>3, <2>4, TokenWatched
    <2>6. s \o Append(u, token) = Append(s \o u, token)
        OBVIOUS
    <2> QED BY <2>5, <2>6
<1> QED BY <1>3, <1>4 DEF GuardedTo, h

LEMMA TwoTokens ==
    ASSUME NEW S, NEW a \in S, NEW b \in S
    PROVE  /\ Append(<<a>>, b) = <<a, b>> /\ <<a, b>> \in Seq(S)
           /\ \A c \in S : Append(<<a, b>>, c) = <<a, b, c>>
<1> DEFINE s == Append(<<a>>, b)
           t == <<a, b>>
<1>1. s \in Seq(S) /\ Len(s) = 2 /\ s[1] = a /\ s[2] = b
    <2>1. <<a>> \in Seq(S) /\ Len(<<a>>) = 1 /\ <<a>>[1] = a
        OBVIOUS
    <2> QED BY <2>1
<1>2. t \in Seq(S) /\ Len(t) = 2 /\ t[1] = a /\ t[2] = b
    OBVIOUS
<1>3. s = t
    <2> HIDE DEF s, t
    <2> QED BY <1>1, <1>2, SeqEqual
<1>4. ASSUME NEW c \in S PROVE Append(t, c) = <<a, b, c>>
    <2> DEFINE v == Append(t, c)
               w == <<a, b, c>>
    <2>1. v \in Seq(S) /\ Len(v) = 3 /\ v[1] = a /\ v[2] = b /\ v[3] = c
        <3> HIDE DEF t
        <3>1. \A s1 \in Seq(S) : /\ Append(s1, c) \in Seq(S)
                                 /\ Len(Append(s1, c)) = Len(s1) + 1
                                 /\ Append(s1, c)[Len(s1) + 1] = c
                                 /\ \A i \in 1..Len(s1) : Append(s1, c)[i] = s1[i]
            OBVIOUS
        <3>2. 1 \in 1..2 /\ 2 \in 1..2 /\ 2 + 1 = 3
            OBVIOUS
        <3>3. /\ v \in Seq(S) /\ Len(v) = 2 + 1 /\ v[2 + 1] = c
              /\ \A i \in 1..2 : v[i] = t[i]
            BY <1>2, <3>1, Zenon
        <3> QED BY <1>2, <3>2, <3>3, Zenon
    <2>2. w \in Seq(S) /\ Len(w) = 3 /\ w[1] = a /\ w[2] = b /\ w[3] = c
        OBVIOUS
    <2> HIDE DEF v, w
    <2>3. \A i \in 1..3 : v[i] = w[i]
        BY <2>1, <2>2
    <2> QED BY <2>1, <2>2, <2>3, SeqEqual DEF v, w
<1> QED BY <1>2, <1>3, <1>4

LEMMA GuardIs ==
    ASSUME NEW p \in ParserState, NEW line
    PROVE  GuardedTo(p, GuardTransaction(p, line), Tokens(line))
<1> DEFINE t == Tokens(line)
           g == GuardTransaction(p, line)
           q1 == GuardToken(p, t[1])
           q2 == GuardToken(q1, t[2])
           q3 == GuardToken(q2, t[3])
<1>0. GuardedTo(p, p, <<>>) /\ <<>> \in Seq(GuardTokens)
    BY GuardedNone
<1>1. /\ Len(t) = 0 => g = p
      /\ Len(t) = 1 => g = q1
      /\ Len(t) = 2 => g = q2
      /\ Len(t) = 3 => g = q3
    BY GuardUnrolled
<1>2. \/ t = <<>>
      \/ \E a \in GuardTokens : t = <<a>>
      \/ \E a, b \in GuardTokens : t = <<a, b>>
      \/ \E a, b, c \in GuardTokens : t = <<a, b, c>>
    BY TokensAre
<1> HIDE DEF t, g
<1>3. CASE t = <<>>
    BY <1>0, <1>1, <1>3 DEF t, g
<1>4. ASSUME NEW a \in GuardTokens, NEW u, t[1] = a
      PROVE  GuardedTo(p, q1, <<a>>) /\ <<a>> \in Seq(GuardTokens)
    <2>1. Append(<<>>, a) = <<a>> /\ <<a>> \in Seq(GuardTokens)
        OBVIOUS
    <2> QED BY <1>0, <1>4, <2>1, GuardedMore
<1>5. ASSUME NEW a \in GuardTokens, NEW b \in GuardTokens, t[1] = a, t[2] = b
      PROVE  GuardedTo(p, q2, <<a, b>>) /\ <<a, b>> \in Seq(GuardTokens)
    <2>1. Append(<<a>>, b) = <<a, b>> /\ <<a, b>> \in Seq(GuardTokens)
        BY TwoTokens
    <2>2. GuardedTo(p, q1, <<a>>) /\ <<a>> \in Seq(GuardTokens)
        BY <1>4, <1>5
    <2> HIDE DEF q1
    <2> QED BY <1>5, <2>1, <2>2, GuardedMore
<1>6. ASSUME NEW a \in GuardTokens, NEW b \in GuardTokens, NEW c \in GuardTokens,
             t[1] = a, t[2] = b, t[3] = c
      PROVE  GuardedTo(p, q3, <<a, b, c>>)
    <2>1. Append(<<a, b>>, c) = <<a, b, c>>
        BY TwoTokens
    <2>2. GuardedTo(p, q2, <<a, b>>) /\ <<a, b>> \in Seq(GuardTokens)
        BY <1>5, <1>6
    <2> HIDE DEF q2
    <2> QED BY <1>6, <2>1, <2>2, GuardedMore
<1> HIDE DEF q1, q2, q3
<1>7. ASSUME NEW a \in GuardTokens, t = <<a>> PROVE GuardedTo(p, g, t)
    <2>1. t[1] = a /\ Len(t) = 1
        BY <1>7
    <2> QED BY <1>1, <1>4, <1>7, <2>1
<1>8. ASSUME NEW a \in GuardTokens, NEW b \in GuardTokens, t = <<a, b>>
      PROVE  GuardedTo(p, g, t)
    <2>1. t[1] = a /\ t[2] = b /\ Len(t) = 2
        BY <1>8
    <2> QED BY <1>1, <1>5, <1>8, <2>1
<1>9. ASSUME NEW a \in GuardTokens, NEW b \in GuardTokens, NEW c \in GuardTokens,
             t = <<a, b, c>>
      PROVE  GuardedTo(p, g, t)
    <2>1. t[1] = a /\ t[2] = b /\ t[3] = c /\ Len(t) = 3
        BY <1>9
    <2> QED BY <1>1, <1>6, <1>9, <2>1
<1> QED BY <1>2, <1>3, <1>7, <1>8, <1>9 DEF t, g

(* What parse_source_line does with a line that is no error.               *)
LineEffect(p, q, line) ==
    /\ q \in ParserState /\ ~p.failed /\ KeepsPlace(p, q)
    /\ \/ p.inStruct /\ KeepsGuard(p, q) /\ KeepsDeclared(p, q) /\ StructEffect(p, q, line)
       \/ /\ ~p.inStruct /\ TopEffect(p, q, line)
          /\ \A s \in Seq(GuardTokens) : GuardWatch(s, p) => GuardWatch(s \o Tokens(line), q)

LEMMA TopEffectFrom ==
    ASSUME NEW p, NEW g, NEW q, NEW line, TopEffect(g, q, line),
           KeepsPlace(p, g), KeepsDeclared(p, g), KeepsTypes(p, g)
    PROVE  TopEffect(p, q, line)
<1>1. /\ g.lineno = p.lineno /\ g.auth = p.auth /\ g.public = p.public /\ g.role = p.role
      /\ g.produces = p.produces /\ g.routes = p.routes /\ g.routeArmed = p.routeArmed
      /\ g.services = p.services /\ g.transactional = p.transactional
      /\ g.tasks = p.tasks /\ g.taskArmed = p.taskArmed
      /\ g.inStruct = p.inStruct /\ g.needOpen = p.needOpen /\ g.types = p.types
      /\ g.pending = p.pending /\ g.rules = p.rules /\ g.references = p.references
    BY DEF KeepsPlace, KeepsDeclared, KeepsTypes, KeepsNotes, KeepsRoutes, KeepsServices,
           KeepsTasks, KeepsPending
<1>2. /\ KeepsNotes(g, q) <=> KeepsNotes(p, q)
      /\ KeepsRoutes(g, q) <=> KeepsRoutes(p, q)
      /\ KeepsServices(g, q) <=> KeepsServices(p, q)
      /\ KeepsTasks(g, q) <=> KeepsTasks(p, q)
      /\ KeepsTypes(g, q) <=> KeepsTypes(p, q)
      /\ Calm(g) <=> Calm(p)
      /\ PendingRoute(g) = PendingRoute(p)
    BY <1>1 DEF KeepsNotes, KeepsRoutes, KeepsServices, KeepsTasks, KeepsTypes, KeepsPending,
                Calm, PendingRoute
<1>3. Noted(g, q, line) => Noted(p, q, line)
    BY <1>1, <1>2 DEF Noted
<1>4. RouteAwaited(g, q, line) => RouteAwaited(p, q, line)
    BY <1>1, <1>2 DEF RouteAwaited
<1>5. RouteTaken(g, q, line) => RouteTaken(p, q, line)
    BY <1>1, <1>2 DEF RouteTaken
<1>6. TaskAwaited(g, q, line) => TaskAwaited(p, q, line)
    BY <1>1, <1>2 DEF TaskAwaited
<1>7. TaskTaken(g, q, line) => TaskTaken(p, q, line)
    BY <1>1, <1>2 DEF TaskTaken
<1>8. ServiceTaken(g, q, line) => ServiceTaken(p, q, line)
    BY <1>1, <1>2 DEF ServiceTaken
<1>9. TypeOpened(g, q, line) => TypeOpened(p, q, line)
    BY <1>1, <1>2 DEF TypeOpened, KeepsDeclared
<1>10. PassedOver(g, q, line) => PassedOver(p, q, line)
    BY <1>1, <1>2 DEF PassedOver, KeepsDeclared
<1> QED BY <1>3, <1>4, <1>5, <1>6, <1>7, <1>8, <1>9, <1>10 DEF TopEffect

LEMMA GuardWatchFrom ==
    ASSUME NEW p, NEW q, KeepsGuard(p, q), NEW s
    PROVE  GuardWatch(s, p) <=> GuardWatch(s, q)
BY DEF KeepsGuard, GuardWatch

LEMMA SourceLineIs ==
    ASSUME NEW p \in ParserState, NEW line \in Lines, p.inStruct => p.types # <<>>,
           ~ParseSourceLine(p, line).failed
    PROVE  LineEffect(p, ParseSourceLine(p, line), line)
<1> DEFINE q == ParseSourceLine(p, line)
           c == CollectFunction(p, line)
           g == GuardTransaction(c, line)
<1>1. CASE p.inStruct
    <2>1. q = ParseStruct(p, line)
        BY <1>1 DEF ParseSourceLine
    <2>2. InType(p, q, line)
        BY <1>1, <2>1, StructIs
    <2> QED BY <1>1, <2>2 DEF InType, LineEffect
<1>2. CASE ~p.inStruct
    <2>1. q = ParseTopLevel(g, line)
        BY <1>2 DEF ParseSourceLine
    <2>2. c \in ParserState /\ (~c.failed => ~p.failed /\ KeepsAll(p, c))
        BY CollectIs
    <2> HIDE DEF c
    <2>3. GuardedTo(c, g, Tokens(line))
        BY <2>2, GuardIs
    <2> HIDE DEF g, q
    <2>4. Guarding(c, g) /\ g \in ParserState
        BY <2>3 DEF GuardedTo, Guarding
    <2>5. Effective(g, q, line)
        BY <2>1, <2>4, TopLevelIs
    <2>6. /\ q \in ParserState /\ ~g.failed /\ KeepsPlace(g, q) /\ KeepsGuard(g, q)
          /\ TopEffect(g, q, line)
        BY <2>5 DEF Effective, q
    <2>7. ~p.failed /\ KeepsAll(p, c)
        BY <2>2, <2>4, <2>6 DEF Guarding
    <2>8. KeepsPlace(p, g) /\ KeepsDeclared(p, g) /\ KeepsTypes(p, g)
        BY <2>4, <2>7 DEF Guarding, KeepsAll, KeepsPlace, KeepsDeclared, KeepsTypes, KeepsNotes,
                KeepsRoutes, KeepsServices, KeepsTasks, KeepsPending
    <2>9. TopEffect(p, q, line)
        BY <2>6, <2>8, TopEffectFrom
    <2>10. KeepsPlace(p, q)
        BY <2>6, <2>8 DEF KeepsPlace
    <2>11. ASSUME NEW s \in Seq(GuardTokens), GuardWatch(s, p)
           PROVE  GuardWatch(s \o Tokens(line), q)
        <3>1. GuardWatch(s, c)
            BY <2>7, <2>11, GuardWatchFrom DEF KeepsAll
        <3>2. GuardWatch(s \o Tokens(line), g)
            BY <2>3, <2>6, <3>1 DEF GuardedTo
        <3> QED BY <2>6, <3>2, GuardWatchFrom
    <2> QED BY <1>2, <2>6, <2>7, <2>9, <2>10, <2>11 DEF LineEffect, q
<1> QED BY <1>1, <1>2, BooleanFields

(* The blocks are remembered at every line, in a type as well.             *)
Guarded(s, p) ==
    IF p.inStruct /\ ~p.needOpen
    THEN Watch(s, p.depth + 1, p.txArmed, p.txDepths, TRUE)
    ELSE GuardWatch(s, p)

LEMMA GuardedFrom ==
    ASSUME NEW p, NEW q, KeepsGuard(p, q), q.inStruct = p.inStruct, q.needOpen = p.needOpen,
           NEW s
    PROVE  Guarded(s, p) => Guarded(s, q)
BY DEF KeepsGuard, GuardWatch, Guarded

LEMMA UnopenedWatched ==
    ASSUME NEW p \in ParserState, NEW q, p.needOpen, q.inStruct, ~q.needOpen, KeepsGuard(p, q),
           NEW s \in Seq(GuardTokens), Guarded(s, p)
    PROVE  Guarded(Append(s, "open"), q)
<1> DEFINE t == Append(s, "open")
<1>0. "open" \in GuardTokens
    BY DEF GuardTokens
<1>1. PICK m \in Nat : Len(s) = m /\ Grown(s, "open", m, t)
    BY GrownIs
<1>2. /\ AwaitsBrace(s, p.txArmed) /\ Remembered(s, p.depth, p.txDepths, FALSE)
      /\ ~Escapes(s)
    BY DEF Guarded, GuardWatch, Watch
<1>3. p.depth \in Nat /\ p.txArmed \in BOOLEAN /\ p.txDepths \in Seq(Nat \ {0})
    BY GuardFields
<1>4. ~Escapes(t)
    BY <1>0, <1>2, EscapesNext
<1>5. AwaitsBrace(t, p.txArmed)
    BY <1>0, <1>2, <1>3, AwaitsNext
<1>6. Remembered(t, p.depth + 1, p.txDepths, TRUE)
    <2> HIDE DEF t
    <2> QED BY <1>1, <1>2, <1>3, RememberOwn
<1> QED BY <1>4, <1>5, <1>6 DEF Guarded, Watch, KeepsGuard

LEMMA ClosedWatched ==
    ASSUME NEW p \in ParserState, NEW q, p.inStruct, ~p.needOpen, ~q.inStruct, KeepsGuard(p, q),
           NEW s \in Seq(GuardTokens), Guarded(s, p)
    PROVE  Guarded(Append(s, "close"), q)
<1> DEFINE t == Append(s, "close")
<1>0. "close" \in GuardTokens
    BY DEF GuardTokens
<1>1. PICK m \in Nat : Len(s) = m /\ Grown(s, "close", m, t)
    BY GrownIs
<1>2. /\ AwaitsBrace(s, p.txArmed) /\ Remembered(s, p.depth + 1, p.txDepths, TRUE)
      /\ ~Escapes(s)
    BY DEF Guarded, Watch
<1>3. p.depth \in Nat /\ p.txArmed \in BOOLEAN /\ p.txDepths \in Seq(Nat \ {0})
    BY GuardFields
<1>4. ~Escapes(t)
    BY <1>0, <1>2, EscapesNext
<1>5. AwaitsBrace(t, p.txArmed)
    BY <1>0, <1>2, <1>3, AwaitsNext
<1>6. Remembered(t, p.depth, p.txDepths, FALSE)
    <2> HIDE DEF t
    <2> QED BY <1>1, <1>2, <1>3, RememberOwnClose
<1> QED BY <1>4, <1>5, <1>6 DEF Guarded, GuardWatch, Watch, KeepsGuard

LEMMA LineWatched ==
    ASSUME NEW p \in ParserState, NEW q, NEW line \in Lines, LineEffect(p, q, line),
           NEW s \in Seq(GuardTokens), Guarded(s, p)
    PROVE  Guarded(s \o Tokens(line), q)
<1>1. CASE ~p.inStruct
    <2>1. GuardWatch(s, p)
        BY <1>1 DEF Guarded
    <2>2. GuardWatch(s \o Tokens(line), q)
        BY <1>1, <2>1 DEF LineEffect
    <2>3. ~(q.inStruct /\ ~q.needOpen)
        <3>1. TopEffect(p, q, line)
            BY <1>1 DEF LineEffect
        <3>2. TypeOpened(p, q, line) \/ KeepsTypes(p, q)
            BY <3>1 DEF TopEffect, Noted, RouteAwaited, RouteTaken, TaskAwaited, TaskTaken,
                        ServiceTaken, PassedOver
        <3> QED BY <1>1, <3>2 DEF TypeOpened, KeepsTypes
    <2> QED BY <2>2, <2>3 DEF Guarded
<1>2. CASE p.inStruct
    <2>0. StructEffect(p, q, line) /\ KeepsGuard(p, q)
        BY <1>2 DEF LineEffect
    <2>1. CASE line.kind = "blank" /\ KeepsTypes(p, q)
        <3>1. Tokens(line) = <<>>
            BY <2>1 DEF Tokens
        <3>2. Guarded(s, q)
            BY <2>0, <2>1, GuardedFrom DEF KeepsTypes
        <3> QED BY <3>1, <3>2, ConcatEmptySeq
    <2>2. CASE TypeUnopened(p, q, line)
        <3>1. Tokens(line) = <<"open">>
            BY <2>2 DEF Tokens, TypeUnopened
        <3>2. Guarded(Append(s, "open"), q)
            BY <1>2, <2>0, <2>2, UnopenedWatched DEF TypeUnopened
        <3>3. s \o <<"open">> = Append(s, "open")
            OBVIOUS
        <3> QED BY <3>1, <3>2, <3>3
    <2>3. CASE TypeClosed(p, q, line)
        <3>1. Tokens(line) = <<"close">>
            BY <2>3 DEF Tokens, TypeClosed
        <3>2. Guarded(Append(s, "close"), q)
            BY <1>2, <2>0, <2>3, ClosedWatched DEF TypeClosed
        <3>3. s \o <<"close">> = Append(s, "close")
            OBVIOUS
        <3> QED BY <3>1, <3>2, <3>3
    <2>4. CASE BodyEffect(p, q, line)
        <3>1. line.kind \in {"pick", "field", "rule", "flags", "references"}
            BY <2>4 DEF BodyEffect, Picked, Fielded, Prefixed
        <3>2. Tokens(line) = <<>>
            BY <3>1 DEF Tokens
        <3>3. q.inStruct = p.inStruct /\ q.needOpen = p.needOpen
            <4>1. q \in ParserState
                BY DEF LineEffect
            <4>2. ~p.needOpen /\ ~q.needOpen /\ p.inStruct /\ q.inStruct
                BY <2>4 DEF BodyEffect
            <4> QED BY <4>1, <4>2, BooleanFields
        <3>4. Guarded(s, q)
            BY <2>0, <3>3, GuardedFrom
        <3> QED BY <3>2, <3>4, ConcatEmptySeq
    <2> QED BY <2>0, <2>1, <2>2, <2>3, <2>4 DEF StructEffect
<1> QED BY <1>1, <1>2, BooleanFields

-----------------------------------------------------------------------------
(* The steps of the reading.                                               *)
Numbering(x, p) == [p EXCEPT !.lineno = Len(x) + 1]

Joined(p) == [kind |-> "signature", name |-> p.joining[1]]

ReadWhole(x, p, q, line) ==
    /\ p.joining = <<>> /\ line.kind \notin {"head", "tail"}
    /\ LineEffect(Numbering(x, p), q, line)

ReadHead(x, p, q, line) ==
    /\ p.joining = <<>> /\ line.kind = "head" /\ ~p.inStruct
    /\ q = [Numbering(x, p) EXCEPT !.joining = <<line.name>>]

ReadInside(p, q, line) == p.joining # <<>> /\ line.kind = "blank" /\ q = p

ReadTail(p, q, line) ==
    /\ p.joining # <<>> /\ line.kind = "tail"
    /\ LineEffect([p EXCEPT !.joining = <<>>], q, Joined(p))

Advance(x, p, q, line) ==
    /\ p \in ParserState /\ q \in ParserState /\ ~p.failed /\ ~q.failed
    /\ \/ ReadWhole(x, p, q, line) \/ ReadHead(x, p, q, line)
       \/ ReadInside(p, q, line) \/ ReadTail(p, q, line)

(* While the file is not refused.                                          *)
Sound(p) == p \in ParserState /\ ~p.failed /\ (p.inStruct => p.types # <<>>)

ReadInv ==
    /\ text \in Seq(Lines) /\ file \in Sources
    /\ verdict \in {"reading", "refused", "accepted"}
    /\ verdict # "refused" => Sound(ps)

LEMMA LineSound ==
    ASSUME NEW p \in ParserState, p.inStruct => p.types # <<>>, NEW q, NEW line,
           LineEffect(p, q, line)
    PROVE  q.inStruct => q.types # <<>>
<1>0. p.types \in Seq(TypeDecl)
    BY DEF ParserState
<1>1. CASE ~p.inStruct
    <2>1. TopEffect(p, q, line)
        BY <1>1 DEF LineEffect
    <2>2. TypeOpened(p, q, line) \/ KeepsTypes(p, q)
        BY <2>1 DEF TopEffect, Noted, RouteAwaited, RouteTaken, TaskAwaited, TaskTaken,
                    ServiceTaken, PassedOver
    <2>3. CASE TypeOpened(p, q, line)
        <3>1. \A e : Append(p.types, e) # <<>>
            BY <1>0
        <3> QED BY <2>3, <3>1 DEF TypeOpened
    <2>4. CASE KeepsTypes(p, q)
        BY <1>1, <2>4 DEF KeepsTypes
    <2> QED BY <2>2, <2>3, <2>4
<1>2. CASE p.inStruct
    <2>1. p.types # <<>>
        BY <1>2
    <2>2. \A f : Extended(p.types, f) # <<>>
        BY <1>0, <2>1 DEF Extended
    <2>3. StructEffect(p, q, line)
        BY <1>2 DEF LineEffect
    <2>4. q.types = p.types \/ \E f : q.types = Extended(p.types, f)
        BY <2>3 DEF StructEffect, KeepsTypes, TypeUnopened, TypeClosed, BodyEffect, Picked,
                    Fielded, Prefixed
    <2> QED BY <2>1, <2>2, <2>4
<1> QED BY <1>1, <1>2, BooleanFields

LEMMA NumberingIs ==
    ASSUME NEW p \in ParserState, NEW x \in Seq(Lines)
    PROVE  LET q == Numbering(x, p)
           IN  /\ q \in ParserState /\ q.lineno = Len(x) + 1 /\ q.joining = p.joining
               /\ q.failed = p.failed /\ KeepsGuard(p, q) /\ KeepsDeclared(p, q)
               /\ KeepsTypes(p, q)
<1> DEFINE n == Len(x) + 1
           q == Numbering(x, p)
<1>1. q = [p EXCEPT !.lineno = n] /\ n \in Nat
    BY DEF Numbering
<1> HIDE DEF n
<1>2. q \in ParserState
    BY <1>1, ZenonT(60) DEF ParserState
<1> HIDE DEF q
<1>3. /\ q.lineno = n /\ q.joining = p.joining
      /\ q.failed = p.failed /\ KeepsGuard(p, q) /\ KeepsDeclared(p, q) /\ KeepsTypes(p, q)
    BY <1>1 DEF ParserState, KeepsGuard, KeepsDeclared, KeepsTypes, KeepsNotes,
                KeepsRoutes, KeepsServices, KeepsTasks, KeepsPending
<1> QED BY <1>2, <1>3 DEF q, n

LEMMA UnjoinedIs ==
    ASSUME NEW p \in ParserState, NEW j \in Seq(STRING)
    PROVE  LET q == [p EXCEPT !.joining = j]
           IN  /\ q \in ParserState /\ q.lineno = p.lineno /\ q.joining = j
               /\ q.failed = p.failed /\ KeepsGuard(p, q) /\ KeepsDeclared(p, q)
               /\ KeepsTypes(p, q)
<1> DEFINE q == [p EXCEPT !.joining = j]
<1>1. q \in ParserState
    BY Zenon DEF ParserState
<1>2. /\ q.lineno = p.lineno /\ q.joining = j
      /\ q.failed = p.failed /\ KeepsGuard(p, q) /\ KeepsDeclared(p, q) /\ KeepsTypes(p, q)
    BY DEF ParserState, KeepsGuard, KeepsDeclared, KeepsTypes, KeepsNotes,
           KeepsRoutes, KeepsServices, KeepsTasks, KeepsPending
<1> QED BY <1>1, <1>2

LEMMA JoinedIs ==
    ASSUME NEW p \in ParserState, p.joining # <<>>
    PROVE  Joined(p) \in Lines /\ Joined(p).kind = "signature"
<1>1. p.joining \in Seq(STRING)
    BY DEF ParserState
<1>2. p.joining[1] \in STRING
    BY <1>1
<1> QED BY <1>2 DEF Joined, Lines, NamedKinds

LEMMA Failure ==
    ASSUME NEW p \in ParserState, NEW line \in Lines, p.inStruct => p.types # <<>>,
           NEW q, q = ParseSourceLine(p, line), ~q.failed
    PROVE  LineEffect(p, q, line) /\ q \in ParserState /\ (q.inStruct => q.types # <<>>)
<1>1. LineEffect(p, q, line)
    BY SourceLineIs
<1> QED BY <1>1, LineSound DEF LineEffect

(* A step reads a line or ends the file.                                   *)
LEMMA StepIs ==
    ASSUME ReadInv, AnnotationsNext
    PROVE  /\ ReadInv'
           /\ verdict' # "refused" =>
                 \/ UNCHANGED <<text, ps>> /\ verdict = "reading"
                 \/ \E line \in Lines : /\ text' = Append(text, line) /\ verdict = "reading"
                                        /\ Advance(text, ps, ps', line)
           /\ verdict' = "accepted" =>
                 ~Unfinished /\ ~ClashingDeclarations /\ UNCHANGED <<text, ps>>
<1>1. CASE EndOfFile
    <2>1. verdict' \in {"refused", "accepted"} /\ UNCHANGED <<text, file, ps>>
        BY <1>1 DEF EndOfFile
    <2>2. verdict = "reading" /\ (verdict' = "accepted" => ~Unfinished /\ ~ClashingDeclarations)
        BY <1>1 DEF EndOfFile
    <2> QED BY <2>1, <2>2 DEF ReadInv
<1>2. ASSUME Reading, NEW line \in file[Len(text) + 1],
             ReadLine(line) \/ BeginSignature(line) \/ JoinSignature(line)
      PROVE  /\ ReadInv' /\ verdict' # "accepted"
             /\ verdict' # "refused" =>
                   /\ text' = Append(text, line) /\ verdict = "reading" /\ line \in Lines
                   /\ Advance(text, ps, ps', line)
    <2>1. line \in Lines
        <3>1. file \in Seq(SUBSET Lines) /\ text \in Seq(Lines)
            BY AnnotationsAssumption DEF ReadInv
        <3>2. Len(text) + 1 \in 1..Len(file)
            BY <1>2, <3>1 DEF Reading
        <3> QED BY <1>2, <3>1, <3>2
    <2>2. /\ text' = Append(text, line) /\ file' = file
          /\ verdict' = (IF ps'.failed THEN "refused" ELSE "reading")
        BY <1>2 DEF ReadLine, BeginSignature, JoinSignature, Read
    <2>3. text \in Seq(Lines) /\ text' \in Seq(Lines) /\ verdict = "reading" /\ Sound(ps)
        BY <1>2, <2>1, <2>2 DEF ReadInv, Reading
    <2>4. CASE ~ps'.failed
        <3>1. ps \in ParserState /\ ~ps.failed /\ (ps.inStruct => ps.types # <<>>)
            BY <2>3 DEF Sound
        <3>2. CASE ReadLine(line)
            <4>0. Numbered = Numbering(text, ps)
                BY DEF Numbered, Numbering
            <4>1. ps' = ParseSourceLine(Numbering(text, ps), line)
                BY <3>2, <4>0 DEF ReadLine, Read
            <4>2. /\ Numbering(text, ps) \in ParserState
                  /\ Numbering(text, ps).inStruct => Numbering(text, ps).types # <<>>
                BY <2>3, <3>1, NumberingIs DEF KeepsTypes
            <4>3. /\ LineEffect(Numbering(text, ps), ps', line) /\ ps' \in ParserState
                  /\ ps'.inStruct => ps'.types # <<>>
                BY <2>1, <2>4, <4>1, <4>2, Failure
            <4>4. ReadWhole(text, ps, ps', line)
                BY <3>2, <4>3 DEF ReadWhole, ReadLine
            <4> QED BY <2>1, <2>2, <2>3, <2>4, <3>1, <4>3, <4>4 DEF Advance, ReadInv, Sound
        <3>3. CASE BeginSignature(line)
            <4> DEFINE j == <<line.name>>
                       p == Numbering(text, ps)
            <4>0. Numbered = Numbering(text, ps)
                BY DEF Numbered, Numbering
            <4>1. ps' = [p EXCEPT !.joining = j] /\ line.kind = "head" /\ ~ps.inStruct
                  /\ ps.joining = <<>>
                BY <3>3, <4>0 DEF BeginSignature, Read, StartsSignature
            <4>2. j \in Seq(STRING)
                BY <2>1, <4>1 DEF Lines, PlainKinds, NamedKinds
            <4>3. p \in ParserState /\ KeepsTypes(ps, p)
                BY <2>3, <3>1, NumberingIs
            <4>4. ReadHead(text, ps, ps', line)
                BY <4>1 DEF ReadHead
            <4> HIDE DEF p, j
            <4>5. ps' \in ParserState /\ KeepsTypes(p, ps')
                BY <4>1, <4>2, <4>3, UnjoinedIs
            <4>6. ~ps'.inStruct
                BY <4>1, <4>3, <4>5 DEF KeepsTypes
            <4> QED BY <2>1, <2>2, <2>3, <2>4, <3>1, <4>4, <4>5, <4>6 DEF Advance, ReadInv, Sound
        <3>4. CASE JoinSignature(line) /\ line.kind = "blank"
            <4>1. ps' = ps /\ ps.joining # <<>>
                BY <3>4 DEF JoinSignature, Read
            <4>2. ReadInside(ps, ps', line)
                BY <3>4, <4>1 DEF ReadInside
            <4> QED BY <2>1, <2>2, <2>3, <2>4, <3>1, <4>1, <4>2 DEF Advance, ReadInv, Sound
        <3>5. CASE JoinSignature(line) /\ line.kind = "tail"
            <4> DEFINE p == [ps EXCEPT !.joining = <<>>]
            <4>1. ps.joining # <<>> /\ ps' = ParseSourceLine(p, Joined(ps))
                BY <3>5 DEF JoinSignature, Read, Joined
            <4>2. p \in ParserState /\ KeepsTypes(ps, p)
                <5>1. <<>> \in Seq(STRING)
                    OBVIOUS
                <5> QED BY <3>1, <5>1, UnjoinedIs
            <4>3. Joined(ps) \in Lines
                BY <3>1, <4>1, JoinedIs
            <4>4. p.inStruct => p.types # <<>>
                BY <3>1, <4>2 DEF KeepsTypes
            <4> HIDE DEF p
            <4>5. LineEffect(p, ps', Joined(ps)) /\ ps' \in ParserState
                  /\ (ps'.inStruct => ps'.types # <<>>)
                BY <2>4, <4>1, <4>2, <4>3, <4>4, Failure
            <4>6. ReadTail(ps, ps', line)
                BY <3>5, <4>1, <4>5 DEF ReadTail, p
            <4> QED BY <2>1, <2>2, <2>3, <2>4, <3>1, <4>5, <4>6 DEF Advance, ReadInv, Sound
        <3> QED BY <1>2, <3>2, <3>3, <3>4, <3>5 DEF JoinSignature
    <2>5. CASE ps'.failed
        <3>1. verdict' = "refused"
            BY <2>2, <2>5
        <3> QED BY <2>2, <2>3, <3>1 DEF ReadInv
    <2> QED BY <2>4, <2>5
<1> QED BY <1>1, <1>2 DEF AnnotationsNext

(* A file that is not refused has no return in an open block so far.       *)
GuardInv == verdict # "refused" => Guarded(Stream(text), ps)

LEMMA StreamIs ==
    ASSUME NEW x \in Seq(Lines)
    PROVE  Stream(x) \in Seq(GuardTokens)
<1> DEFINE seqs == [i \in DOMAIN x |-> Tokens(x[i])]
<1>1. seqs \in Seq(Seq(GuardTokens))
    BY TokensAre
<1>2. CASE Len(seqs) = 0
    <2>1. FlattenSeq(seqs) = <<>>
        BY <1>1, <1>2 DEF FlattenSeq
    <2> QED BY <2>1 DEF Stream
<1>3. CASE Len(seqs) # 0
    <2> HIDE DEF seqs
    <2>1. FlattenSeq(seqs) \in Seq(GuardTokens)
        BY <1>1, <1>3, FlattenType
    <2> QED BY <2>1 DEF Stream, seqs
<1> QED BY <1>2, <1>3

LEMMA AdvanceWatched ==
    ASSUME NEW x \in Seq(Lines), NEW p, NEW q, NEW line \in Lines, Advance(x, p, q, line),
           Guarded(Stream(x), p)
    PROVE  Guarded(Stream(Append(x, line)), q)
<1> DEFINE s == Stream(x)
<1>1. s \in Seq(GuardTokens) /\ Stream(Append(x, line)) = s \o Tokens(line)
    BY StreamIs, StreamGrows
<1> HIDE DEF s
<1>2. p \in ParserState /\ q \in ParserState /\ Guarded(s, p)
    BY DEF Advance, s
<1>3. CASE ReadWhole(x, p, q, line)
    <2> DEFINE n == Numbering(x, p)
    <2>1. n \in ParserState /\ KeepsGuard(p, n) /\ KeepsTypes(p, n)
        BY <1>2, NumberingIs
    <2> HIDE DEF n
    <2>2. Guarded(s, n)
        BY <1>2, <2>1, GuardedFrom DEF KeepsTypes
    <2>3. LineEffect(n, q, line)
        BY <1>3 DEF ReadWhole, n
    <2>4. Guarded(s \o Tokens(line), q)
        BY <1>1, <2>1, <2>2, <2>3, LineWatched
    <2> QED BY <1>1, <2>4
<1>4. CASE ReadHead(x, p, q, line)
    <2> DEFINE n == Numbering(x, p)
               j == <<line.name>>
    <2>1. n \in ParserState /\ KeepsGuard(p, n) /\ KeepsTypes(p, n)
        BY <1>2, NumberingIs
    <2>2. j \in Seq(STRING) /\ q = [n EXCEPT !.joining = j]
        BY <1>4 DEF ReadHead, Lines, PlainKinds, NamedKinds
    <2> HIDE DEF n, j
    <2>3. KeepsGuard(n, q) /\ KeepsTypes(n, q)
        BY <2>1, <2>2, UnjoinedIs
    <2>4. Guarded(s, n)
        BY <1>2, <2>1, GuardedFrom DEF KeepsTypes
    <2>5. Guarded(s, q)
        BY <2>3, <2>4, GuardedFrom DEF KeepsTypes
    <2>6. Tokens(line) = <<>>
        BY <1>4 DEF ReadHead, Tokens
    <2> QED BY <1>1, <2>5, <2>6, ConcatEmptySeq
<1>5. CASE ReadInside(p, q, line)
    <2>1. Tokens(line) = <<>> /\ q = p
        BY <1>5 DEF ReadInside, Tokens
    <2> QED BY <1>1, <1>2, <2>1, ConcatEmptySeq
<1>6. CASE ReadTail(p, q, line)
    <2> DEFINE n == [p EXCEPT !.joining = <<>>]
               j == Joined(p)
    <2>1. n \in ParserState /\ KeepsGuard(p, n) /\ KeepsTypes(p, n)
        <3>1. <<>> \in Seq(STRING)
            OBVIOUS
        <3> QED BY <1>2, <3>1, UnjoinedIs
    <2>2. j \in Lines /\ j.kind = "signature"
        BY <1>2, <1>6, JoinedIs DEF ReadTail
    <2> HIDE DEF n, j
    <2>3. Guarded(s, n)
        BY <1>2, <2>1, GuardedFrom DEF KeepsTypes
    <2>4. LineEffect(n, q, j)
        BY <1>6 DEF ReadTail, n, j
    <2>5. Guarded(s \o Tokens(j), q)
        BY <1>1, <2>1, <2>2, <2>3, <2>4, LineWatched
    <2>6. Tokens(line) = <<>> /\ Tokens(j) = <<>>
        BY <1>6, <2>2 DEF ReadTail, Tokens
    <2> QED BY <1>1, <2>5, <2>6
<1> QED BY <1>3, <1>4, <1>5, <1>6 DEF Advance

LEMMA InitIs ==
    ASSUME AnnotationsInit
    PROVE  ReadInv /\ text = <<>> /\ ps = ParserInit
<1>1. ParserInit \in ParserState
    <2>1. /\ <<>> \in Seq(STRING) /\ <<>> \in Seq(Nat \ {0}) /\ <<>> \in Seq(RouteDecl)
          /\ <<>> \in Seq(Decl) /\ <<>> \in Seq(TypeDecl) /\ {} \in SUBSET STRING
          /\ 0 \in Nat /\ NoRole \in STRING \union {NoRole}
        OBVIOUS
    <2> QED BY <2>1, Zenon DEF ParserInit, ParserState
<1>2. Sound(ParserInit)
    BY <1>1 DEF Sound, ParserInit
<1>3. <<>> \in Seq(Lines)
    OBVIOUS
<1> QED BY <1>2, <1>3 DEF AnnotationsInit, ReadInv

LEMMA ReadStutter ==
    ASSUME ReadInv, UNCHANGED annotationVars
    PROVE  ReadInv'
BY DEF annotationVars, ReadInv

LEMMA ReadingIsSound == AnnotationsSpec => []ReadInv
<1>1. AnnotationsInit => ReadInv
    BY InitIs
<1>2. ReadInv /\ [AnnotationsNext]_annotationVars => ReadInv'
    BY StepIs, ReadStutter
<1> QED BY <1>1, <1>2, PTL DEF AnnotationsSpec

LEMMA GuardInit ==
    ASSUME AnnotationsInit
    PROVE  GuardInv
<1>1. text = <<>> /\ ps = ParserInit
    BY InitIs
<1>2. Stream(<<>>) = <<>>
    <2> DEFINE seqs == [i \in DOMAIN <<>> |-> Tokens(<<>>[i])]
    <2>1. seqs = <<>> /\ Len(seqs) = 0
        OBVIOUS
    <2> QED BY <2>1 DEF Stream, FlattenSeq
<1>3. Watch(<<>>, 0, FALSE, <<>>, FALSE)
    BY DEF Watch, AwaitsBrace, Remembered, Escapes
<1>4. Guarded(<<>>, ParserInit)
    BY <1>3 DEF Guarded, GuardWatch, ParserInit
<1> QED BY <1>1, <1>2, <1>4 DEF GuardInv

LEMMA GuardStep ==
    ASSUME ReadInv, GuardInv, [AnnotationsNext]_annotationVars
    PROVE  GuardInv'
<1>1. CASE UNCHANGED annotationVars
    BY <1>1 DEF annotationVars, GuardInv
<1>2. CASE AnnotationsNext /\ verdict' # "refused"
    <2>1. CASE UNCHANGED <<text, ps>> /\ verdict = "reading"
        BY <2>1 DEF GuardInv
    <2>2. ASSUME NEW line \in Lines, text' = Append(text, line), verdict = "reading",
                 Advance(text, ps, ps', line)
          PROVE  GuardInv'
        <3>1. Guarded(Stream(text), ps) /\ text \in Seq(Lines)
            BY <2>2 DEF GuardInv, ReadInv
        <3>2. Guarded(Stream(text'), ps')
            BY <2>2, <3>1, AdvanceWatched
        <3> QED BY <3>2 DEF GuardInv
    <2> QED BY <1>2, <2>1, <2>2, StepIs
<1>3. CASE verdict' = "refused"
    BY <1>3 DEF GuardInv
<1> QED BY <1>1, <1>2, <1>3

LEMMA GuardedHaveNoEscape ==
    ASSUME ReadInv, GuardInv
    PROVE  NoReturnEscapes
<1> DEFINE stream == FlattenSeq([i \in DOMAIN text |-> Tokens(text[i])])
           count(a, b, token) == Cardinality({i \in a..b : stream[i] = token})
           opens(r, p) == /\ stream[r] = "transaction" /\ stream[p] = "open" /\ r < p
                          /\ \A i \in (r + 1)..(p - 1) : stream[i] # "open"
           inside(p, q) == /\ p < q
                           /\ \A i \in p..q : count(p, i, "open") > count(p, i, "close")
<1>1. SUFFICES ASSUME verdict = "accepted", NEW r \in DOMAIN stream, NEW o \in DOMAIN stream,
                      NEW q \in DOMAIN stream, stream[q] = "return", opens(r, o), inside(o, q)
               PROVE  FALSE
    BY DEF NoReturnEscapes
<1>2. stream = Stream(text)
    BY DEF Stream
<1>3. text \in Seq(Lines) /\ Guarded(Stream(text), ps)
    BY <1>1 DEF ReadInv, GuardInv
<1>4. ~Escapes(Stream(text))
    BY <1>3 DEF Guarded, GuardWatch, Watch
<1>5. Stream(text) \in Seq(GuardTokens)
    BY <1>3, StreamIs
<1>6. Opens(stream, r, o) /\ Within(stream, o, q) /\ o < q
    <2> HIDE DEF stream
    <2> QED BY <1>1 DEF Opens, Within, Count
<1> HIDE DEF stream, opens, inside
<1>7. Escape(stream, r, o, q)
    BY <1>1, <1>6 DEF Escape
<1>8. DOMAIN stream = 1..Len(stream)
    BY <1>2, <1>5
<1> QED BY <1>1, <1>2, <1>4, <1>7, <1>8 DEF Escapes

(***************************************************************************)
(* A return in an open block of a $transaction is an error, for any file   *)
(* and however its braces nest: guard_transaction keeps the depth of each  *)
(* open block, so the block is known to be open at the return.             *)
(***************************************************************************)
THEOREM TransactionsHaveNoReturn == AnnotationsSpec => []NoReturnEscapes
<1>1. AnnotationsInit => GuardInv
    BY GuardInit
<1>2. ReadInv /\ GuardInv /\ [AnnotationsNext]_annotationVars => GuardInv'
    BY GuardStep
<1>3. ReadInv /\ GuardInv => NoReturnEscapes
    BY GuardedHaveNoEscape
<1> QED BY <1>1, <1>2, <1>3, ReadingIsSound, PTL DEF AnnotationsSpec

-----------------------------------------------------------------------------
(* What is bound to what.  The lines below h have been read: y is x with   *)
(* the line that h now stands for, a signature when it was joined, and g   *)
(* is the number of the next.                                              *)
Silent == {"blank", "tail", "head", "signature"}

Grows(x, h, y, g, line) ==
    /\ h \in Nat \ {0} /\ g \in Nat /\ h < g
    /\ \A k \in 1..(h - 1) : y[k] = x[k]
    /\ \/ y[h] = line /\ g = h + 1
       \/ y[h].kind = "head" /\ line.kind = "signature"
    /\ \A k \in (h + 1)..(g - 1) : y[k].kind \in {"blank", "tail"}

Marks(x, h, kinds) == {i \in 1..(h - 1) : x[i].kind \in kinds}

LEMMA KindsGrow ==
    ASSUME NEW x, NEW h, NEW y, NEW g, NEW line, Grows(x, h, y, g, line),
           NEW i \in 1..(g - 1)
    PROVE  /\ i < h => i \in 1..(h - 1) /\ y[i] = x[i]
           /\ i = h => \/ y[i] = line
                       \/ y[i].kind \in Silent /\ line.kind \in Silent
           /\ i > h => y[i].kind \in Silent
<1>1. h \in Nat /\ g \in Nat
    BY DEF Grows
<1>2. i < h => i \in 1..(h - 1) /\ y[i] = x[i]
    BY <1>1 DEF Grows
<1>3. i = h => \/ y[i] = line
               \/ y[i].kind \in Silent /\ line.kind \in Silent
    BY DEF Grows, Silent
<1>4. i > h => y[i].kind \in Silent
    <2>1. i > h => i \in (h + 1)..(g - 1)
        BY <1>1
    <2> QED BY <2>1 DEF Grows, Silent
<1> QED BY <1>2, <1>3, <1>4

LEMMA MarksGrow ==
    ASSUME NEW x, NEW h, NEW y, NEW g, NEW line, Grows(x, h, y, g, line),
           NEW kinds, kinds \intersect Silent = {}
    PROVE  /\ line.kind \in kinds => Marks(y, g, kinds) = Marks(x, h, kinds) \union {h}
           /\ line.kind \notin kinds => Marks(y, g, kinds) = Marks(x, h, kinds)
           /\ h \notin Marks(x, h, kinds)
<1>1. h \in Nat \ {0} /\ g \in Nat /\ h < g
    BY DEF Grows
<1>2. h \notin Marks(x, h, kinds)
    BY <1>1 DEF Marks
<1>3. \A i \in 1..(h - 1) : i \in 1..(g - 1) /\ y[i] = x[i]
    BY <1>1 DEF Grows
<1>4. h \in 1..(g - 1) /\ (y[h].kind \in kinds <=> line.kind \in kinds)
    <2>1. h \in 1..(g - 1)
        BY <1>1
    <2> QED BY <2>1, KindsGrow
<1>5. \A i \in 1..(g - 1) : i \in 1..(h - 1) \/ i = h \/ y[i].kind \notin kinds
    <2> TAKE i \in 1..(g - 1)
    <2>1. i < h \/ i = h \/ i > h
        BY <1>1
    <2> QED BY <2>1, KindsGrow
<1> QED BY <1>2, <1>3, <1>4, <1>5 DEF Marks

LEMMA MarksFinite ==
    ASSUME NEW x, NEW h \in Nat, NEW kinds
    PROVE  IsFiniteSet(Marks(x, h, kinds)) /\ Cardinality(Marks(x, h, kinds)) \in Nat
<1>1. IsFiniteSet(1..(h - 1))
    BY FS_Interval
<1>2. IsFiniteSet(Marks(x, h, kinds))
    BY <1>1, FS_Subset DEF Marks
<1> QED BY <1>2, FS_CardinalityType

LEMMA MarksCounted ==
    ASSUME NEW x, NEW h, NEW y, NEW g, NEW line, Grows(x, h, y, g, line),
           NEW kinds, kinds \intersect Silent = {}
    PROVE  /\ line.kind \in kinds =>
                 Cardinality(Marks(y, g, kinds)) = Cardinality(Marks(x, h, kinds)) + 1
           /\ line.kind \notin kinds =>
                 Cardinality(Marks(y, g, kinds)) = Cardinality(Marks(x, h, kinds))
           /\ Cardinality(Marks(x, h, kinds)) \in Nat
<1>1. h \in Nat
    BY DEF Grows
<1>2. IsFiniteSet(Marks(x, h, kinds)) /\ Cardinality(Marks(x, h, kinds)) \in Nat
    BY <1>1, MarksFinite
<1>3. /\ line.kind \in kinds => Marks(y, g, kinds) = Marks(x, h, kinds) \union {h}
      /\ line.kind \notin kinds => Marks(y, g, kinds) = Marks(x, h, kinds)
      /\ h \notin Marks(x, h, kinds)
    BY MarksGrow
<1>4. Cardinality(Marks(x, h, kinds) \union {h}) = Cardinality(Marks(x, h, kinds)) + 1
    BY <1>2, <1>3, FS_AddElement
<1> QED BY <1>2, <1>3, <1>4

(* The lines above, when a bound is added or none is.                      *)
Bounds(B, h) == \A b \in B : b \in Nat /\ b < h

LEMMA AboveGrows ==
    ASSUME NEW h \in Nat \ {0}, NEW g \in Nat, h < g, NEW B, Bounds(B, h)
    PROVE  \A i : i \in Above(g, B) <=> i \in Above(h, B) \/ i \in h..(g - 1)
<1>1. ASSUME NEW i \in 1..(g - 1), i \notin h..(g - 1)
      PROVE  i \in 1..(h - 1) /\ \A b \in B : (i <= b /\ b < g) <=> (i <= b /\ b < h)
    BY <1>1 DEF Bounds
<1>2. ASSUME NEW i \in 1..(h - 1)
      PROVE  i \in 1..(g - 1) /\ \A b \in B : (i <= b /\ b < g) <=> (i <= b /\ b < h)
    BY <1>2 DEF Bounds
<1>3. ASSUME NEW i \in h..(g - 1)
      PROVE  i \in 1..(g - 1) /\ \A b \in B : ~(i <= b /\ b < g)
    BY <1>3 DEF Bounds
<1> QED BY <1>1, <1>2, <1>3 DEF Above

LEMMA AboveReset ==
    ASSUME NEW h \in Nat \ {0}, NEW g \in Nat, h < g, NEW B, h \in B
    PROVE  \A i \in Above(g, B) : i \in (h + 1)..(g - 1)
<1>1. ASSUME NEW i \in 1..(g - 1), ~(i <= h /\ h < g)
      PROVE  i \in (h + 1)..(g - 1)
    BY <1>1
<1> QED BY <1>1 DEF Above

LEMMA AboveOld ==
    ASSUME NEW h \in Nat, NEW B, NEW j \in 1..h
    PROVE  Above(j, B \union {h}) = Above(j, B)
<1>1. \A i : ~(i <= h /\ h < j)
    BY DEF Above
<1> QED BY <1>1 DEF Above

(* What the lines of a kind above say.                                     *)
Told(x, kind, j, B) == {i \in Above(j, B) : x[i].kind = kind}

LEMMA LineStays ==
    ASSUME NEW x, NEW h, NEW y, NEW g, NEW line, Grows(x, h, y, g, line),
           line.kind \notin Silent
    PROVE  y[h] = line /\ g = h + 1
BY DEF Grows, Silent

LEMMA ToldMore ==
    ASSUME NEW x, NEW h, NEW y, NEW g, NEW line, Grows(x, h, y, g, line),
           NEW B, Bounds(B, h), NEW kind, kind \notin Silent
    PROVE  /\ line.kind = kind => Told(y, kind, g, B) = Told(x, kind, h, B) \union {h}
           /\ line.kind # kind => Told(y, kind, g, B) = Told(x, kind, h, B)
           /\ \A i \in Told(x, kind, h, B) : i \in 1..(h - 1) /\ y[i] = x[i]
<1>1. h \in Nat \ {0} /\ g \in Nat /\ h < g
    BY DEF Grows
<1>2. \A i : i \in Above(g, B) <=> i \in Above(h, B) \/ i \in h..(g - 1)
    BY <1>1, AboveGrows
<1>3. \A i \in Above(h, B) : i \in 1..(h - 1) /\ y[i] = x[i]
    BY DEF Above, Grows
<1>4. \A i \in h..(g - 1) : y[i].kind = kind <=> i = h /\ line.kind = kind
    <2> TAKE i \in h..(g - 1)
    <2>1. i \in 1..(g - 1) /\ (i = h \/ i > h)
        BY <1>1
    <2> QED BY <2>1, KindsGrow
<1>5. h \in h..(g - 1)
    BY <1>1
<1> QED BY <1>2, <1>3, <1>4, <1>5 DEF Told

LEMMA ToldNothing ==
    ASSUME NEW x, NEW h, NEW y, NEW g, NEW line, Grows(x, h, y, g, line),
           NEW B, h \in B, NEW kind, kind \notin Silent
    PROVE  Told(y, kind, g, B) = {}
<1>1. h \in Nat \ {0} /\ g \in Nat /\ h < g
    BY DEF Grows
<1>2. \A i \in Above(g, B) : i \in (h + 1)..(g - 1)
    BY <1>1, AboveReset
<1>3. \A i \in (h + 1)..(g - 1) : i \in 1..(g - 1) /\ i > h
    BY <1>1
<1> QED BY <1>2, <1>3, KindsGrow DEF Told

LEMMA ToldBefore ==
    ASSUME NEW x, NEW h, NEW y, NEW g, NEW line, Grows(x, h, y, g, line),
           NEW B, NEW kind, NEW j \in 1..h
    PROVE  /\ Told(y, kind, j, B) = Told(x, kind, j, B)
           /\ Told(y, kind, j, B \union {h}) = Told(x, kind, j, B)
           /\ \A i \in Told(x, kind, j, B) : y[i] = x[i]
<1>1. h \in Nat
    BY DEF Grows
<1>2. \A i \in Above(j, B) : y[i] = x[i]
    <2>1. \A i \in Above(j, B) : i \in 1..(h - 1)
        BY <1>1 DEF Above
    <2> QED BY <2>1 DEF Grows
<1>3. Above(j, B \union {h}) = Above(j, B)
    BY <1>1, AboveOld
<1> QED BY <1>2, <1>3 DEF Told

(* The role of the last $role above.                                       *)
RoleAt(x, S) == IF S = {} THEN NoRole ELSE x[Max(S)].role

LEMMA RoleSame ==
    ASSUME NEW x, NEW y, NEW n \in Nat, NEW S \in SUBSET (1..n), \A i \in S : y[i] = x[i]
    PROVE  RoleAt(y, S) = RoleAt(x, S)
<1>1. CASE S # {}
    <2>1. S \subseteq Nat /\ IsFiniteSet(1..n)
        BY FS_Interval
    <2>1a. IsFiniteSet(S)
        BY <2>1, FS_Subset
    <2>2. Max(S) \in S
        BY <1>1, <2>1, <2>1a, MaxIsLargest
    <2> QED BY <1>1, <2>2 DEF RoleAt
<1> QED BY <1>1 DEF RoleAt

LEMMA RoleNext ==
    ASSUME NEW y, NEW h \in Nat \ {0}, NEW S \in SUBSET (1..(h - 1))
    PROVE  RoleAt(y, S \union {h}) = y[h].role
<1> DEFINE T == S \union {h}
<1>1. T \in SUBSET (1..h) /\ h \in T
    OBVIOUS
<1>2. T \subseteq Nat /\ IsFiniteSet(1..h)
    BY <1>1, FS_Interval
<1>2a. IsFiniteSet(T) /\ T # {}
    BY <1>1, <1>2, FS_Subset
<1> HIDE DEF T
<1>3. Max(T) \in T /\ \A i \in T : Max(T) >= i
    BY <1>2, <1>2a, MaxIsLargest
<1>4. Max(T) = h
    <2>1. Max(T) \in 1..h /\ Max(T) >= h
        BY <1>1, <1>3
    <2> QED BY <2>1
<1> QED BY <1>2a, <1>4 DEF RoleAt, T

(* The declarations that wait for a line: from the line of the annotation  *)
(* to that of the declaration, all lines are passed over.                  *)
Skipped(x, i, j, P) == \A k \in (i + 1)..(j - 1) : x[k].kind \in P

Binds(x, i, j, P) == i < j /\ x[j].kind \notin P /\ Skipped(x, i, j, P)

Has(list, x, i, P) == \E r \in DOMAIN list : Binds(x, i, list[r].at, P)

Placed(x, h, P, list) ==
    \A r \in DOMAIN list : list[r].at \in 1..(h - 1) /\ x[list[r].at].kind \notin P

Bound(x, h, kinds, P, list, armed) ==
    /\ Placed(x, h, P, list)
    /\ Cardinality(Marks(x, h, kinds)) = Len(list) + (IF armed THEN 1 ELSE 0)
    /\ \A i \in Marks(x, h, kinds) : Has(list, x, i, P) \/ (armed /\ Skipped(x, i, h, P))

(* What the lines passed over may be, and those that are marks.            *)
Passing(kinds, P) == kinds \intersect Silent = {} /\ P \intersect Silent = {"blank"}

LEMMA PlacedGrows ==
    ASSUME NEW x, NEW h, NEW y, NEW g, NEW line, Grows(x, h, y, g, line),
           NEW P, NEW list, Placed(x, h, P, list)
    PROVE  Placed(y, g, P, list)
<1>1. h \in Nat /\ g \in Nat /\ h < g
    BY DEF Grows
<1>2. \A i \in 1..(h - 1) : i \in 1..(g - 1) /\ y[i] = x[i]
    BY <1>1 DEF Grows
<1> QED BY <1>2 DEF Placed

LEMMA SkippedBefore ==
    ASSUME NEW x, NEW h, NEW y, NEW g, NEW line, Grows(x, h, y, g, line),
           NEW P, NEW i \in Nat, NEW j \in 1..h, Skipped(x, i, j, P)
    PROVE  Skipped(y, i, j, P)
<1>1. h \in Nat
    BY DEF Grows
<1>2. \A k \in (i + 1)..(j - 1) : k \in 1..(h - 1)
    BY <1>1
<1> QED BY <1>2 DEF Grows, Skipped

LEMMA HasBefore ==
    ASSUME NEW x, NEW h, NEW y, NEW g, NEW line, Grows(x, h, y, g, line),
           NEW P, NEW list, Placed(x, h, P, list), NEW i \in Nat, Has(list, x, i, P)
    PROVE  Has(list, y, i, P)
<1>1. PICK r \in DOMAIN list : Binds(x, i, list[r].at, P)
    BY DEF Has
<1>2. list[r].at \in 1..(h - 1) /\ h \in Nat
    BY DEF Placed, Grows
<1>3. list[r].at \in 1..h
    BY <1>2
<1>4. Skipped(y, i, list[r].at, P)
    BY <1>1, <1>3, SkippedBefore DEF Binds
<1>5. y[list[r].at] = x[list[r].at]
    BY <1>2 DEF Grows
<1> QED BY <1>1, <1>4, <1>5 DEF Binds, Has

LEMMA BoundKept ==
    ASSUME NEW x, NEW h, NEW y, NEW g, NEW line, Grows(x, h, y, g, line),
           NEW kinds, NEW P, Passing(kinds, P), NEW list, NEW armed,
           Bound(x, h, kinds, P, list, armed), line.kind \notin kinds,
           armed => line.kind \in P
    PROVE  Bound(y, g, kinds, P, list, armed)
<1>1. h \in Nat \ {0} /\ g \in Nat /\ h < g
    BY DEF Grows
<1>2. Placed(y, g, P, list) /\ Placed(x, h, P, list)
    BY PlacedGrows DEF Bound
<1>3. Cardinality(Marks(y, g, kinds)) = Len(list) + (IF armed THEN 1 ELSE 0)
    BY MarksCounted DEF Bound, Passing
<1>4. Marks(y, g, kinds) = Marks(x, h, kinds)
    BY MarksGrow DEF Passing
<1>5. ASSUME NEW i \in Marks(x, h, kinds)
      PROVE  Has(list, y, i, P) \/ (armed /\ Skipped(y, i, g, P))
    <2>1. i \in 1..(h - 1)
        BY DEF Marks
    <2>2. CASE Has(list, x, i, P)
        BY <1>2, <2>1, <2>2, HasBefore
    <2>3. CASE armed /\ Skipped(x, i, h, P)
        <3>1. line.kind \in P
            BY <2>3
        <3>2. y[h].kind \in P /\ g = h + 1
            BY <3>1 DEF Grows, Passing, Silent
        <3>3. h \in 1..h
            BY <1>1
        <3>4. Skipped(y, i, h, P)
            BY <2>1, <2>3, <3>3, SkippedBefore
        <3>5. \A k \in (i + 1)..(g - 1) : k \in (i + 1)..(h - 1) \/ k = h
            BY <1>1, <2>1, <3>2
        <3>6. Skipped(y, i, g, P)
            BY <3>2, <3>4, <3>5 DEF Skipped
        <3> QED BY <2>3, <3>6
    <2> QED BY <2>2, <2>3 DEF Bound
<1> QED BY <1>2, <1>3, <1>4, <1>5 DEF Bound

LEMMA BoundArmed ==
    ASSUME NEW x, NEW h, NEW y, NEW g, NEW line, Grows(x, h, y, g, line),
           NEW kinds, NEW P, Passing(kinds, P), NEW list \in Seq(Decl) \union Seq(RouteDecl),
           Bound(x, h, kinds, P, list, FALSE), line.kind \in kinds
    PROVE  Bound(y, g, kinds, P, list, TRUE)
<1>1. h \in Nat \ {0} /\ g \in Nat /\ h < g /\ Len(list) \in Nat
    BY DEF Grows
<1>2. Placed(y, g, P, list) /\ Placed(x, h, P, list)
    BY PlacedGrows DEF Bound
<1>3. Cardinality(Marks(y, g, kinds)) = Len(list) + 1
    <2>1. Cardinality(Marks(x, h, kinds)) = Len(list) + 0
        BY DEF Bound
    <2> QED BY <1>1, <2>1, MarksCounted DEF Passing
<1>4. Marks(y, g, kinds) = Marks(x, h, kinds) \union {h}
    BY MarksGrow DEF Passing
<1>5. ASSUME NEW i \in Marks(x, h, kinds)
      PROVE  Has(list, y, i, P)
    <2>1. i \in 1..(h - 1)
        BY DEF Marks
    <2>2. Has(list, x, i, P)
        BY DEF Bound
    <2> QED BY <1>2, <2>1, <2>2, HasBefore
<1>6. Skipped(y, h, g, P)
    <2>1. g = h + 1
        BY LineStays DEF Passing
    <2>2. \A k \in (h + 1)..(g - 1) : FALSE
        BY <1>1, <2>1
    <2> QED BY <2>2 DEF Skipped
<1> QED BY <1>2, <1>3, <1>4, <1>5, <1>6 DEF Bound

LEMMA BoundTaken ==
    ASSUME NEW x, NEW h, NEW y, NEW g, NEW line, Grows(x, h, y, g, line),
           NEW kinds, NEW P, Passing(kinds, P), NEW list \in Seq(Decl) \union Seq(RouteDecl),
           Bound(x, h, kinds, P, list, TRUE), line.kind \notin kinds, line.kind \notin P,
           NEW d, d.at = h
    PROVE  Bound(y, g, kinds, P, Append(list, d), FALSE)
<1> DEFINE more == Append(list, d)
<1>1. h \in Nat \ {0} /\ g \in Nat /\ h < g /\ Len(list) \in Nat
    BY DEF Grows
<1>2. Placed(y, g, P, list) /\ Placed(x, h, P, list)
    BY PlacedGrows DEF Bound
<1>3. /\ Len(more) = Len(list) + 1 /\ more[Len(list) + 1] = d
      /\ \A r \in DOMAIN list : r \in DOMAIN more /\ more[r] = list[r]
      /\ \A r \in DOMAIN more : r \in DOMAIN list \/ r = Len(list) + 1
      /\ Len(list) + 1 \in DOMAIN more
    OBVIOUS
<1> HIDE DEF more
<1>4. Cardinality(Marks(y, g, kinds)) = Len(more) + 0
    <2>1. Cardinality(Marks(x, h, kinds)) = Len(list) + 1
        BY DEF Bound
    <2> QED BY <1>1, <1>3, <2>1, MarksCounted DEF Passing
<1>5. Marks(y, g, kinds) = Marks(x, h, kinds)
    BY MarksGrow DEF Passing
<1>6. y[h].kind \notin P
    BY DEF Grows, Passing, Silent
<1>7. Placed(y, g, P, more)
    <2>1. h \in 1..(g - 1)
        BY <1>1
    <2> QED BY <1>2, <1>3, <1>6, <2>1 DEF Placed
<1>8. ASSUME NEW i \in Marks(x, h, kinds)
      PROVE  Has(more, y, i, P)
    <2>1. i \in 1..(h - 1) /\ i < h
        BY <1>1 DEF Marks
    <2>2. CASE Has(list, x, i, P)
        <3>1. Has(list, y, i, P)
            BY <1>2, <2>1, <2>2, HasBefore
        <3> QED BY <1>3, <3>1 DEF Has
    <2>3. CASE Skipped(x, i, h, P)
        <3>1. h \in 1..h
            BY <1>1
        <3>2. Skipped(y, i, h, P)
            BY <2>1, <2>3, <3>1, SkippedBefore
        <3>3. Binds(y, i, h, P)
            BY <1>6, <2>1, <3>2 DEF Binds
        <3> QED BY <1>3, <3>3 DEF Has
    <2> QED BY <2>2, <2>3 DEF Bound
<1> QED BY <1>4, <1>5, <1>7, <1>8 DEF Bound, more

(* What a declaration at j, or the one that comes at j, has noted.         *)
NotesAre(x, notes, j, B, alone) ==
    /\ notes.auth <=> Told(x, "authenticated", j, B) # {}
    /\ notes.public <=> Told(x, "public", j, B) # {}
    /\ notes.produces <=> Told(x, "produces", j, B) # {}
    /\ alone => (notes.transactional <=> Told(x, "transactional", j, B) # {})
    /\ notes.role = RoleAt(x, Told(x, "role", j, B))

LEMMA NoteKinds ==
    ASSUME NEW kind \in RouteNotes
    PROVE  kind \notin Silent
BY DEF RouteNotes, AuthKinds, Silent

LEMMA RoleBefore ==
    ASSUME NEW x, NEW h, NEW y, NEW g, NEW line, Grows(x, h, y, g, line),
           NEW B, NEW j \in 1..h
    PROVE  /\ RoleAt(y, Told(y, "role", j, B)) = RoleAt(x, Told(x, "role", j, B))
           /\ RoleAt(y, Told(y, "role", j, B \union {h})) = RoleAt(x, Told(x, "role", j, B))
<1> DEFINE S == Told(x, "role", j, B)
<1>1. h \in Nat
    BY DEF Grows
<1>2. S \in SUBSET (1..h)
    BY <1>1 DEF Told, Above
<1>3. /\ Told(y, "role", j, B) = S
      /\ Told(y, "role", j, B \union {h}) = S
      /\ \A i \in S : y[i] = x[i]
    BY ToldBefore
<1> HIDE DEF S
<1>4. RoleAt(y, S) = RoleAt(x, S)
    BY <1>1, <1>2, <1>3, RoleSame
<1> QED BY <1>3, <1>4 DEF S

LEMMA RoleMore ==
    ASSUME NEW x, NEW h, NEW y, NEW g, NEW line, Grows(x, h, y, g, line),
           NEW B, Bounds(B, h)
    PROVE  RoleAt(y, Told(y, "role", g, B)) =
              IF line.kind = "role" THEN line.role ELSE RoleAt(x, Told(x, "role", h, B))
<1> DEFINE S == Told(x, "role", h, B)
           T == Told(y, "role", g, B)
<1>1. h \in Nat \ {0}
    BY DEF Grows
<1>2. "role" \notin Silent
    BY DEF Silent
<1>3. /\ line.kind = "role" => T = S \union {h}
      /\ line.kind # "role" => T = S
      /\ \A i \in S : i \in 1..(h - 1) /\ y[i] = x[i]
    BY <1>2, ToldMore
<1>4. line.kind = "role" => y[h] = line
    BY <1>2, LineStays
<1> HIDE DEF S, T
<1>5. S \in SUBSET (1..(h - 1)) /\ h - 1 \in Nat
    BY <1>1, <1>3
<1>6. RoleAt(y, S) = RoleAt(x, S)
    <2>1. ASSUME NEW n \in Nat, S \in SUBSET (1..n)
          PROVE  RoleAt(y, S) = RoleAt(x, S)
        BY <1>3, <2>1, RoleSame, ZenonT(60)
    <2> QED BY <1>5, <2>1
<1>7. RoleAt(y, S \union {h}) = y[h].role
    BY <1>1, <1>5, RoleNext
<1> QED BY <1>3, <1>4, <1>6, <1>7 DEF S, T

LEMMA NotesBefore ==
    ASSUME NEW x, NEW h, NEW y, NEW g, NEW line, Grows(x, h, y, g, line),
           NEW B, NEW j \in 1..h, NEW notes, NEW alone, NotesAre(x, notes, j, B, alone)
    PROVE  /\ NotesAre(y, notes, j, B, alone)
           /\ NotesAre(y, notes, j, B \union {h}, alone)
<1>1. \A kind : /\ Told(y, kind, j, B) = Told(x, kind, j, B)
                /\ Told(y, kind, j, B \union {h}) = Told(x, kind, j, B)
    BY ToldBefore
<1>2. /\ RoleAt(y, Told(y, "role", j, B)) = RoleAt(x, Told(x, "role", j, B))
      /\ RoleAt(y, Told(y, "role", j, B \union {h})) = RoleAt(x, Told(x, "role", j, B))
    BY RoleBefore
<1> QED BY <1>1, <1>2 DEF NotesAre

NotesNext(notes, alone, next, still, line) ==
    /\ next.auth = (notes.auth \/ line.kind = "authenticated")
    /\ next.public = (notes.public \/ line.kind = "public")
    /\ next.produces = (notes.produces \/ line.kind = "produces")
    /\ next.role = IF line.kind = "role" THEN line.role ELSE notes.role
    /\ still => /\ alone
                /\ next.transactional <=> (notes.transactional \/ line.kind = "transactional")

LEMMA NotesMore ==
    ASSUME NEW x, NEW h, NEW y, NEW g, NEW line, Grows(x, h, y, g, line),
           NEW B, Bounds(B, h), NEW notes, NEW alone, NotesAre(x, notes, h, B, alone),
           NEW next, NEW still, NotesNext(notes, alone, next, still, line)
    PROVE  NotesAre(y, next, g, B, still)
<1>1. \A kind \in RouteNotes :
         Told(y, kind, g, B) # {} <=> Told(x, kind, h, B) # {} \/ line.kind = kind
    <2> TAKE kind \in RouteNotes
    <2>1. kind \notin Silent
        BY NoteKinds
    <2>2. /\ line.kind = kind => Told(y, kind, g, B) = Told(x, kind, h, B) \union {h}
          /\ line.kind # kind => Told(y, kind, g, B) = Told(x, kind, h, B)
        BY <2>1, ToldMore
    <2> QED BY <2>2
<1>2. next.role = RoleAt(y, Told(y, "role", g, B))
    BY RoleMore DEF NotesAre, NotesNext
<1>3. {"authenticated", "public", "produces", "transactional"} \subseteq RouteNotes
    BY DEF RouteNotes, AuthKinds
<1>4. /\ Told(y, "authenticated", g, B) # {} <=>
            Told(x, "authenticated", h, B) # {} \/ line.kind = "authenticated"
      /\ Told(y, "public", g, B) # {} <=> Told(x, "public", h, B) # {} \/ line.kind = "public"
      /\ Told(y, "produces", g, B) # {} <=>
            Told(x, "produces", h, B) # {} \/ line.kind = "produces"
      /\ Told(y, "transactional", g, B) # {} <=>
            Told(x, "transactional", h, B) # {} \/ line.kind = "transactional"
    BY <1>1, <1>3
<1> QED BY <1>2, <1>4 DEF NotesAre, NotesNext

LEMMA NotesNone ==
    ASSUME NEW x, NEW h, NEW y, NEW g, NEW line, Grows(x, h, y, g, line),
           NEW B, h \in B, NEW notes, NEW alone, ~notes.auth, ~notes.public, ~notes.produces,
           ~notes.transactional, notes.role = NoRole
    PROVE  NotesAre(y, notes, g, B, alone)
<1>1. \A kind \in RouteNotes : Told(y, kind, g, B) = {}
    BY NoteKinds, ToldNothing
<1>2. {"authenticated", "public", "produces", "transactional", "role"} \subseteq RouteNotes
    BY DEF RouteNotes, AuthKinds
<1> QED BY <1>1, <1>2 DEF NotesAre, RoleAt

(* What is awaited and the effect of a line on it.                         *)
Exclusive(p) ==
    /\ ~(p.routeArmed /\ p.taskArmed)
    /\ p.inStruct => ~p.routeArmed /\ ~p.taskArmed

Idle(p, q, line) ==
    /\ line.kind \notin RouteNotes \union TaskKinds \union {"route"}
    /\ p.routeArmed => line.kind = "blank"
    /\ p.taskArmed => line.kind \in {"blank", "store"}
    /\ KeepsDeclared(p, q)

DeclaredEffect(p, q, line) ==
    \/ Noted(p, q, line) \/ RouteAwaited(p, q, line) \/ RouteTaken(p, q, line)
    \/ TaskAwaited(p, q, line) \/ TaskTaken(p, q, line) \/ ServiceTaken(p, q, line)
    \/ Idle(p, q, line)

LEMMA EffectIs ==
    ASSUME NEW p \in ParserState, Exclusive(p), NEW q, NEW line, LineEffect(p, q, line)
    PROVE  Exclusive(q) /\ DeclaredEffect(p, q, line)
<1>0. q \in ParserState
    BY DEF LineEffect
<1>1. CASE p.inStruct
    <2>1. StructEffect(p, q, line) /\ KeepsDeclared(p, q)
        BY <1>1 DEF LineEffect
    <2>2. line.kind \in {"blank", "open", "typeclose", "pick", "field", "rule", "flags",
                         "references"}
        BY <2>1 DEF StructEffect, TypeUnopened, TypeClosed, BodyEffect, Picked, Fielded, Prefixed
    <2>3. ~p.routeArmed /\ ~p.taskArmed
        BY <1>1 DEF Exclusive
    <2>4. line.kind \notin RouteNotes \union TaskKinds \union {"route"}
        BY <2>2 DEF RouteNotes, TaskKinds, AuthKinds
    <2>5. Idle(p, q, line)
        BY <2>1, <2>3, <2>4 DEF Idle
    <2>6. Exclusive(q)
        BY <2>1, <2>3 DEF Exclusive, KeepsDeclared, KeepsRoutes, KeepsTasks
    <2> QED BY <2>5, <2>6 DEF DeclaredEffect
<1>2. CASE ~p.inStruct
    <2>1. TopEffect(p, q, line)
        BY <1>2 DEF LineEffect
    <2>2. CASE TypeOpened(p, q, line)
        <3>1. line.kind \notin RouteNotes \union TaskKinds \union {"route"}
            BY <2>2 DEF TypeOpened, RouteNotes, TaskKinds, AuthKinds
        <3>2. Idle(p, q, line)
            BY <2>2, <3>1 DEF Idle, TypeOpened
        <3>3. Exclusive(q)
            BY <2>2 DEF TypeOpened, Exclusive, KeepsDeclared, KeepsRoutes, KeepsTasks
        <3> QED BY <3>2, <3>3 DEF DeclaredEffect
    <2>3. CASE PassedOver(p, q, line)
        <3>1. Idle(p, q, line)
            BY <2>3 DEF Idle, PassedOver
        <3>2. Exclusive(q)
            BY <2>3 DEF PassedOver, Exclusive, KeepsDeclared, KeepsRoutes, KeepsTasks, KeepsTypes
        <3> QED BY <3>1, <3>2 DEF DeclaredEffect
    <2>4. CASE Noted(p, q, line)
        <3>1. Exclusive(q)
            BY <2>4 DEF Noted, Exclusive, KeepsRoutes, KeepsTasks, KeepsTypes
        <3> QED BY <2>4, <3>1 DEF DeclaredEffect
    <2>5. CASE RouteAwaited(p, q, line) \/ TaskAwaited(p, q, line)
        <3>1. Exclusive(q)
            BY <1>2, <2>5 DEF RouteAwaited, TaskAwaited, Exclusive, KeepsRoutes, KeepsTasks,
                              KeepsTypes
        <3> QED BY <2>5, <3>1 DEF DeclaredEffect
    <2>6. CASE RouteTaken(p, q, line) \/ TaskTaken(p, q, line) \/ ServiceTaken(p, q, line)
        <3>1. Exclusive(q)
            BY <1>2, <2>6 DEF RouteTaken, TaskTaken, ServiceTaken, Exclusive, KeepsRoutes,
                              KeepsTasks, KeepsTypes
        <3> QED BY <2>6, <3>1 DEF DeclaredEffect
    <2> QED BY <2>1, <2>2, <2>3, <2>4, <2>5, <2>6 DEF TopEffect
<1> QED BY <1>1, <1>2, BooleanFields

-----------------------------------------------------------------------------
(* The routes and the tasks.                                               *)
RoutePassed == RouteNotes \union {"blank"}

TaskPassed == RouteNotes \union {"blank", "store"}

RouteNoted(x, p, h) ==
    /\ NotesAre(x, PendingRoute(p), h, Ats(p.routes), p.services = <<>>)
    /\ \A r \in DOMAIN p.routes :
          NotesAre(x, p.routes[r].notes, p.routes[r].at, Ats(p.routes), p.services = <<>>)

RouteBound(x, p, h) ==
    /\ Bound(x, h, {"route"}, RoutePassed, p.routes, p.routeArmed)
    /\ RouteNoted(x, p, h)

TaskBound(x, p, h) == Bound(x, h, TaskKinds, TaskPassed, p.tasks, p.taskArmed)

LEMMA Passings ==
    Passing({"route"}, RoutePassed) /\ Passing(TaskKinds, TaskPassed)
BY DEF Passing, RoutePassed, TaskPassed, RouteNotes, AuthKinds, TaskKinds, Silent

LEMMA AtsAppend ==
    ASSUME NEW T, NEW list \in Seq(T), NEW d
    PROVE  Ats(Append(list, d)) = Ats(list) \union {d.at}
<1> DEFINE more == Append(list, d)
<1>1. /\ \A r \in DOMAIN list : r \in DOMAIN more /\ more[r] = list[r]
      /\ \A r \in DOMAIN more : r \in DOMAIN list \/ r = Len(list) + 1
      /\ Len(list) + 1 \in DOMAIN more /\ more[Len(list) + 1] = d
    OBVIOUS
<1> HIDE DEF more
<1> QED BY <1>1 DEF Ats, more

LEMMA PlacedBounds ==
    ASSUME NEW x, NEW h \in Nat, NEW P, NEW list, Placed(x, h, P, list)
    PROVE  Bounds(Ats(list), h) /\ Ats(list) \subseteq 1..(h - 1)
           /\ \A b \in Ats(list) : x[b].kind \notin P
<1>1. \A r \in DOMAIN list : list[r].at \in 1..(h - 1) /\ x[list[r].at].kind \notin P
    BY DEF Placed
<1>2. Ats(list) \subseteq 1..(h - 1) /\ \A b \in Ats(list) : x[b].kind \notin P
    BY <1>1 DEF Ats
<1> QED BY <1>2 DEF Bounds

LEMMA TasksGrow ==
    ASSUME NEW x, NEW p \in ParserState, NEW h, NEW y, NEW q, NEW g, NEW line,
           Grows(x, h, y, g, line), DeclaredEffect(p, q, line), p.lineno = h,
           Exclusive(p), TaskBound(x, p, h)
    PROVE  TaskBound(y, q, g)
<1>0. p.tasks \in Seq(Decl) \union Seq(RouteDecl) /\ p.taskArmed \in BOOLEAN
    BY DEF ParserState
<1>1. CASE TaskAwaited(p, q, line)
    <2>1. ~p.taskArmed /\ q.taskArmed /\ q.tasks = p.tasks /\ line.kind \in TaskKinds
        BY <1>1 DEF TaskAwaited
    <2>2. Bound(x, h, TaskKinds, TaskPassed, p.tasks, FALSE)
        BY <1>0, <2>1 DEF TaskBound
    <2>3. Bound(y, g, TaskKinds, TaskPassed, p.tasks, TRUE)
        BY <1>0, <2>1, <2>2, BoundArmed, Passings
    <2> QED BY <2>1, <2>3 DEF TaskBound, Bound
<1>2. CASE TaskTaken(p, q, line)
    <2>1. p.taskArmed /\ ~q.taskArmed
          /\ q.tasks = Append(p.tasks, [name |-> line.name, at |-> p.lineno])
        BY <1>2 DEF TaskTaken
    <2>2. Bound(x, h, TaskKinds, TaskPassed, p.tasks, TRUE)
        BY <1>0, <2>1 DEF TaskBound
    <2>3. line.kind \notin TaskKinds /\ line.kind \notin TaskPassed
        BY <1>2 DEF TaskTaken, TaskKinds, TaskPassed, RouteNotes, AuthKinds
    <2>4. \A d : d.at = h => Bound(y, g, TaskKinds, TaskPassed, Append(p.tasks, d), FALSE)
        BY <1>0, <2>2, <2>3, BoundTaken, Passings
    <2>5. Bound(y, g, TaskKinds, TaskPassed, q.tasks, FALSE)
        BY <2>1, <2>4
    <2> QED BY <2>1, <2>5 DEF TaskBound, Bound
<1>3. ASSUME q.tasks = p.tasks, q.taskArmed = p.taskArmed, line.kind \notin TaskKinds,
             p.taskArmed => line.kind \in TaskPassed
      PROVE  TaskBound(y, q, g)
    BY <1>3, BoundKept, Passings DEF TaskBound
<1>4. CASE Noted(p, q, line)
    <2>1. line.kind \in TaskPassed /\ line.kind \notin TaskKinds
        BY <1>4 DEF Noted, TaskPassed, RouteNotes, AuthKinds, TaskKinds
    <2> QED BY <1>3, <1>4, <2>1 DEF Noted, KeepsTasks
<1>5. CASE RouteAwaited(p, q, line)
    <2>1. line.kind \notin TaskKinds /\ ~p.taskArmed
        BY <1>5 DEF RouteAwaited, TaskKinds
    <2> QED BY <1>3, <1>5, <2>1 DEF RouteAwaited, KeepsTasks
<1>6. CASE RouteTaken(p, q, line)
    <2>1. line.kind \notin TaskKinds /\ ~p.taskArmed
        BY <1>6 DEF RouteTaken, TaskKinds, Exclusive
    <2> QED BY <1>3, <1>6, <2>1 DEF RouteTaken, KeepsTasks
<1>7. CASE ServiceTaken(p, q, line)
    <2>1. line.kind \notin TaskKinds /\ ~p.taskArmed
        BY <1>7 DEF ServiceTaken, TaskKinds
    <2> QED BY <1>3, <1>7, <2>1 DEF ServiceTaken, KeepsTasks
<1>8. CASE Idle(p, q, line)
    <2>1. line.kind \notin TaskKinds /\ (p.taskArmed => line.kind \in TaskPassed)
        BY <1>8 DEF Idle, TaskKinds, TaskPassed
    <2> QED BY <1>3, <1>8, <2>1 DEF Idle, KeepsTasks, KeepsDeclared
<1> QED BY <1>1, <1>2, <1>4, <1>5, <1>6, <1>7, <1>8 DEF DeclaredEffect

LEMMA NotesKept ==
    ASSUME NEW x, NEW h, NEW y, NEW g, NEW line, Grows(x, h, y, g, line),
           NEW P, NEW list, Placed(x, h, P, list), NEW alone, NEW still, still => alone,
           \A r \in DOMAIN list : NotesAre(x, list[r].notes, list[r].at, Ats(list), alone)
    PROVE  \A r \in DOMAIN list :
              /\ NotesAre(y, list[r].notes, list[r].at, Ats(list), still)
              /\ NotesAre(y, list[r].notes, list[r].at, Ats(list) \union {h}, still)
<1> TAKE r \in DOMAIN list
<1>1. list[r].at \in 1..h
    <2>1. list[r].at \in 1..(h - 1) /\ h \in Nat
        BY DEF Placed, Grows
    <2> QED BY <2>1
<1>2. /\ NotesAre(y, list[r].notes, list[r].at, Ats(list), alone)
      /\ NotesAre(y, list[r].notes, list[r].at, Ats(list) \union {h}, alone)
    BY <1>1, NotesBefore
<1> QED BY <1>2 DEF NotesAre

(* Every line but the one that a route takes.                              *)
LEMMA RouteNotesGrow ==
    ASSUME NEW x, NEW p \in ParserState, NEW h, NEW y, NEW q \in ParserState, NEW g, NEW line,
           Grows(x, h, y, g, line), Bound(x, h, {"route"}, RoutePassed, p.routes, p.routeArmed),
           RouteNoted(x, p, h), q.routes = p.routes, q.services = <<>> => p.services = <<>>,
           q.auth = (p.auth \/ line.kind = "authenticated"),
           q.public = (p.public \/ line.kind = "public"),
           q.produces = (p.produces \/ line.kind = "produces"),
           q.services = <<>> =>
              (q.transactional <=> (p.transactional \/ line.kind = "transactional")),
           q.role = IF line.kind = "role" THEN line.role ELSE p.role
    PROVE  RouteNoted(y, q, g)
<1> DEFINE B == Ats(p.routes)
           alone == p.services = <<>>
           still == q.services = <<>>
<1>1. h \in Nat /\ Placed(x, h, RoutePassed, p.routes)
    BY DEF Grows, Bound
<1>2. Bounds(B, h)
    BY <1>1, PlacedBounds
<1>3. /\ PendingRoute(p).auth = p.auth /\ PendingRoute(p).public = p.public
      /\ PendingRoute(p).role = p.role /\ PendingRoute(p).produces = p.produces
      /\ PendingRoute(p).transactional = p.transactional
      /\ PendingRoute(q).auth = q.auth /\ PendingRoute(q).public = q.public
      /\ PendingRoute(q).role = q.role /\ PendingRoute(q).produces = q.produces
      /\ PendingRoute(q).transactional = q.transactional
    BY DEF PendingRoute
<1>4. still => alone
    OBVIOUS
<1>5. NotesAre(x, PendingRoute(p), h, B, alone)
    BY DEF RouteNoted
<1> HIDE DEF B
<1>6. NotesAre(y, PendingRoute(q), g, B, still)
    <2>1. NotesNext(PendingRoute(p), alone, PendingRoute(q), still, line)
        BY <1>3, <1>4 DEF NotesNext
    <2> HIDE DEF alone, still
    <2> QED BY <1>2, <1>5, <2>1, NotesMore
<1>7. \A r \in DOMAIN p.routes :
         NotesAre(y, p.routes[r].notes, p.routes[r].at, Ats(p.routes), still)
    BY <1>1, <1>4, NotesKept, ZenonT(60) DEF RouteNoted
<1> QED BY <1>6, <1>7 DEF RouteNoted, B

LEMMA RouteNotesTaken ==
    ASSUME NEW x, NEW p \in ParserState, NEW h, NEW y, NEW q \in ParserState, NEW g, NEW line,
           Grows(x, h, y, g, line), Bound(x, h, {"route"}, RoutePassed, p.routes, p.routeArmed),
           RouteNoted(x, p, h), RouteTaken(p, q, line), p.lineno = h
    PROVE  RouteNoted(y, q, g)
<1> DEFINE B == Ats(p.routes)
           C == B \union {h}
           d == [name |-> line.name, at |-> h, notes |-> PendingRoute(p)]
           alone == p.services = <<>>
<1>1. h \in Nat /\ Placed(x, h, RoutePassed, p.routes)
    BY DEF Grows, Bound
<1>2. q.routes = Append(p.routes, d) /\ q.services = p.services /\ Calm(q) /\ ~q.transactional
    BY DEF RouteTaken
<1>3. p.routes \in Seq(RouteDecl) /\ d.at = h /\ d.notes = PendingRoute(p)
    BY DEF ParserState
<1> HIDE DEF d
<1>4. Ats(q.routes) = C
    BY <1>2, <1>3, AtsAppend
<1>5. /\ \A r \in DOMAIN q.routes : r \in DOMAIN p.routes \/ q.routes[r] = d
      /\ \A r \in DOMAIN p.routes : q.routes[r] = p.routes[r]
    BY <1>2, <1>3
<1>6. NotesAre(y, PendingRoute(q), g, C, alone)
    <2>1. /\ ~PendingRoute(q).auth /\ ~PendingRoute(q).public /\ ~PendingRoute(q).produces
          /\ ~PendingRoute(q).transactional /\ PendingRoute(q).role = NoRole
        BY <1>2 DEF PendingRoute, Calm
    <2>2. h \in C
        OBVIOUS
    <2> HIDE DEF C, alone
    <2> QED BY <2>1, <2>2, NotesNone
<1>7. NotesAre(y, d.notes, d.at, C, alone)
    <2>1. NotesAre(x, d.notes, h, B, alone) /\ h \in 1..h
        BY <1>1, <1>3 DEF RouteNoted, Grows
    <2> HIDE DEF B, alone
    <2> QED BY <1>3, <2>1, NotesBefore
<1>8. \A r \in DOMAIN p.routes :
         NotesAre(y, p.routes[r].notes, p.routes[r].at, C, alone)
    BY <1>1, NotesKept DEF RouteNoted
<1> HIDE DEF C
<1> QED BY <1>2, <1>4, <1>5, <1>6, <1>7, <1>8 DEF RouteNoted

LEMMA RoutesGrow ==
    ASSUME NEW x, NEW p \in ParserState, NEW h, NEW y, NEW q \in ParserState, NEW g, NEW line,
           Grows(x, h, y, g, line), DeclaredEffect(p, q, line), p.lineno = h,
           Exclusive(p), RouteBound(x, p, h)
    PROVE  RouteBound(y, q, g)
<1>0. /\ p.routes \in Seq(Decl) \union Seq(RouteDecl) /\ p.routeArmed \in BOOLEAN
    BY DEF ParserState
<1>1. CASE RouteAwaited(p, q, line)
    <2>1. /\ ~p.routeArmed /\ q.routeArmed /\ q.routes = p.routes /\ line.kind = "route"
          /\ KeepsNotes(p, q) /\ KeepsServices(p, q)
        BY <1>1 DEF RouteAwaited
    <2>2. Bound(x, h, {"route"}, RoutePassed, p.routes, FALSE)
        BY <1>0, <2>1 DEF RouteBound
    <2>3. Bound(y, g, {"route"}, RoutePassed, p.routes, TRUE)
        BY <1>0, <2>1, <2>2, BoundArmed, Passings
    <2>4. RouteNoted(y, q, g)
        BY <2>1, RouteNotesGrow, BooleanFields DEF RouteBound, KeepsNotes, KeepsServices
    <2> QED BY <2>1, <2>3, <2>4 DEF RouteBound, Bound
<1>2. CASE RouteTaken(p, q, line)
    <2>1. p.routeArmed /\ ~q.routeArmed
          /\ q.routes = Append(p.routes, [name |-> line.name, at |-> p.lineno,
                                          notes |-> PendingRoute(p)])
        BY <1>2 DEF RouteTaken
    <2>2. Bound(x, h, {"route"}, RoutePassed, p.routes, TRUE)
        BY <1>0, <2>1 DEF RouteBound
    <2>3. line.kind \notin {"route"} /\ line.kind \notin RoutePassed
        BY <1>2 DEF RouteTaken, RoutePassed, RouteNotes, AuthKinds
    <2>4. \A d : d.at = h => Bound(y, g, {"route"}, RoutePassed, Append(p.routes, d), FALSE)
        BY <1>0, <2>2, <2>3, BoundTaken, Passings
    <2>5. Bound(y, g, {"route"}, RoutePassed, q.routes, FALSE)
        BY <2>1, <2>4
    <2>6. RouteNoted(y, q, g)
        BY <1>2, RouteNotesTaken DEF RouteBound
    <2> QED BY <2>1, <2>5, <2>6 DEF RouteBound, Bound
<1>3. ASSUME KeepsRoutes(p, q), line.kind # "route",
             p.routeArmed => line.kind \in RoutePassed, RouteNoted(y, q, g)
      PROVE  RouteBound(y, q, g)
    <2>1. Bound(y, g, {"route"}, RoutePassed, p.routes, p.routeArmed)
        BY <1>3, BoundKept, Passings DEF RouteBound
    <2> QED BY <1>3, <2>1 DEF RouteBound, KeepsRoutes
<1>4. CASE Noted(p, q, line)
    <2>1. line.kind \in RoutePassed /\ line.kind # "route"
        BY <1>4 DEF Noted, RoutePassed, RouteNotes, AuthKinds
    <2>2. RouteNoted(y, q, g)
        BY <1>4, RouteNotesGrow, BooleanFields DEF RouteBound, Noted, KeepsRoutes
    <2> QED BY <1>3, <1>4, <2>1, <2>2 DEF Noted
<1>5. ASSUME line.kind \notin RouteNotes, KeepsRoutes(p, q), KeepsNotes(p, q),
             q.services = <<>> => KeepsServices(p, q)
      PROVE  RouteNoted(y, q, g)
    <2>1. /\ line.kind # "authenticated" /\ line.kind # "public" /\ line.kind # "role"
          /\ line.kind # "produces" /\ line.kind # "transactional"
        BY <1>5 DEF RouteNotes, AuthKinds
    <2>2. q.services = <<>> => p.services = <<>> /\ q.transactional = p.transactional
        BY <1>5 DEF KeepsServices
    <2>3. /\ q.auth = p.auth /\ q.public = p.public /\ q.produces = p.produces
          /\ q.role = p.role /\ q.routes = p.routes
        BY <1>5 DEF KeepsNotes, KeepsRoutes
    <2> QED BY <2>1, <2>2, <2>3, RouteNotesGrow, BooleanFields DEF RouteBound
<1>6. CASE TaskAwaited(p, q, line) \/ TaskTaken(p, q, line)
    <2>1. line.kind \notin RouteNotes /\ line.kind # "route" /\ ~p.routeArmed
        BY <1>6 DEF TaskAwaited, TaskTaken, RouteNotes, AuthKinds, TaskKinds
    <2>2. KeepsRoutes(p, q) /\ KeepsNotes(p, q) /\ KeepsServices(p, q)
        BY <1>6 DEF TaskAwaited, TaskTaken
    <2> QED BY <1>3, <1>5, <2>1, <2>2
<1>7. CASE ServiceTaken(p, q, line)
    <2>1. line.kind \notin RouteNotes /\ line.kind # "route" /\ ~p.routeArmed
        BY <1>7 DEF ServiceTaken, RouteNotes, AuthKinds
    <2>2. \A d : Append(p.services, d) # <<>>
        <3>1. p.services \in Seq(Decl)
            BY DEF ParserState
        <3> QED BY <3>1
    <2>3. KeepsRoutes(p, q) /\ KeepsNotes(p, q) /\ q.services # <<>>
        BY <1>7, <2>2 DEF ServiceTaken
    <2> QED BY <1>3, <1>5, <2>1, <2>3
<1>8. CASE Idle(p, q, line)
    <2>1. /\ line.kind \notin RouteNotes /\ line.kind # "route"
          /\ p.routeArmed => line.kind \in RoutePassed
        BY <1>8 DEF Idle, RoutePassed
    <2>2. KeepsRoutes(p, q) /\ KeepsNotes(p, q) /\ KeepsServices(p, q)
        BY <1>8 DEF Idle, KeepsDeclared
    <2> QED BY <1>3, <1>5, <2>1, <2>2
<1> QED BY <1>1, <1>2, <1>4, <1>6, <1>7, <1>8 DEF DeclaredEffect

-----------------------------------------------------------------------------
(* The $transactional lines and what each of them is for.                  *)
Scope(x, h, S, B, armed) ==
    /\ S \subseteq 1..(h - 1) /\ B \subseteq 1..(h - 1)
    /\ Cardinality(Marks(x, h, {"transactional"})) = Cardinality(S) + (IF armed THEN 1 ELSE 0)
    /\ \A j \in S : Told(x, "transactional", j, B) # {}
    /\ armed => Told(x, "transactional", h, B) # {}

ScopeFact(h, y, g, S, B) ==
    /\ h \in 1..h /\ S \union {h} \subseteq 1..(g - 1) /\ B \union {h} \subseteq 1..(g - 1)
    /\ Bounds(B, h) /\ Cardinality(S) \in Nat
    /\ Cardinality(S \union {h}) = Cardinality(S) + 1
    /\ \A j \in S : /\ Told(y, "transactional", j, B) # {}
                    /\ Told(y, "transactional", j, B \union {h}) # {}

LEMMA ScopeFacts ==
    ASSUME NEW x, NEW h, NEW y, NEW g, NEW line, Grows(x, h, y, g, line),
           NEW S, NEW B, NEW armed, Scope(x, h, S, B, armed)
    PROVE  ScopeFact(h, y, g, S, B)
<1>1. h \in Nat \ {0} /\ g \in Nat /\ h < g
    BY DEF Grows
<1>2. /\ h \in 1..h /\ h \in 1..(g - 1) /\ 1..(h - 1) \subseteq 1..h
      /\ 1..(h - 1) \subseteq 1..(g - 1) /\ h \notin 1..(h - 1)
    BY <1>1
<1>3. S \subseteq 1..(h - 1) /\ B \subseteq 1..(h - 1)
    BY DEF Scope
<1>4. Bounds(B, h)
    BY <1>1, <1>3 DEF Bounds
<1>5. IsFiniteSet(1..(h - 1))
    BY <1>1, FS_Interval
<1>6. IsFiniteSet(S)
    BY <1>3, <1>5, FS_Subset
<1>7. h \notin S
    BY <1>2, <1>3
<1>8. Cardinality(S) \in Nat /\ Cardinality(S \union {h}) = Cardinality(S) + 1
    BY <1>6, <1>7, FS_CardinalityType, FS_AddElement
<1>9. \A j \in S : /\ Told(y, "transactional", j, B) # {}
                   /\ Told(y, "transactional", j, B \union {h}) # {}
    <2> TAKE j \in S
    <2>1. j \in 1..h
        BY <1>2, <1>3
    <2>2. Told(x, "transactional", j, B) # {}
        BY DEF Scope
    <2> QED BY <2>1, <2>2, ToldBefore
<1>10. S \union {h} \subseteq 1..(g - 1) /\ B \union {h} \subseteq 1..(g - 1)
    BY <1>2, <1>3
<1> QED BY <1>2, <1>4, <1>8, <1>9, <1>10 DEF ScopeFact

LEMMA ScopeKept ==
    ASSUME NEW x, NEW h, NEW y, NEW g, NEW line, Grows(x, h, y, g, line),
           NEW S, NEW B, NEW armed, Scope(x, h, S, B, armed), line.kind # "transactional"
    PROVE  Scope(y, g, S, B, armed)
<1>0. ScopeFact(h, y, g, S, B)
    BY ScopeFacts
<1>1. S \subseteq 1..(g - 1) /\ B \subseteq 1..(g - 1)
    BY <1>0 DEF ScopeFact
<1>2. {"transactional"} \intersect Silent = {} /\ "transactional" \notin Silent
    BY DEF Silent
<1>3. line.kind \notin {"transactional"}
    OBVIOUS
<1>4. Cardinality(Marks(y, g, {"transactional"})) = Cardinality(Marks(x, h, {"transactional"}))
    BY <1>2, <1>3, MarksCounted
<1>5. Bounds(B, h) /\ \A j \in S : Told(y, "transactional", j, B) # {}
    BY <1>0 DEF ScopeFact
<1>6. Told(y, "transactional", g, B) = Told(x, "transactional", h, B)
    BY <1>2, <1>5, ToldMore
<1> QED BY <1>1, <1>4, <1>5, <1>6 DEF Scope

LEMMA ScopeNoted ==
    ASSUME NEW x, NEW h, NEW y, NEW g, NEW line, Grows(x, h, y, g, line),
           NEW S, NEW B, Scope(x, h, S, B, FALSE), line.kind = "transactional"
    PROVE  Scope(y, g, S, B, TRUE)
<1>0. ScopeFact(h, y, g, S, B)
    BY ScopeFacts
<1>1. S \subseteq 1..(g - 1) /\ B \subseteq 1..(g - 1)
    BY <1>0 DEF ScopeFact
<1>2. {"transactional"} \intersect Silent = {} /\ "transactional" \notin Silent
    BY DEF Silent
<1>3. line.kind \in {"transactional"}
    OBVIOUS
<1>4. /\ Cardinality(Marks(y, g, {"transactional"})) =
            Cardinality(Marks(x, h, {"transactional"})) + 1
    BY <1>2, <1>3, MarksCounted
<1>5. Cardinality(Marks(x, h, {"transactional"})) = Cardinality(S) + 0 /\ Cardinality(S) \in Nat
    BY <1>0 DEF Scope, ScopeFact
<1>6. Cardinality(Marks(y, g, {"transactional"})) = Cardinality(S) + 1
    BY <1>4, <1>5
<1>7. Bounds(B, h) /\ \A j \in S : Told(y, "transactional", j, B) # {}
    BY <1>0 DEF ScopeFact
<1>8. Told(y, "transactional", g, B) = Told(x, "transactional", h, B) \union {h}
    BY <1>2, <1>7, ToldMore
<1>9. Told(y, "transactional", g, B) # {}
    BY <1>8
<1> QED BY <1>1, <1>6, <1>7, <1>9 DEF Scope

LEMMA ScopeTaken ==
    ASSUME NEW x, NEW h, NEW y, NEW g, NEW line, Grows(x, h, y, g, line),
           NEW S, NEW B, Scope(x, h, S, B, TRUE), line.kind # "transactional"
    PROVE  Scope(y, g, S \union {h}, B \union {h}, FALSE)
<1> DEFINE T == S \union {h}
           C == B \union {h}
<1>0. ScopeFact(h, y, g, S, B)
    BY ScopeFacts
<1>1. T \subseteq 1..(g - 1) /\ C \subseteq 1..(g - 1)
    BY <1>0 DEF ScopeFact
<1>2. {"transactional"} \intersect Silent = {} /\ line.kind \notin {"transactional"}
    BY DEF Silent
<1>3. Cardinality(Marks(y, g, {"transactional"})) = Cardinality(Marks(x, h, {"transactional"}))
    BY <1>2, MarksCounted
<1>4. Cardinality(S) \in Nat /\ Cardinality(T) = Cardinality(S) + 1
    BY <1>0 DEF ScopeFact
<1>5. Cardinality(Marks(x, h, {"transactional"})) = Cardinality(S) + 1
    BY DEF Scope
<1>6. Cardinality(Marks(y, g, {"transactional"})) = Cardinality(T) + 0
    BY <1>3, <1>4, <1>5
<1>7. \A j \in S : Told(y, "transactional", j, C) # {}
    BY <1>0 DEF ScopeFact
<1>8. Told(y, "transactional", h, C) # {}
    <2>1. h \in 1..h
        BY <1>0 DEF ScopeFact
    <2>2. Told(y, "transactional", h, C) = Told(x, "transactional", h, B)
        BY <2>1, ToldBefore
    <2> QED BY <2>2 DEF Scope
<1>9. \A j \in T : Told(y, "transactional", j, C) # {}
    BY <1>7, <1>8
<1> HIDE DEF T, C
<1>10. Scope(y, g, T, C, FALSE)
    BY <1>1, <1>6, <1>9 DEF Scope
<1> QED BY <1>10 DEF T, C

LEMMA ScopeUnused ==
    ASSUME NEW x, NEW h, NEW y, NEW g, NEW line, Grows(x, h, y, g, line),
           NEW S, NEW B, Scope(x, h, S, B, FALSE), line.kind # "transactional"
    PROVE  Scope(y, g, S, B \union {h}, FALSE)
<1> DEFINE C == B \union {h}
<1>0. ScopeFact(h, y, g, S, B)
    BY ScopeFacts
<1>1. S \subseteq 1..(g - 1) /\ C \subseteq 1..(g - 1)
    BY <1>0 DEF ScopeFact
<1>2. {"transactional"} \intersect Silent = {} /\ line.kind \notin {"transactional"}
    BY DEF Silent
<1>3. Cardinality(Marks(y, g, {"transactional"})) = Cardinality(Marks(x, h, {"transactional"}))
    BY <1>2, MarksCounted
<1>4. \A j \in S : Told(y, "transactional", j, C) # {}
    BY <1>0 DEF ScopeFact
<1> HIDE DEF C
<1>5. Scope(y, g, S, C, FALSE)
    BY <1>1, <1>3, <1>4 DEF Scope
<1> QED BY <1>5 DEF C

ScopedRoutes(routes) == {j \in Ats(routes) : \E r \in DOMAIN routes :
                            routes[r].at = j /\ routes[r].notes.transactional}

Scoped(p) == Ats(p.services) \union ScopedRoutes(p.routes)

ServiceBound(x, p, h) ==
    Scope(x, h, Scoped(p), Ats(p.services) \union Ats(p.routes), p.transactional)

LEMMA ScopedAppend ==
    ASSUME NEW routes \in Seq(RouteDecl), NEW d
    PROVE  ScopedRoutes(Append(routes, d)) =
              IF d.notes.transactional THEN ScopedRoutes(routes) \union {d.at}
              ELSE ScopedRoutes(routes)
<1> DEFINE more == Append(routes, d)
<1>1. /\ \A r \in DOMAIN routes : r \in DOMAIN more /\ more[r] = routes[r]
      /\ \A r \in DOMAIN more : r \in DOMAIN routes \/ more[r] = d
      /\ Len(routes) + 1 \in DOMAIN more /\ more[Len(routes) + 1] = d
    OBVIOUS
<1>2. Ats(more) = Ats(routes) \union {d.at}
    BY AtsAppend
<1> HIDE DEF more
<1>3. \A j : (\E r \in DOMAIN more : more[r].at = j /\ more[r].notes.transactional) <=>
             \/ \E r \in DOMAIN routes : routes[r].at = j /\ routes[r].notes.transactional
             \/ d.at = j /\ d.notes.transactional
    BY <1>1
<1>4. \A j : (\E r \in DOMAIN routes : routes[r].at = j /\ routes[r].notes.transactional)
             => j \in Ats(routes)
    BY DEF Ats
<1> QED BY <1>2, <1>3, <1>4 DEF ScopedRoutes, more

LEMMA ScopeTakenBy ==
    ASSUME NEW x, NEW h, NEW y, NEW g, NEW line, Grows(x, h, y, g, line),
           line.kind # "transactional",
           NEW p \in ParserState, ServiceBound(x, p, h), NEW q \in ParserState, ~q.transactional,
           Scoped(q) = IF p.transactional THEN Scoped(p) \union {h} ELSE Scoped(p),
           Ats(q.services) \union Ats(q.routes) = (Ats(p.services) \union Ats(p.routes)) \union {h}
    PROVE  ServiceBound(y, q, g)
<1> DEFINE S == Scoped(p)
           B == Ats(p.services) \union Ats(p.routes)
<1>1. p.transactional \in BOOLEAN /\ q.transactional = FALSE
    BY BooleanFields
<1>2. Scope(x, h, S, B, p.transactional)
    BY DEF ServiceBound
<1>3. Scoped(q) = IF p.transactional THEN S \union {h} ELSE S
    OBVIOUS
<1>4. Ats(q.services) \union Ats(q.routes) = B \union {h}
    OBVIOUS
<1> HIDE DEF S, B
<1>5. CASE p.transactional
    <2>1. Scope(x, h, S, B, TRUE)
        BY <1>1, <1>2, <1>5
    <2>2. Scope(y, g, S \union {h}, B \union {h}, FALSE)
        BY <2>1, ScopeTaken
    <2> QED BY <1>1, <1>3, <1>4, <1>5, <2>2 DEF ServiceBound
<1>6. CASE ~p.transactional
    <2>1. Scope(x, h, S, B, FALSE)
        BY <1>1, <1>2, <1>6
    <2>2. Scope(y, g, S, B \union {h}, FALSE)
        BY <2>1, ScopeUnused
    <2> QED BY <1>1, <1>3, <1>4, <1>6, <2>2 DEF ServiceBound
<1> QED BY <1>5, <1>6

LEMMA ServicesGrow ==
    ASSUME NEW x, NEW p \in ParserState, NEW h, NEW y, NEW q \in ParserState, NEW g, NEW line,
           Grows(x, h, y, g, line), DeclaredEffect(p, q, line), p.lineno = h,
           ServiceBound(x, p, h)
    PROVE  ServiceBound(y, q, g)
<1>0. p.transactional \in BOOLEAN /\ q.transactional \in BOOLEAN
    BY BooleanFields
<1>1. ASSUME q.services = p.services, q.routes = p.routes, q.transactional = p.transactional,
             line.kind # "transactional"
      PROVE  ServiceBound(y, q, g)
    BY <1>1, ScopeKept DEF ServiceBound, Scoped
<1>2. CASE Noted(p, q, line) /\ line.kind # "transactional"
    <2>1. /\ q.services = p.services /\ q.routes = p.routes
          /\ q.transactional = p.transactional
        BY <1>0, <1>2 DEF Noted, KeepsRoutes
    <2> QED BY <1>1, <1>2, <2>1
<1>3. CASE Noted(p, q, line) /\ line.kind = "transactional"
    <2>1. /\ q.services = p.services /\ q.routes = p.routes
          /\ ~p.transactional /\ q.transactional
        BY <1>0, <1>3 DEF Noted, KeepsRoutes
    <2>2. p.transactional = FALSE /\ q.transactional = TRUE
        BY <1>0, <2>1
    <2> DEFINE S == Scoped(p)
               B == Ats(p.services) \union Ats(p.routes)
    <2>3. Scoped(q) = S /\ Ats(q.services) \union Ats(q.routes) = B
        BY <2>1 DEF Scoped
    <2> HIDE DEF S, B
    <2>4. Scope(x, h, S, B, FALSE)
        BY <2>2 DEF ServiceBound, S, B
    <2>5. Scope(y, g, S, B, TRUE)
        BY <1>3, <2>4, ScopeNoted
    <2> QED BY <2>2, <2>3, <2>5 DEF ServiceBound
<1>4. CASE RouteTaken(p, q, line)
    <2> DEFINE d == [name |-> line.name, at |-> h, notes |-> PendingRoute(p)]
    <2>1. /\ q.services = p.services /\ q.routes = Append(p.routes, d) /\ ~q.transactional
          /\ line.kind # "transactional"
        BY <1>4 DEF RouteTaken
    <2>2. d.at = h /\ d.notes.transactional = p.transactional /\ p.routes \in Seq(RouteDecl)
        BY DEF PendingRoute, ParserState
    <2> HIDE DEF d
    <2>3. Ats(q.routes) = Ats(p.routes) \union {h}
        BY <2>1, <2>2, AtsAppend
    <2>4. ScopedRoutes(q.routes) = IF p.transactional THEN ScopedRoutes(p.routes) \union {h}
                                   ELSE ScopedRoutes(p.routes)
        BY <2>1, <2>2, ScopedAppend
    <2>5. /\ Scoped(q) = IF p.transactional THEN Scoped(p) \union {h} ELSE Scoped(p)
          /\ Ats(q.services) \union Ats(q.routes) = (Ats(p.services) \union Ats(p.routes)) \union {h}
        BY <2>1, <2>3, <2>4 DEF Scoped
    <2> QED BY <2>1, <2>5, ScopeTakenBy
<1>5. CASE ServiceTaken(p, q, line)
    <2> DEFINE d == [name |-> line.name, at |-> h]
    <2>1. /\ q.services = Append(p.services, d) /\ q.routes = p.routes /\ ~q.transactional
          /\ line.kind # "transactional" /\ p.transactional
        BY <1>5 DEF ServiceTaken, KeepsRoutes
    <2>2. d.at = h /\ p.services \in Seq(Decl)
        BY DEF ParserState
    <2> HIDE DEF d
    <2>3. Ats(q.services) = Ats(p.services) \union {h}
        BY <2>1, <2>2, AtsAppend
    <2>4. /\ Scoped(q) = IF p.transactional THEN Scoped(p) \union {h} ELSE Scoped(p)
          /\ Ats(q.services) \union Ats(q.routes) = (Ats(p.services) \union Ats(p.routes)) \union {h}
        BY <2>1, <2>3 DEF Scoped
    <2> QED BY <2>1, <2>4, ScopeTakenBy
<1>6. CASE RouteAwaited(p, q, line)
    BY <1>1, <1>6 DEF RouteAwaited, KeepsServices
<1>7. CASE TaskAwaited(p, q, line)
    BY <1>1, <1>7 DEF TaskAwaited, KeepsServices, KeepsRoutes, TaskKinds
<1>8. CASE TaskTaken(p, q, line)
    BY <1>1, <1>8 DEF TaskTaken, KeepsServices, KeepsRoutes
<1>9. CASE Idle(p, q, line)
    <2>1. line.kind # "transactional"
        BY <1>9 DEF Idle, RouteNotes
    <2> QED BY <1>1, <1>9, <2>1 DEF Idle, KeepsDeclared, KeepsServices, KeepsRoutes
<1> QED BY <1>2, <1>3, <1>4, <1>5, <1>6, <1>7, <1>8, <1>9 DEF DeclaredEffect

-----------------------------------------------------------------------------
(* The fields of the types and what is written above them.                *)
StartKinds == {"open", "pick", "field"}

Starts(x, h) == Marks(x, h, StartKinds)

FlagsOf(x, S) == UNION {x[i].flags : i \in S}

RulesOf(x, S) == {x[i].rule : i \in S}

PrefixesAre(x, flags, rules, references, j, B) ==
    /\ flags = FlagsOf(x, Told(x, "flags", j, B))
    /\ rules = RulesOf(x, Told(x, "rule", j, B))
    /\ references <=> Told(x, "references", j, B) # {}

FieldIsBound(x, e, B) ==
    x[e.at].kind = "field" =>
       \E flags : /\ e.flags = x[e.at].flags \union flags
                  /\ PrefixesAre(x, flags, e.rules, e.references, e.at, B)

AllFields(list) == UNION {{list[t].fields[f] : f \in DOMAIN list[t].fields} : t \in DOMAIN list}

FieldsBound(x, list, h) ==
    \A e \in AllFields(list) : e.at \in 1..(h - 1) /\ FieldIsBound(x, e, Starts(x, h))

InBody(p) == p.inStruct /\ ~p.needOpen

Pending(x, p, h) ==
    IF InBody(p) THEN PrefixesAre(x, p.pending, p.rules, p.references, h, Starts(x, h))
    ELSE p.pending = {} /\ p.rules = {} /\ ~p.references

TypeBound(x, p, h) == FieldsBound(x, p.types, h) /\ Pending(x, p, h)

LEMMA PrefixesBefore ==
    ASSUME NEW x, NEW h, NEW y, NEW g, NEW line, Grows(x, h, y, g, line), NEW B, NEW j \in 1..h,
           NEW flags, NEW rules, NEW references, PrefixesAre(x, flags, rules, references, j, B)
    PROVE  /\ PrefixesAre(y, flags, rules, references, j, B)
           /\ PrefixesAre(y, flags, rules, references, j, B \union {h})
<1>1. \A kind : /\ Told(y, kind, j, B) = Told(x, kind, j, B)
                /\ Told(y, kind, j, B \union {h}) = Told(x, kind, j, B)
                /\ \A i \in Told(x, kind, j, B) : y[i] = x[i]
    BY ToldBefore
<1>2. FlagsOf(y, Told(x, "flags", j, B)) = FlagsOf(x, Told(x, "flags", j, B))
    BY <1>1 DEF FlagsOf
<1>3. RulesOf(y, Told(x, "rule", j, B)) = RulesOf(x, Told(x, "rule", j, B))
    BY <1>1 DEF RulesOf
<1> QED BY <1>1, <1>2, <1>3 DEF PrefixesAre

PrefixesNext(flags, rules, references, moreFlags, moreRules, moreReferences, line) ==
    /\ moreFlags = IF line.kind = "flags" THEN flags \union line.flags ELSE flags
    /\ moreRules = IF line.kind = "rule" THEN rules \union {line.rule} ELSE rules
    /\ moreReferences <=> (references \/ line.kind = "references")

LEMMA PrefixesMore ==
    ASSUME NEW x, NEW h, NEW y, NEW g, NEW line, Grows(x, h, y, g, line), NEW B, Bounds(B, h),
           NEW flags, NEW rules, NEW references, PrefixesAre(x, flags, rules, references, h, B),
           NEW moreFlags, NEW moreRules, NEW moreReferences,
           PrefixesNext(flags, rules, references, moreFlags, moreRules, moreReferences, line)
    PROVE  PrefixesAre(y, moreFlags, moreRules, moreReferences, g, B)
<1>1. "flags" \notin Silent /\ "rule" \notin Silent /\ "references" \notin Silent
    BY DEF Silent
<1>2. \A kind : kind \notin Silent =>
         /\ line.kind = kind => Told(y, kind, g, B) = Told(x, kind, h, B) \union {h}
         /\ line.kind # kind => Told(y, kind, g, B) = Told(x, kind, h, B)
         /\ \A i \in Told(x, kind, h, B) : y[i] = x[i]
    BY ToldMore
<1>3. line.kind \notin Silent => y[h] = line
    BY LineStays
<1>4. moreFlags = FlagsOf(y, Told(y, "flags", g, B))
    <2> DEFINE S == Told(x, "flags", h, B)
               T == Told(y, "flags", g, B)
    <2>1. flags = FlagsOf(x, S)
        BY DEF PrefixesAre
    <2>2. /\ line.kind = "flags" => T = S \union {h} /\ y[h] = line
          /\ line.kind # "flags" => T = S
          /\ \A i \in S : y[i] = x[i]
        BY <1>1, <1>2, <1>3
    <2> HIDE DEF S, T
    <2>3. FlagsOf(y, S) = FlagsOf(x, S)
        BY <2>2 DEF FlagsOf
    <2>4. FlagsOf(y, S \union {h}) = FlagsOf(y, S) \union y[h].flags
        BY DEF FlagsOf
    <2>5. moreFlags = IF line.kind = "flags" THEN flags \union line.flags ELSE flags
        BY DEF PrefixesNext
    <2>6. moreFlags = FlagsOf(y, T)
        BY <2>1, <2>2, <2>3, <2>4, <2>5
    <2> QED BY <2>6 DEF T
<1>5. moreRules = RulesOf(y, Told(y, "rule", g, B))
    <2> DEFINE S == Told(x, "rule", h, B)
               T == Told(y, "rule", g, B)
    <2>1. rules = RulesOf(x, S)
        BY DEF PrefixesAre
    <2>2. /\ line.kind = "rule" => T = S \union {h} /\ y[h] = line
          /\ line.kind # "rule" => T = S
          /\ \A i \in S : y[i] = x[i]
        BY <1>1, <1>2, <1>3
    <2> HIDE DEF S, T
    <2>3. RulesOf(y, S) = RulesOf(x, S)
        BY <2>2 DEF RulesOf
    <2>4. RulesOf(y, S \union {h}) = RulesOf(y, S) \union {y[h].rule}
        BY DEF RulesOf
    <2>5. moreRules = IF line.kind = "rule" THEN rules \union {line.rule} ELSE rules
        BY DEF PrefixesNext
    <2>6. moreRules = RulesOf(y, T)
        BY <2>1, <2>2, <2>3, <2>4, <2>5
    <2> QED BY <2>6 DEF T
<1>6. moreReferences <=> Told(y, "references", g, B) # {}
    <2>1. moreReferences <=> (references \/ line.kind = "references")
        BY DEF PrefixesNext
    <2>2. references <=> Told(x, "references", h, B) # {}
        BY DEF PrefixesAre
    <2>3. /\ line.kind = "references" =>
                Told(y, "references", g, B) = Told(x, "references", h, B) \union {h}
          /\ line.kind # "references" =>
                Told(y, "references", g, B) = Told(x, "references", h, B)
        BY <1>1, <1>2
    <2> QED BY <2>1, <2>2, <2>3
<1> QED BY <1>4, <1>5, <1>6 DEF PrefixesAre

LEMMA PrefixesNone ==
    ASSUME NEW x, NEW h, NEW y, NEW g, NEW line, Grows(x, h, y, g, line), NEW B, h \in B,
           NEW references, ~references
    PROVE  PrefixesAre(y, {}, {}, references, g, B)
<1>1. "flags" \notin Silent /\ "rule" \notin Silent /\ "references" \notin Silent
    BY DEF Silent
<1>2. \A kind : kind \notin Silent => Told(y, kind, g, B) = {}
    BY ToldNothing
<1>3. /\ Told(y, "flags", g, B) = {} /\ Told(y, "rule", g, B) = {}
      /\ Told(y, "references", g, B) = {}
    BY <1>1, <1>2
<1> QED BY <1>3 DEF PrefixesAre, FlagsOf, RulesOf

LEMMA StartsGrow ==
    ASSUME NEW x, NEW h, NEW y, NEW g, NEW line, Grows(x, h, y, g, line)
    PROVE  /\ line.kind \in StartKinds => Starts(y, g) = Starts(x, h) \union {h}
           /\ line.kind \notin StartKinds => Starts(y, g) = Starts(x, h)
           /\ Bounds(Starts(x, h), h)
<1>1. StartKinds \intersect Silent = {}
    BY DEF StartKinds, Silent
<1>2. Bounds(Starts(x, h), h)
    BY DEF Bounds, Starts, Marks, Grows
<1> QED BY <1>1, <1>2, MarksGrow DEF Starts

LEMMA FieldKept ==
    ASSUME NEW x, NEW h, NEW y, NEW g, NEW line, Grows(x, h, y, g, line),
           NEW e, e.at \in 1..(h - 1), FieldIsBound(x, e, Starts(x, h))
    PROVE  e.at \in 1..(g - 1) /\ FieldIsBound(y, e, Starts(y, g))
<1> DEFINE j == e.at
<1>1. h \in Nat /\ g \in Nat /\ h < g
    BY DEF Grows
<1>2. j \in 1..h /\ j \in 1..(g - 1) /\ y[j] = x[j]
    BY <1>1 DEF Grows
<1>3. ASSUME y[j].kind = "field"
      PROVE  \E flags : /\ e.flags = y[j].flags \union flags
                        /\ PrefixesAre(y, flags, e.rules, e.references, j, Starts(y, g))
    <2>1. PICK flags : /\ e.flags = x[j].flags \union flags
                       /\ PrefixesAre(x, flags, e.rules, e.references, j, Starts(x, h))
        BY <1>2, <1>3 DEF FieldIsBound
    <2>2. /\ PrefixesAre(y, flags, e.rules, e.references, j, Starts(x, h))
          /\ PrefixesAre(y, flags, e.rules, e.references, j, Starts(x, h) \union {h})
        BY <1>2, <2>1, PrefixesBefore
    <2>3. Starts(y, g) = Starts(x, h) \/ Starts(y, g) = Starts(x, h) \union {h}
        BY StartsGrow
    <2> QED BY <1>2, <2>1, <2>2, <2>3
<1> QED BY <1>2, <1>3 DEF FieldIsBound

LEMMA FieldsKept ==
    ASSUME NEW x, NEW h, NEW y, NEW g, NEW line, Grows(x, h, y, g, line),
           NEW list, FieldsBound(x, list, h)
    PROVE  FieldsBound(y, list, g)
BY FieldKept DEF FieldsBound

LEMMA InAllFields ==
    ASSUME NEW list, NEW t \in DOMAIN list, NEW f \in DOMAIN list[t].fields
    PROVE  list[t].fields[f] \in AllFields(list)
BY DEF AllFields

LEMMA FieldsExtended ==
    ASSUME NEW list \in Seq(TypeDecl), list # <<>>, NEW e
    PROVE  AllFields(Extended(list, e)) \subseteq AllFields(list) \union {e}
<1> DEFINE more == Extended(list, e)
           n == Len(list)
           fields == list[n].fields
<1>0. n \in DOMAIN list /\ list[n] \in TypeDecl
    OBVIOUS
<1>1. n \in DOMAIN list /\ fields \in Seq(FieldDecl)
    <2> HIDE DEF n
    <2> QED BY <1>0 DEF TypeDecl
<1>2. DOMAIN more = DOMAIN list /\ \A t \in DOMAIN list : t # n => more[t] = list[t]
    BY DEF Extended
<1>3. more[n].fields = Append(fields, e)
    <2> HIDE DEF n
    <2>1. DOMAIN list[n] = {"name", "fields", "json"}
        BY <1>0 DEF TypeDecl
    <2>2. more = [list EXCEPT ![n] = [list[n] EXCEPT !.fields = Append(fields, e)]]
        BY DEF Extended, n
    <2> HIDE DEF more
    <2> QED BY <1>0, <2>1, <2>2
<1>4. \A f \in DOMAIN Append(fields, e) :
         Append(fields, e)[f] = e \/ (f \in DOMAIN fields /\ Append(fields, e)[f] = fields[f])
    BY <1>1
<1> HIDE DEF more, n
<1>5. ASSUME NEW t \in DOMAIN more, NEW f \in DOMAIN more[t].fields
      PROVE  more[t].fields[f] \in AllFields(list) \union {e}
    <2>1. CASE t = n
        <3>1. f \in DOMAIN Append(fields, e) /\ more[t].fields[f] = Append(fields, e)[f]
            BY <1>3, <1>5, <2>1
        <3>2. CASE Append(fields, e)[f] = e
            BY <3>1, <3>2
        <3>3. CASE f \in DOMAIN fields /\ Append(fields, e)[f] = fields[f]
            <4>1. fields[f] \in AllFields(list)
                BY <1>1, <3>3, InAllFields
            <4> QED BY <3>1, <3>3, <4>1
        <3> HIDE DEF fields
        <3> QED BY <1>4, <3>1, <3>2, <3>3
    <2>2. CASE t # n
        <3>1. more[t] = list[t] /\ t \in DOMAIN list
            BY <1>2, <1>5, <2>2
        <3>2. f \in DOMAIN list[t].fields
            BY <1>5, <3>1
        <3> QED BY <3>1, <3>2, InAllFields
    <2> QED BY <2>1, <2>2
<1>6. \A z \in AllFields(more) : \E t \in DOMAIN more : \E f \in DOMAIN more[t].fields :
         z = more[t].fields[f]
    BY DEF AllFields
<1> QED BY <1>5, <1>6 DEF more

LEMMA FieldsOpened ==
    ASSUME NEW list \in Seq(TypeDecl), NEW e, e.fields = <<>>
    PROVE  AllFields(Append(list, e)) = AllFields(list)
<1> DEFINE more == Append(list, e)
<1>1. /\ \A t \in DOMAIN list : t \in DOMAIN more /\ more[t] = list[t]
      /\ \A t \in DOMAIN more : t \in DOMAIN list \/ more[t] = e
    OBVIOUS
<1>2. DOMAIN e.fields = {}
    OBVIOUS
<1> HIDE DEF more
<1> QED BY <1>1, <1>2 DEF AllFields, more

LEMMA FieldAdded ==
    ASSUME NEW x, NEW h, NEW y, NEW g, NEW line, Grows(x, h, y, g, line),
           NEW list \in Seq(TypeDecl), list # <<>>, FieldsBound(x, list, h),
           NEW e, e.at = h, FieldIsBound(y, e, Starts(y, g))
    PROVE  FieldsBound(y, Extended(list, e), g)
<1>1. FieldsBound(y, list, g)
    BY FieldsKept
<1>2. h \in 1..(g - 1)
    BY DEF Grows
<1>3. AllFields(Extended(list, e)) \subseteq AllFields(list) \union {e}
    BY FieldsExtended
<1> QED BY <1>1, <1>2, <1>3 DEF FieldsBound

LEMMA PickedGrow ==
    ASSUME NEW x, NEW p \in ParserState, p.types # <<>>, NEW h, NEW y, NEW q \in ParserState,
           NEW g, NEW line, Grows(x, h, y, g, line), p.lineno = h, TypeBound(x, p, h),
           InBody(q), Picked(p, q, line)
    PROVE  TypeBound(y, q, g)
<1> DEFINE e == [name |-> line.name, at |-> h, flags |-> {}, rules |-> {}, references |-> FALSE]
<1>1. q.types = Extended(p.types, e) /\ KeepsPending(p, q) /\ line.kind = "pick"
    BY DEF Picked
<1>2. p.types \in Seq(TypeDecl) /\ e.at = h
    BY DEF ParserState
<1> HIDE DEF e
<1>3. y[h] = line
    BY <1>1, LineStays DEF Silent
<1>4. FieldIsBound(y, e, Starts(y, g))
    BY <1>1, <1>2, <1>3 DEF FieldIsBound
<1>5. FieldsBound(y, q.types, g)
    BY <1>1, <1>2, <1>4, FieldAdded DEF TypeBound
<1>6. h \in Starts(y, g)
    BY <1>1, StartsGrow DEF StartKinds
<1>7. q.pending = {} /\ q.rules = {} /\ ~q.references
    BY <1>1 DEF Picked, KeepsPending
<1>8. PrefixesAre(y, {}, {}, q.references, g, Starts(y, g))
    BY <1>6, <1>7, PrefixesNone
<1> QED BY <1>5, <1>7, <1>8 DEF TypeBound, Pending

LEMMA FieldedGrow ==
    ASSUME NEW x, NEW p \in ParserState, p.types # <<>>, NEW h, NEW y, NEW q \in ParserState,
           NEW g, NEW line, Grows(x, h, y, g, line), p.lineno = h, TypeBound(x, p, h),
           InBody(p), InBody(q), Fielded(p, q, line)
    PROVE  TypeBound(y, q, g)
<1> DEFINE e == [name |-> line.name, at |-> h, flags |-> line.flags \union p.pending,
                 rules |-> p.rules, references |-> p.references]
<1>1. /\ q.types = Extended(p.types, e) /\ line.kind = "field"
      /\ q.pending = {} /\ q.rules = {} /\ ~q.references
    BY DEF Fielded
<1>2. /\ p.types \in Seq(TypeDecl) /\ e.at = h /\ e.flags = line.flags \union p.pending
      /\ e.rules = p.rules /\ e.references = p.references
    BY DEF ParserState
<1> HIDE DEF e
<1>3. y[h] = line /\ Starts(y, g) = Starts(x, h) \union {h} /\ h \in 1..h
    <2>1. y[h] = line
        BY <1>1, LineStays DEF Silent
    <2>2. Starts(y, g) = Starts(x, h) \union {h}
        BY <1>1, StartsGrow DEF StartKinds
    <2>3. h \in 1..h
        BY DEF Grows
    <2> QED BY <2>1, <2>2, <2>3
<1>4. PrefixesAre(x, p.pending, p.rules, p.references, h, Starts(x, h))
    BY DEF TypeBound, Pending
<1>5. PrefixesAre(y, p.pending, p.rules, p.references, h, Starts(y, g))
    BY <1>3, <1>4, PrefixesBefore
<1>6. FieldIsBound(y, e, Starts(y, g))
    BY <1>2, <1>3, <1>5 DEF FieldIsBound
<1>7. FieldsBound(y, q.types, g)
    BY <1>1, <1>2, <1>6, FieldAdded DEF TypeBound
<1>8. PrefixesAre(y, {}, {}, q.references, g, Starts(y, g))
    BY <1>1, <1>3, PrefixesNone
<1> QED BY <1>1, <1>7, <1>8 DEF TypeBound, Pending

LEMMA TypesGrow ==
    ASSUME NEW x, NEW p \in ParserState, p.inStruct => p.types # <<>>, NEW h, NEW y, NEW q,
           NEW g, NEW line, Grows(x, h, y, g, line), LineEffect(p, q, line), p.lineno = h,
           TypeBound(x, p, h)
    PROVE  TypeBound(y, q, g)
<1>0. q \in ParserState /\ p.types \in Seq(TypeDecl) /\ FieldsBound(x, p.types, h)
    BY DEF LineEffect, ParserState, TypeBound
<1>1. FieldsBound(y, p.types, g)
    BY <1>0, FieldsKept
<1>2. ASSUME ~InBody(p), ~InBody(q), q.pending = {} \/ q.pending = p.pending,
             q.rules = p.rules, q.references = p.references
      PROVE  Pending(y, q, g)
    BY <1>2 DEF TypeBound, Pending
<1>3. CASE ~p.inStruct
    <2>1. TopEffect(p, q, line) /\ ~InBody(p)
        BY <1>3 DEF LineEffect, InBody
    <2>2. TypeOpened(p, q, line) \/ KeepsTypes(p, q)
        BY <2>1 DEF TopEffect, Noted, RouteAwaited, RouteTaken, TaskAwaited, TaskTaken,
                    ServiceTaken, PassedOver
    <2>3. CASE TypeOpened(p, q, line)
        <3> DEFINE e == [name |-> line.name, fields |-> <<>>, json |-> line.kind = "json"]
        <3>1. q.types = Append(p.types, e) /\ e.fields = <<>>
            BY <2>3 DEF TypeOpened
        <3> HIDE DEF e
        <3>2. AllFields(q.types) = AllFields(p.types)
            BY <1>0, <3>1, FieldsOpened
        <3>3. Pending(y, q, g)
            BY <1>2, <2>1, <2>3 DEF TypeOpened, InBody
        <3> QED BY <1>1, <3>2, <3>3 DEF TypeBound, FieldsBound
    <2>4. CASE KeepsTypes(p, q)
        <3>1. Pending(y, q, g)
            BY <1>2, <2>1, <2>4 DEF KeepsTypes, KeepsPending, InBody
        <3> QED BY <1>1, <2>4, <3>1 DEF TypeBound, KeepsTypes
    <2> QED BY <2>2, <2>3, <2>4
<1>4. CASE p.inStruct
    <2>0. StructEffect(p, q, line)
        BY <1>4 DEF LineEffect
    <2>1. ASSUME InBody(p), InBody(q), line.kind \notin StartKinds, q.types = p.types,
                 PrefixesNext(p.pending, p.rules, p.references, q.pending, q.rules,
                              q.references, line)
          PROVE  TypeBound(y, q, g)
        <3>1. PrefixesAre(x, p.pending, p.rules, p.references, h, Starts(x, h))
            BY <2>1 DEF TypeBound, Pending
        <3>2. Starts(y, g) = Starts(x, h) /\ Bounds(Starts(x, h), h)
            BY <2>1, StartsGrow
        <3>3. PrefixesAre(y, q.pending, q.rules, q.references, g, Starts(y, g))
            BY <2>1, <3>1, <3>2, PrefixesMore
        <3> QED BY <1>1, <2>1, <3>3 DEF TypeBound, Pending
    <2>2. CASE line.kind = "blank" /\ KeepsTypes(p, q)
        <3>1. CASE InBody(p)
            <4>1. InBody(q) /\ q.types = p.types /\ line.kind \notin StartKinds
                BY <2>2, <3>1 DEF KeepsTypes, InBody, StartKinds
            <4>2. PrefixesNext(p.pending, p.rules, p.references, q.pending, q.rules,
                               q.references, line)
                BY <2>2 DEF KeepsTypes, KeepsPending, PrefixesNext
            <4> QED BY <2>1, <3>1, <4>1, <4>2
        <3>2. CASE ~InBody(p)
            <4>1. Pending(y, q, g)
                BY <1>2, <2>2, <3>2 DEF KeepsTypes, KeepsPending, InBody
            <4> QED BY <1>1, <2>2, <4>1 DEF TypeBound, KeepsTypes
        <3> QED BY <3>1, <3>2
    <2>3. CASE TypeUnopened(p, q, line)
        <3>1. /\ ~InBody(p) /\ InBody(q) /\ q.types = p.types /\ line.kind \in StartKinds
              /\ KeepsPending(p, q)
            BY <1>4, <2>3 DEF TypeUnopened, InBody, StartKinds
        <3>2. q.pending = {} /\ q.rules = {} /\ ~q.references
            BY <3>1 DEF TypeBound, Pending, KeepsPending
        <3>3. h \in Starts(y, g)
            BY <3>1, StartsGrow
        <3>4. PrefixesAre(y, {}, {}, q.references, g, Starts(y, g))
            BY <3>2, <3>3, PrefixesNone
        <3> QED BY <1>1, <3>1, <3>2, <3>4 DEF TypeBound, Pending
    <2>4. CASE TypeClosed(p, q, line)
        <3>1. Pending(y, q, g)
            BY <2>4 DEF TypeClosed, Pending, InBody, KeepsPending
        <3> QED BY <1>1, <2>4, <3>1 DEF TypeBound, TypeClosed
    <2>5. CASE BodyEffect(p, q, line)
        <3>1. InBody(p) /\ InBody(q)
            BY <2>5 DEF BodyEffect, InBody
        <3>2. CASE Picked(p, q, line)
            BY <1>0, <1>4, <3>1, <3>2, PickedGrow
        <3>3. CASE Fielded(p, q, line)
            BY <1>0, <1>4, <3>1, <3>3, FieldedGrow
        <3>4. CASE Prefixed(p, q, line)
            <4>1. line.kind \notin StartKinds /\ q.types = p.types
                BY <3>4 DEF Prefixed, StartKinds
            <4>2. PrefixesNext(p.pending, p.rules, p.references, q.pending, q.rules,
                               q.references, line)
                BY <3>4 DEF Prefixed, PrefixesNext
            <4> QED BY <2>1, <3>1, <4>1, <4>2
        <3> QED BY <2>5, <3>2, <3>3, <3>4 DEF BodyEffect
    <2> QED BY <2>0, <2>2, <2>3, <2>4, <2>5 DEF StructEffect
<1> QED BY <1>3, <1>4, BooleanFields

-----------------------------------------------------------------------------
(* The invariant of the reading, of the lines that the state stands for.   *)
LineParts(x, p, h) ==
    /\ Exclusive(p) /\ RouteBound(x, p, h) /\ TaskBound(x, p, h)
    /\ ServiceBound(x, p, h) /\ TypeBound(x, p, h)

LEMMA PartsGrow ==
    ASSUME NEW x, NEW p \in ParserState, p.inStruct => p.types # <<>>, NEW h, NEW y, NEW q,
           NEW g, NEW line, Grows(x, h, y, g, line), LineEffect(p, q, line), p.lineno = h,
           LineParts(x, p, h)
    PROVE  LineParts(y, q, g)
<1>1. q \in ParserState /\ Exclusive(p)
    BY DEF LineEffect, LineParts
<1>2. Exclusive(q) /\ DeclaredEffect(p, q, line)
    BY <1>1, EffectIs
<1>3. RouteBound(y, q, g)
    BY <1>1, <1>2, RoutesGrow DEF LineParts
<1>4. TaskBound(y, q, g)
    BY <1>1, <1>2, TasksGrow DEF LineParts
<1>5. ServiceBound(y, q, g)
    BY <1>1, <1>2, ServicesGrow DEF LineParts
<1>6. TypeBound(y, q, g)
    BY TypesGrow DEF LineParts
<1> QED BY <1>2, <1>3, <1>4, <1>5, <1>6 DEF LineParts

LEMMA PartsKept ==
    ASSUME NEW p, NEW q, KeepsDeclared(p, q), KeepsTypes(p, q), NEW x, NEW h, LineParts(x, p, h)
    PROVE  LineParts(x, q, h)
<1>1. /\ q.routes = p.routes /\ q.routeArmed = p.routeArmed
      /\ q.services = p.services /\ q.transactional = p.transactional
      /\ q.tasks = p.tasks /\ q.taskArmed = p.taskArmed
      /\ q.inStruct = p.inStruct /\ q.needOpen = p.needOpen /\ q.types = p.types
      /\ q.pending = p.pending /\ q.rules = p.rules /\ q.references = p.references
    BY DEF KeepsDeclared, KeepsTypes, KeepsRoutes, KeepsServices, KeepsTasks, KeepsPending
<1>2. PendingRoute(q) = PendingRoute(p)
    BY <1>1 DEF KeepsDeclared, KeepsNotes, PendingRoute
<1>3. Exclusive(q)
    BY <1>1 DEF LineParts, Exclusive
<1>4. RouteBound(x, q, h)
    BY <1>1, <1>2 DEF LineParts, RouteBound, RouteNoted
<1>5. TaskBound(x, q, h)
    BY <1>1 DEF LineParts, TaskBound
<1>6. ServiceBound(x, q, h)
    BY <1>1 DEF LineParts, ServiceBound, Scoped
<1>7. TypeBound(x, q, h)
    BY <1>1 DEF LineParts, TypeBound, Pending, InBody
<1> QED BY <1>3, <1>4, <1>5, <1>6, <1>7 DEF LineParts

(* The lines below h, and nothing of those from h on.                      *)
Before(x, h) == [i \in 1..(h - 1) |-> x[i]]

Waiting(x, p) == IF p.joining = <<>> THEN Len(x) + 1 ELSE p.lineno

BindInv(x, p) ==
    /\ LineParts(Before(x, Waiting(x, p)), p, Waiting(x, p))
    /\ p.joining # <<>> =>
          /\ p.lineno \in 1..Len(x) /\ x[p.lineno].kind = "head"
          /\ \A k \in (p.lineno + 1)..Len(x) : x[k].kind = "blank"

LEMMA BeforeGrows ==
    ASSUME NEW x, NEW h \in Nat \ {0}, NEW y, NEW g \in Nat, h < g, NEW line,
           \A k \in 1..(h - 1) : y[k] = x[k],
           \/ y[h] = line /\ g = h + 1
           \/ y[h].kind = "head" /\ line.kind = "signature",
           \A k \in (h + 1)..(g - 1) : y[k].kind \in {"blank", "tail"}
    PROVE  Grows(Before(x, h), h, Before(y, g), g, line)
<1>1. \A k \in 1..(g - 1) : Before(y, g)[k] = y[k]
    BY DEF Before
<1>2. \A k \in 1..(h - 1) : Before(x, h)[k] = x[k] /\ k \in 1..(g - 1)
    BY DEF Before
<1>3. h \in 1..(g - 1) /\ \A k \in (h + 1)..(g - 1) : k \in 1..(g - 1)
    OBVIOUS
<1> QED BY <1>1, <1>2, <1>3 DEF Grows

LEMMA BeforeSame ==
    ASSUME NEW x, NEW y, NEW h, \A k \in 1..(h - 1) : y[k] = x[k]
    PROVE  Before(y, h) = Before(x, h)
BY DEF Before

LEMMA AppendedIs ==
    ASSUME NEW x \in Seq(Lines), NEW line
    PROVE  LET y == Append(x, line)
           IN  /\ Len(y) = Len(x) + 1 /\ y[Len(x) + 1] = line
               /\ \A k \in 1..Len(x) : y[k] = x[k]
OBVIOUS

LEMMA AdvanceBound ==
    ASSUME NEW x \in Seq(Lines), NEW p, NEW q, NEW line \in Lines, Sound(p),
           Advance(x, p, q, line), BindInv(x, p)
    PROVE  BindInv(Append(x, line), q)
<1> DEFINE y == Append(x, line)
<1>1. /\ Len(y) = Len(x) + 1 /\ y[Len(x) + 1] = line /\ Len(x) \in Nat
      /\ \A k \in 1..Len(x) : y[k] = x[k]
    BY AppendedIs
<1> HIDE DEF y
<1>2. p \in ParserState /\ q \in ParserState /\ (p.inStruct => p.types # <<>>)
    BY DEF Advance, Sound
<1>2a. p.lineno \in Nat
    BY <1>2 DEF ParserState
<1>3. CASE ReadWhole(x, p, q, line)
    <2> DEFINE n == Numbering(x, p)
               h == Len(x) + 1
               g == Len(y) + 1
    <2>1. /\ n \in ParserState /\ n.lineno = h /\ n.joining = p.joining
          /\ KeepsDeclared(p, n) /\ KeepsTypes(p, n)
        BY <1>2, NumberingIs
    <2>2. p.joining = <<>> /\ LineEffect(n, q, line)
        BY <1>3 DEF ReadWhole
    <2> HIDE DEF n
    <2>3. Waiting(x, p) = h /\ q.joining = <<>> /\ Waiting(y, q) = g
        BY <2>1, <2>2 DEF Waiting, LineEffect, KeepsPlace
    <2>4. LineParts(Before(x, h), n, h)
        BY <2>1, <2>3, PartsKept DEF BindInv
    <2>5. Grows(Before(x, h), h, Before(y, g), g, line)
        <3>1. h \in Nat \ {0} /\ g \in Nat /\ h < g /\ y[h] = line /\ g = h + 1
            BY <1>1
        <3>2. \A k \in 1..(h - 1) : y[k] = x[k]
            BY <1>1
        <3>3. \A k \in (h + 1)..(g - 1) : y[k].kind \in {"blank", "tail"}
            BY <3>1
        <3> HIDE DEF h, g
        <3> QED BY <3>1, <3>2, <3>3, BeforeGrows
    <2>6. n.inStruct => n.types # <<>>
        BY <1>2, <2>1 DEF KeepsTypes
    <2> HIDE DEF h, g
    <2>7. LineParts(Before(y, g), q, g)
        BY <2>1, <2>2, <2>4, <2>5, <2>6, PartsGrow
    <2> QED BY <2>3, <2>7 DEF BindInv, y
<1>4. CASE ReadHead(x, p, q, line)
    <2> DEFINE n == Numbering(x, p)
               j == <<line.name>>
               h == Len(x) + 1
    <2>1. /\ n \in ParserState /\ n.lineno = h /\ n.joining = p.joining
          /\ KeepsDeclared(p, n) /\ KeepsTypes(p, n)
        BY <1>2, NumberingIs
    <2>2. /\ j \in Seq(STRING) /\ q = [n EXCEPT !.joining = j] /\ j # <<>>
          /\ p.joining = <<>> /\ line.kind = "head"
        BY <1>4 DEF ReadHead, Lines, PlainKinds, NamedKinds
    <2> HIDE DEF n, j
    <2>3. KeepsDeclared(n, q) /\ KeepsTypes(n, q) /\ q.lineno = h /\ q.joining = j
        BY <2>1, <2>2, UnjoinedIs
    <2>4. Waiting(x, p) = h /\ Waiting(y, q) = h
        BY <2>2, <2>3 DEF Waiting
    <2>5. \A k \in 1..(h - 1) : y[k] = x[k]
        BY <1>1
    <2>6. h \in 1..Len(y) /\ y[h].kind = "head" /\ \A k \in (h + 1)..Len(y) : FALSE
        BY <1>1, <2>2
    <2> HIDE DEF h
    <2>7. Before(y, h) = Before(x, h)
        BY <2>5, BeforeSame
    <2>8. LineParts(Before(x, h), n, h)
        BY <2>1, <2>4, PartsKept DEF BindInv
    <2>9. LineParts(Before(y, h), q, h)
        BY <2>3, <2>7, <2>8, PartsKept
    <2> QED BY <2>3, <2>4, <2>6, <2>9 DEF BindInv, y
<1>5. ASSUME p.joining # <<>>
      PROVE  /\ Waiting(x, p) = p.lineno /\ p.lineno \in 1..Len(y)
             /\ y[p.lineno].kind = "head"
             /\ \A k \in 1..(p.lineno - 1) : y[k] = x[k]
             /\ \A k \in (p.lineno + 1)..Len(y) : y[k].kind = "blank" \/ y[k] = line
    <2>1. /\ p.lineno \in 1..Len(x) /\ x[p.lineno].kind = "head"
          /\ \A k \in (p.lineno + 1)..Len(x) : x[k].kind = "blank"
        BY <1>5 DEF BindInv
    <2>2. \A k \in (p.lineno + 1)..Len(y) : \/ k \in (p.lineno + 1)..Len(x) /\ k \in 1..Len(x)
                                       \/ k = Len(x) + 1
        BY <1>1, <1>2a, <2>1
    <2>3. \A k \in (p.lineno + 1)..Len(y) : y[k].kind = "blank" \/ y[k] = line
        BY <1>1, <2>1, <2>2
    <2>4. p.lineno \in 1..Len(y) /\ \A k \in 1..(p.lineno - 1) : k \in 1..Len(x)
        BY <1>1, <2>1
    <2> QED BY <1>1, <1>5, <2>1, <2>3, <2>4 DEF Waiting
<1>6. CASE ReadInside(p, q, line)
    <2> DEFINE h == p.lineno
    <2>1. p.joining # <<>> /\ line.kind = "blank" /\ q = p
        BY <1>6 DEF ReadInside
    <2>2. /\ Waiting(x, p) = h /\ h \in 1..Len(y) /\ y[h].kind = "head"
          /\ \A k \in 1..(h - 1) : y[k] = x[k]
          /\ \A k \in (h + 1)..Len(y) : y[k].kind = "blank"
        BY <1>5, <2>1
    <2>3. Waiting(y, q) = h
        BY <2>1 DEF Waiting
    <2>4. Before(y, h) = Before(x, h)
        BY <2>2, BeforeSame
    <2>5. LineParts(Before(y, h), q, h)
        BY <2>1, <2>2, <2>4 DEF BindInv
    <2> QED BY <2>1, <2>2, <2>3, <2>5 DEF BindInv, y
<1>7. CASE ReadTail(p, q, line)
    <2> DEFINE n == [p EXCEPT !.joining = <<>>]
               j == Joined(p)
               h == p.lineno
               g == Len(y) + 1
    <2>1. /\ n \in ParserState /\ n.lineno = h /\ n.joining = <<>>
          /\ KeepsDeclared(p, n) /\ KeepsTypes(p, n)
        <3>1. <<>> \in Seq(STRING)
            OBVIOUS
        <3> QED BY <1>2, <3>1, UnjoinedIs
    <2>2. p.joining # <<>> /\ line.kind = "tail" /\ LineEffect(n, q, j)
        BY <1>7 DEF ReadTail
    <2>3. j.kind = "signature"
        BY <1>2, <2>2, JoinedIs
    <2> HIDE DEF n, j
    <2>4. /\ Waiting(x, p) = h /\ h \in 1..Len(y) /\ y[h].kind = "head"
          /\ \A k \in 1..(h - 1) : y[k] = x[k]
          /\ \A k \in (h + 1)..Len(y) : y[k].kind = "blank" \/ y[k] = line
        BY <1>5, <2>2
    <2>5. q.joining = <<>> /\ Waiting(y, q) = g
        BY <2>1, <2>2 DEF Waiting, LineEffect, KeepsPlace
    <2>6. LineParts(Before(x, h), n, h)
        BY <2>1, <2>4, PartsKept DEF BindInv
    <2>7. Grows(Before(x, h), h, Before(y, g), g, j)
        <3>1. h \in Nat \ {0} /\ g \in Nat /\ h < g /\ g - 1 = Len(y)
            BY <1>1, <2>4
        <3>2. \A k \in (h + 1)..(g - 1) : y[k].kind \in {"blank", "tail"}
            BY <2>2, <2>4, <3>1
        <3> HIDE DEF h, g
        <3> QED BY <2>3, <2>4, <3>1, <3>2, BeforeGrows
    <2>8. n.inStruct => n.types # <<>>
        BY <1>2, <2>1 DEF KeepsTypes
    <2> HIDE DEF h, g
    <2>9. LineParts(Before(y, g), q, g)
        BY <2>1, <2>2, <2>6, <2>7, <2>8, PartsGrow, ZenonT(60)
    <2> QED BY <2>5, <2>9 DEF BindInv, y
<1> QED BY <1>3, <1>4, <1>6, <1>7 DEF Advance, y

(* At the end of a file nothing is awaited, and the invariant says it all. *)
Ended(x, p) ==
    /\ x \in Seq(Lines) /\ p \in ParserState
    /\ LineParts(x, p, Len(x) + 1)
    /\ ~p.routeArmed /\ ~p.taskArmed /\ Calm(p) /\ ~p.transactional
    /\ p.routes # <<>> => p.services = <<>>

LEMMA EndedIs ==
    ASSUME NEW x \in Seq(Lines), NEW p \in ParserState, BindInv(x, p), p.joining = <<>>,
           ~p.routeArmed, ~p.taskArmed, Calm(p), ~p.transactional,
           p.routes # <<>> => p.services = <<>>
    PROVE  Ended(x, p)
<1>1. Before(x, Len(x) + 1) = x
    BY DEF Before
<1>2. Waiting(x, p) = Len(x) + 1
    BY DEF Waiting
<1> QED BY <1>1, <1>2 DEF BindInv, Ended

LEMMA MarksAre ==
    ASSUME NEW x \in Seq(Lines), NEW kinds
    PROVE  Marks(x, Len(x) + 1, kinds) = {i \in DOMAIN x : x[i].kind \in kinds}
BY DEF Marks

LEMMA EndedRoutes ==
    ASSUME Ended(text, ps)
    PROVE  RoutesBind
<1> DEFINE h == Len(text) + 1
           B == Ats(ps.routes)
           lines == {i \in DOMAIN text : Kind(i) = "route"}
           said(k, j) == \E i \in Above(j, B) : Kind(i) = k
           roles(j) == {i \in Above(j, B) : Kind(i) = "role"}
<1>1. /\ text \in Seq(Lines) /\ Bound(text, h, {"route"}, RoutePassed, ps.routes, FALSE)
      /\ NotesAre(text, PendingRoute(ps), h, B, ps.services = <<>>)
      /\ \A r \in DOMAIN ps.routes :
            NotesAre(text, ps.routes[r].notes, ps.routes[r].at, B, ps.services = <<>>)
    BY DEF Ended, LineParts, RouteBound, RouteNoted, Bound
<1>2. ps.routes \in Seq(RouteDecl) /\ Calm(ps) /\ (ps.routes # <<>> => ps.services = <<>>)
    BY DEF Ended, ParserState
<1>3. lines = Marks(text, h, {"route"})
    <2>1. text \in Seq(Lines)
        BY <1>1
    <2>2. Marks(text, Len(text) + 1, {"route"}) = {i \in DOMAIN text : text[i].kind \in {"route"}}
        BY <2>1, MarksAre
    <2> QED BY <2>2, Zenon DEF Kind
<1>4. \A k, j : said(k, j) <=> Told(text, k, j, B) # {}
    BY DEF Told, Kind
<1>5. \A j : roles(j) = Told(text, "role", j, B)
    BY DEF Told, Kind
<1>6. Len(ps.routes) = Cardinality(lines)
    <2>1. Cardinality(Marks(text, h, {"route"})) = Len(ps.routes) + 0
        BY <1>1 DEF Bound
    <2>2. Len(ps.routes) \in Nat
        BY <1>2
    <2> HIDE DEF lines
    <2> QED BY <1>3, <2>1, <2>2
<1>7. \A i \in lines : \E r \in DOMAIN ps.routes :
         FirstBelow(i, ps.routes[r].at, RouteNotes \union {"blank"})
    <2>1. \A i \in Marks(text, h, {"route"}) : Has(ps.routes, text, i, RoutePassed)
        BY <1>1 DEF Bound
    <2> HIDE DEF lines
    <2> QED BY <1>3, <2>1 DEF Has, Binds, Skipped, FirstBelow, Kind, RoutePassed
<1>8. ASSUME NEW r \in DOMAIN ps.routes
      PROVE  LET j == ps.routes[r].at
                 notes == ps.routes[r].notes
             IN  /\ notes.auth <=> said("authenticated", j)
                 /\ notes.public <=> said("public", j)
                 /\ notes.produces <=> said("produces", j)
                 /\ notes.transactional <=> said("transactional", j)
                 /\ notes.role = IF roles(j) = {} THEN NoRole
                                 ELSE text[Max(roles(j))].role
    <2>1. ps.services = <<>>
        BY <1>2, <1>8
    <2>2. NotesAre(text, ps.routes[r].notes, ps.routes[r].at, B, ps.services = <<>>)
        BY <1>1
    <2> HIDE DEF said, roles, B
    <2> QED BY <1>4, <1>5, <2>1, <2>2 DEF NotesAre, RoleAt
<1>9. ASSUME NEW kind \in AuthKinds \union {"produces"}
      PROVE  Told(text, kind, h, B) = {}
    <2>1. /\ PendingRoute(ps).auth = ps.auth /\ PendingRoute(ps).public = ps.public
          /\ PendingRoute(ps).produces = ps.produces /\ PendingRoute(ps).role = ps.role
        BY DEF PendingRoute
    <2>2. CASE kind # "role"
        BY <1>1, <1>2, <1>9, <2>1, <2>2 DEF NotesAre, Calm, AuthKinds
    <2>3. CASE kind = "role"
        <3> DEFINE S == Told(text, "role", h, B)
        <3>1. RoleAt(text, S) = NoRole
            BY <1>1, <1>2, <2>1 DEF NotesAre, Calm
        <3>2. S \subseteq 1..Len(text) /\ \A i \in S : text[i].kind = "role"
            BY <1>1 DEF Told, Above
        <3> HIDE DEF S
        <3>3. ASSUME S # {}
              PROVE  FALSE
            <4>1. IsFiniteSet(1..Len(text)) /\ S \subseteq Nat
                BY <1>1, <3>2, FS_Interval
            <4>2. IsFiniteSet(S)
                BY <3>2, <4>1, FS_Subset
            <4>3. Max(S) \in S
                BY <3>3, <4>1, <4>2, MaxIsLargest
            <4>3a. Max(S) \in 1..Len(text) /\ text[Max(S)].kind = "role"
                BY <3>2, <4>3
            <4>3b. text \in Seq(Lines)
                BY <1>1
            <4>4. text[Max(S)] \in Lines /\ text[Max(S)].kind = "role"
                BY <4>3a, <4>3b
            <4>5. text[Max(S)].role # NoRole
                BY <4>4 DEF Lines, PlainKinds, NamedKinds
            <4> QED BY <3>1, <3>3, <4>5 DEF RoleAt
        <3> QED BY <2>3, <3>3 DEF S
    <2> QED BY <2>2, <2>3
<1>10. ASSUME NEW i \in DOMAIN text, Kind(i) \in AuthKinds \union {"produces"}
       PROVE  \E j \in B : i < j
    <2>1. i \in 1..(h - 1) /\ h \in Nat /\ text[i].kind \in AuthKinds \union {"produces"}
        BY <1>1, <1>10 DEF Kind
    <2>2. Told(text, text[i].kind, h, B) = {}
        BY <1>9, <2>1
    <2>3. i \notin Above(h, B)
        BY <2>2 DEF Told
    <2>4. Placed(text, h, RoutePassed, ps.routes)
        BY <1>1 DEF Bound
    <2>5. \A b \in B : b \in 1..(h - 1) /\ text[b].kind \notin RoutePassed
        BY <2>1, <2>4, PlacedBounds
    <2> HIDE DEF h, B
    <2>6. PICK b \in B : i <= b /\ b < h
        BY <2>1, <2>3 DEF Above
    <2>7. text[i].kind \in RoutePassed
        BY <2>1 DEF RoutePassed, RouteNotes
    <2>8. i # b
        BY <2>5, <2>7
    <2>9. b \in 1..(h - 1)
        BY <2>5
    <2> QED BY <2>1, <2>6, <2>8, <2>9
<1> HIDE DEF lines, said, roles, h
<1> QED BY <1>6, <1>7, <1>8, <1>10 DEF RoutesBind, lines, said, roles

LEMMA EndedServices ==
    ASSUME Ended(text, ps)
    PROVE  ServicesBind
<1> DEFINE h == Len(text) + 1
           S == Scoped(ps)
           B == Ats(ps.services) \union Ats(ps.routes)
           lines == {i \in DOMAIN text : Kind(i) = "transactional"}
<1>1. text \in Seq(Lines) /\ Scope(text, h, S, B, FALSE)
    <2>1. ps.transactional = FALSE /\ text \in Seq(Lines)
        BY BooleanFields DEF Ended
    <2>2. Scope(text, h, S, B, ps.transactional)
        BY DEF Ended, LineParts, ServiceBound
    <2> QED BY <2>1, <2>2
<1>2. lines = Marks(text, h, {"transactional"})
    BY <1>1, MarksAre, SMTT(30) DEF Kind
<1>3. S \subseteq 1..(h - 1) /\ IsFiniteSet(1..(h - 1))
    BY <1>1, FS_Interval DEF Scope
<1>4. Cardinality(S) \in Nat
    BY <1>3, FS_Subset, FS_CardinalityType
<1> HIDE DEF S, lines
<1>5. Cardinality(S) = Cardinality(lines)
    <2>1. Cardinality(Marks(text, h, {"transactional"})) = Cardinality(S) + 0
        BY <1>1 DEF Scope
    <2> QED BY <1>2, <1>4, <2>1
<1>6. \A j \in S : \E i \in Above(j, B) : i \in lines
    <2> TAKE j \in S
    <2>1. PICK i \in Above(j, B) : text[i].kind = "transactional"
        BY <1>1 DEF Scope, Told
    <2>2. i \in DOMAIN text
        BY <1>1, <1>3 DEF Above
    <2> QED BY <2>1, <2>2 DEF lines, Kind
<1> QED BY <1>5, <1>6 DEF ServicesBind, S, lines, Scoped, ScopedRoutes

LEMMA EndedTasks ==
    ASSUME Ended(text, ps)
    PROVE  TasksBind
<1> DEFINE h == Len(text) + 1
           lines == {i \in DOMAIN text : Kind(i) \in TaskKinds}
<1>1. text \in Seq(Lines) /\ Bound(text, h, TaskKinds, TaskPassed, ps.tasks, FALSE)
    BY DEF Ended, LineParts, TaskBound, Bound
<1>2. ps.tasks \in Seq(Decl)
    BY DEF Ended, ParserState
<1>3. lines = Marks(text, h, TaskKinds)
    BY <1>1, MarksAre DEF Kind
<1> HIDE DEF lines
<1>4. Len(ps.tasks) = Cardinality(lines)
    <2>1. Cardinality(Marks(text, h, TaskKinds)) = Len(ps.tasks) + 0
        BY <1>1 DEF Bound
    <2>2. Len(ps.tasks) \in Nat
        BY <1>2
    <2> QED BY <1>3, <2>1, <2>2
<1>5. \A i \in lines : \E t \in DOMAIN ps.tasks :
         FirstBelow(i, ps.tasks[t].at, RouteNotes \union {"blank", "store"})
    <2>1. \A i \in Marks(text, h, TaskKinds) : Has(ps.tasks, text, i, TaskPassed)
        BY <1>1, SMTT(30) DEF Bound
    <2> QED BY <1>3, <2>1 DEF Has, Binds, Skipped, FirstBelow, Kind, TaskPassed
<1> QED BY <1>4, <1>5 DEF TasksBind, lines

LEMMA EndedFields ==
    ASSUME Ended(text, ps)
    PROVE  FieldsBind
<1> DEFINE h == Len(text) + 1
           starts == {i \in DOMAIN text : Kind(i) \in {"open", "pick", "field"}}
<1>1. text \in Seq(Lines) /\ FieldsBound(text, ps.types, h)
    BY DEF Ended, LineParts, TypeBound
<1>2. starts = Starts(text, h)
    BY <1>1, MarksAre DEF Kind, Starts, StartKinds
<1> HIDE DEF starts
<1>3. ASSUME NEW t \in DOMAIN ps.types, NEW f \in DOMAIN ps.types[t].fields
      PROVE  LET field == ps.types[t].fields[f]
                 above == Above(field.at, starts)
             IN  Kind(field.at) = "field" =>
                   /\ field.flags = text[field.at].flags \union
                         UNION {text[i].flags : i \in {k \in above : Kind(k) = "flags"}}
                   /\ field.rules =
                         {text[i].rule : i \in {k \in above : Kind(k) = "rule"}}
                   /\ field.references <=> \E i \in above : Kind(i) = "references"
    <2> DEFINE field == ps.types[t].fields[f]
               above == Above(field.at, starts)
    <2>1. FieldIsBound(text, field, starts)
        BY <1>1, <1>2, InAllFields DEF FieldsBound
    <2>2. /\ Told(text, "flags", field.at, starts) = {k \in above : Kind(k) = "flags"}
          /\ Told(text, "rule", field.at, starts) = {k \in above : Kind(k) = "rule"}
          /\ Told(text, "references", field.at, starts) # {} <=>
                \E i \in above : Kind(i) = "references"
        BY DEF Told, Kind
    <2> HIDE DEF field, above
    <2>3. ASSUME Kind(field.at) = "field"
          PROVE  /\ field.flags = text[field.at].flags \union
                       UNION {text[i].flags : i \in {k \in above : Kind(k) = "flags"}}
                 /\ field.rules =
                       {text[i].rule : i \in {k \in above : Kind(k) = "rule"}}
                 /\ field.references <=> \E i \in above : Kind(i) = "references"
        <3>1. PICK flags : /\ field.flags = text[field.at].flags \union flags
                           /\ PrefixesAre(text, flags, field.rules, field.references,
                                          field.at, starts)
            BY <2>1, <2>3 DEF FieldIsBound, Kind
        <3> QED BY <2>2, <3>1 DEF PrefixesAre, FlagsOf, RulesOf
    <2> QED BY <2>3 DEF field, above
<1> QED BY <1>3 DEF FieldsBind, starts

LEMMA PartsInit ==
    BindInv(<<>>, ParserInit)
<1> DEFINE p == ParserInit
           x == Before(<<>>, 1)
<1>1. /\ p.joining = <<>> /\ p.routes = <<>> /\ p.services = <<>> /\ p.tasks = <<>>
      /\ p.types = <<>> /\ ~p.routeArmed /\ ~p.taskArmed /\ ~p.inStruct /\ ~p.needOpen
      /\ ~p.auth /\ ~p.public /\ ~p.produces /\ ~p.transactional /\ p.role = NoRole
      /\ p.pending = {} /\ p.rules = {} /\ ~p.references
      /\ p.routeArmed = FALSE /\ p.taskArmed = FALSE /\ p.transactional = FALSE
    BY DEF ParserInit
<1> HIDE DEF p, x
<1>2. \A kinds : Marks(x, 1, kinds) = {}
    BY DEF Marks
<1>3. \A kind, B : Told(x, kind, 1, B) = {}
    BY DEF Told, Above
<1>4. Cardinality({}) = 0 /\ Len(<<>>) = 0 /\ DOMAIN <<>> = {}
    BY FS_EmptySet
<1>5. \A kinds, P : Bound(x, 1, kinds, P, <<>>, FALSE)
    <2> TAKE kinds, P
    <2>1. Placed(x, 1, P, <<>>)
        BY <1>4 DEF Placed
    <2>2. Cardinality(Marks(x, 1, kinds)) = Len(<<>>) + 0
        BY <1>2, <1>4
    <2>3. Marks(x, 1, kinds) = {}
        BY <1>2
    <2> QED BY <2>1, <2>2, <2>3 DEF Bound
<1>6. RouteNoted(x, p, 1)
    <2>1. /\ ~PendingRoute(p).auth /\ ~PendingRoute(p).public /\ ~PendingRoute(p).produces
          /\ ~PendingRoute(p).transactional /\ PendingRoute(p).role = NoRole
        BY <1>1 DEF PendingRoute
    <2> QED BY <1>1, <1>3, <1>4, <2>1 DEF RouteNoted, NotesAre, RoleAt
<1>7. RouteBound(x, p, 1) /\ TaskBound(x, p, 1)
    BY <1>1, <1>5, <1>6 DEF RouteBound, TaskBound
<1>8. ServiceBound(x, p, 1)
    <2>1. Ats(p.services) = {} /\ Ats(p.routes) = {}
        BY <1>1, <1>4 DEF Ats
    <2>2. Scoped(p) = {}
        BY <2>1 DEF Scoped, ScopedRoutes
    <2>3. Scope(x, 1, {}, {}, FALSE)
        BY <1>2, <1>4 DEF Scope
    <2> QED BY <1>1, <2>1, <2>2, <2>3 DEF ServiceBound
<1>9. TypeBound(x, p, 1)
    <2>1. AllFields(p.types) = {}
        BY <1>1, <1>4 DEF AllFields
    <2> QED BY <1>1, <2>1 DEF TypeBound, FieldsBound, Pending, InBody
<1>10. Exclusive(p)
    BY <1>1 DEF Exclusive
<1>11. Waiting(<<>>, p) = 1
    BY <1>1, <1>4 DEF Waiting
<1>12. LineParts(x, p, 1)
    BY <1>7, <1>8, <1>9, <1>10 DEF LineParts
<1> QED BY <1>1, <1>11, <1>12 DEF BindInv, p, x

(* What is awaited is what the text asks for, and an accepted file awaits  *)
(* nothing.                                                                *)
BindingInv ==
    /\ verdict # "refused" => BindInv(text, ps)
    /\ verdict = "accepted" => ~Unfinished /\ ~ClashingDeclarations

LEMMA BindingStep ==
    ASSUME ReadInv, BindingInv, [AnnotationsNext]_annotationVars
    PROVE  BindingInv'
<1>1. CASE UNCHANGED annotationVars
    BY <1>1 DEF annotationVars, BindingInv, Unfinished, ClashingDeclarations, Twice, Shared
<1>2. CASE AnnotationsNext /\ verdict' # "refused"
    <2>0. verdict' = "accepted" => ~Unfinished /\ ~ClashingDeclarations /\ UNCHANGED <<text, ps>>
        BY <1>2, StepIs
    <2>1. verdict' = "accepted" => ~Unfinished' /\ ~ClashingDeclarations'
        BY <2>0 DEF Unfinished, ClashingDeclarations, Twice, Shared
    <2>2. CASE UNCHANGED <<text, ps>> /\ verdict = "reading"
        BY <2>1, <2>2 DEF BindingInv
    <2>3. ASSUME NEW line \in Lines, text' = Append(text, line), verdict = "reading",
                 Advance(text, ps, ps', line)
          PROVE  BindingInv'
        <3>1. BindInv(text, ps) /\ text \in Seq(Lines) /\ Sound(ps)
            BY <2>3 DEF BindingInv, ReadInv
        <3>2. BindInv(text', ps')
            BY <2>3, <3>1, AdvanceBound
        <3> QED BY <2>1, <3>2 DEF BindingInv
    <2> QED BY <1>2, <2>2, <2>3, StepIs
<1>3. CASE verdict' = "refused"
    BY <1>3 DEF BindingInv
<1> QED BY <1>1, <1>2, <1>3

LEMMA AcceptedIsBound ==
    ASSUME ReadInv, BindingInv
    PROVE  AnnotationsBind
<1>1. SUFFICES ASSUME verdict = "accepted"
               PROVE  RoutesBind /\ ServicesBind /\ TasksBind /\ FieldsBind
    BY DEF AnnotationsBind
<1>2. text \in Seq(Lines) /\ ps \in ParserState /\ BindInv(text, ps)
    BY <1>1 DEF ReadInv, Sound, BindingInv
<1>3. /\ ps.joining = <<>> /\ ~ps.routeArmed /\ ~ps.taskArmed /\ Calm(ps) /\ ~ps.transactional
    BY <1>1 DEF BindingInv, Unfinished, Calm
<1>4. ps.routes # <<>> => ps.services = <<>>
    BY <1>1 DEF BindingInv, ClashingDeclarations
<1>5. Ended(text, ps)
    BY <1>2, <1>3, <1>4, EndedIs
<1> QED BY <1>5, EndedRoutes, EndedServices, EndedTasks, EndedFields

(***************************************************************************)
(* In an accepted file of any length each annotation is bound to the       *)
(* declaration below it and each declaration has what is written above it, *)
(* no more and no less (parse_top_level_line, take_pending_annotations,    *)
(* parse_type_body_line): what the parser has pending is always what the   *)
(* text says since the last declaration.                                   *)
(***************************************************************************)
THEOREM AnnotationsAreBound == AnnotationsSpec => []AnnotationsBind
<1>1. AnnotationsInit => BindingInv
    BY InitIs, PartsInit DEF AnnotationsInit, BindingInv
<1>2. ReadInv /\ BindingInv /\ [AnnotationsNext]_annotationVars => BindingInv'
    BY BindingStep
<1>3. ReadInv /\ BindingInv => AnnotationsBind
    BY AcceptedIsBound
<1> QED BY <1>1, <1>2, <1>3, ReadingIsSound, PTL DEF AnnotationsSpec
=============================================================================
