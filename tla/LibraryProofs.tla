---------------------------- MODULE LibraryProofs ---------------------------
(***************************************************************************)
(* What the parts of the runtime library promise, for any sizes, limits,   *)
(* tables, threads and rows: that the arena gives out disjoint, wiped      *)
(* memory within its limit, that the reads of a store are snapshots of it, *)
(* that a path finds the one route that fits it best, or is told why there *)
(* is none, that the pages of a walk divide the table, and that the table  *)
(* of clients counts its connections and bounds their requests.            *)
(***************************************************************************)
EXTENDS Arena, Store, Routing, Paging, ClientLimits, TLAPS, SequenceTheorems,
        FiniteSetTheorems, WellFoundedInduction

LEMMA LeastOfNat ==
    ASSUME NEW T \in SUBSET Nat, T # {}
    PROVE  \E x \in T : \A y \in T : x <= y
<1>1. PICK x \in T : \A y \in T : ~(<<y, x>> \in OpToRel(<, Nat))
    BY NatLessThanWellFounded, WFMin
<1>2. \A y \in T : ~(y < x)
    BY <1>1 DEF OpToRel
<1> QED BY <1>2

-----------------------------------------------------------------------------
(* The arena.                                                              *)

ArenaChunk == [cap : Nat, used : Nat, dirty : Nat]
Block == [chunk : Nat, from : Nat, to : Nat]

(* s[k] is what was cut from the first k chunks.                           *)
Adds(s, list) ==
    /\ s \in [0..Len(list) -> Nat] /\ s[0] = 0
    /\ \A k \in 1..Len(list) : s[k] = s[k - 1] + list[k].used

(* The partial sums are unique, so that Sum is the last of them.           *)
LEMMA SumIsLast ==
    ASSUME NEW list \in Seq(ArenaChunk), NEW s, Adds(s, list)
    PROVE  Sum(list) = s[Len(list)]
<1> DEFINE L == Len(list)
           Is(t) == t = [k \in 0..L |-> IF k = 0 THEN 0 ELSE t[k - 1] + list[k].used]
<1>1. L \in Nat
    BY LenProperties
<1>2. s \in [0..L -> Nat] /\ s[0] = 0 /\ \A k \in 1..L : s[k] = s[k - 1] + list[k].used
    BY DEF Adds
<1>3. Is(s)
    <2>1. \A k \in 0..L : s[k] = IF k = 0 THEN 0 ELSE s[k - 1] + list[k].used
        <3>1. \A k \in 0..L : k = 0 \/ k \in 1..L
            BY <1>1
        <3> HIDE DEF L
        <3> QED BY <1>2, <3>1
    <2> QED BY <1>2, <2>1
<1>4. ASSUME NEW t, Is(t) PROVE t = s
    <2> DEFINE T == {k \in 0..L : t[k] # s[k]}
    <2>1. \A k \in 0..L : t[k] = IF k = 0 THEN 0 ELSE t[k - 1] + list[k].used
        BY <1>4
    <2>2. DOMAIN t = 0..L /\ t = [k \in 0..L |-> t[k]]
        BY <1>4
    <2>3. T = {}
        <3>1. SUFFICES ASSUME T # {} PROVE FALSE
            OBVIOUS
        <3>2. T \in SUBSET Nat
            BY <1>1
        <3>3. PICK k \in T : \A y \in T : k <= y
            BY <3>1, <3>2, LeastOfNat
        <3>4. k \in 0..L /\ t[k] # s[k] /\ k \in Nat
            BY <1>1, <3>3
        <3> HIDE DEF L
        <3>5. CASE k = 0
            BY <1>2, <2>1, <3>4, <3>5
        <3>6. CASE k # 0
            <4>1. k \in 1..L /\ k - 1 \in 0..L /\ ~(k <= k - 1)
                BY <1>1, <3>4, <3>6
            <4>2. t[k - 1] = s[k - 1]
                BY <3>3, <4>1
            <4>3. t[k] = t[k - 1] + list[k].used
                BY <2>1, <3>4, <3>6
            <4> QED BY <1>2, <3>4, <4>1, <4>2, <4>3
        <3> QED BY <3>5, <3>6
    <2>4. \A k \in 0..L : t[k] = s[k]
        BY <2>3
    <2> HIDE DEF L
    <2> QED BY <1>2, <2>2, <2>4
<1>5. Sum(list) = (CHOOSE t : Is(t))[L]
    BY DEF Sum
<1> HIDE DEF Is
<1>6. (CHOOSE t : Is(t)) = s
    BY <1>3, <1>4
<1> QED BY <1>5, <1>6

(* A list of chunks with the blocks cut from it and the count of them.     *)
InChunks(list, bs) ==
    /\ \A k \in 1..Len(list) : list[k].used <= list[k].cap /\ list[k].dirty <= list[k].used
    /\ \A b \in bs : /\ b.chunk \in 1..Len(list) /\ b.from < b.to
                     /\ b.to <= list[b.chunk].used

Apart(bs) ==
    \A a, b \in bs : a.chunk = b.chunk => a = b \/ a.to <= b.from \/ b.to <= a.from

Good(list, bs, n) ==
    /\ list \in Seq(ArenaChunk) /\ bs \subseteq Block
    /\ InChunks(list, bs) /\ Apart(bs)
    /\ \E s : Adds(s, list) /\ n = s[Len(list)]

LEMMA GoodAppend ==
    ASSUME NEW list, NEW bs, NEW n, Good(list, bs, n),
           NEW c \in ArenaChunk, c.used = 0, c.dirty = 0
    PROVE  Good(Append(list, c), bs, n)
<1> DEFINE more == Append(list, c)
           L == Len(list)
<1>1. list \in Seq(ArenaChunk) /\ L \in Nat
    BY LenProperties DEF Good
<1>2. /\ more \in Seq(ArenaChunk) /\ Len(more) = L + 1
      /\ \A k \in 1..L : more[k] = list[k]
      /\ more[L + 1] = c
    BY <1>1, AppendProperties
<1>3. c.cap \in Nat
    BY DEF ArenaChunk
<1> HIDE DEF more, L
<1>4. \A k \in 1..(L + 1) : k \in 1..L \/ k = L + 1
    BY <1>1
<1>5. InChunks(more, bs)
    <2>1. \A k \in 1..L : list[k].used <= list[k].cap /\ list[k].dirty <= list[k].used
        BY DEF Good, InChunks, L
    <2>2. ASSUME NEW k \in 1..Len(more)
          PROVE  more[k].used <= more[k].cap /\ more[k].dirty <= more[k].used
        BY <1>2, <1>3, <1>4, <2>1
    <2>3. ASSUME NEW b \in bs
          PROVE  b.chunk \in 1..Len(more) /\ b.from < b.to /\ b.to <= more[b.chunk].used
        <3>1. b.chunk \in 1..L /\ b.from < b.to /\ b.to <= list[b.chunk].used
            BY DEF Good, InChunks, L
        <3> QED BY <1>1, <1>2, <3>1
    <2> QED BY <2>2, <2>3 DEF InChunks
<1>6. \E s : Adds(s, more) /\ n = s[Len(more)]
    <2>1. PICK s : Adds(s, list) /\ n = s[L]
        BY DEF Good, L
    <2> DEFINE t == [k \in 0..(L + 1) |-> IF k = L + 1 THEN n ELSE s[k]]
    <2>2. s \in [0..L -> Nat] /\ s[0] = 0 /\ \A k \in 1..L : s[k] = s[k - 1] + list[k].used
        BY <2>1 DEF Adds, L
    <2>3. n \in Nat
        BY <1>1, <2>1, <2>2
    <2>4. t \in [0..(L + 1) -> Nat] /\ t[0] = 0 /\ t[L + 1] = n
        BY <1>1, <2>2, <2>3
    <2>5. \A k \in 0..L : t[k] = s[k]
        BY <1>1
    <2>6. ASSUME NEW k \in 1..(L + 1) PROVE t[k] = t[k - 1] + more[k].used
        <3> HIDE DEF t
        <3>1. CASE k \in 1..L
            <4>1. k \in 0..L /\ k - 1 \in 0..L
                BY <1>1, <3>1
            <4> QED BY <1>2, <2>2, <2>5, <3>1, <4>1
        <3>2. CASE k = L + 1
            <4>1. k - 1 = L /\ L \in 0..L
                BY <1>1, <3>2
            <4>2. t[k - 1] = n
                BY <2>1, <2>5, <4>1
            <4> QED BY <1>2, <2>3, <2>4, <3>2, <4>2
        <3> QED BY <1>4, <3>1, <3>2
    <2> HIDE DEF t
    <2>7. Adds(t, more)
        BY <1>2, <2>4, <2>6 DEF Adds
    <2> QED BY <1>2, <2>4, <2>7
<1> QED BY <1>2, <1>5, <1>6 DEF Good, more

(* A block of n bytes, w after rounding, at the end of the last chunk.     *)
AfterCut(list, n, w) ==
    [list EXCEPT ![Len(list)] =
        [list[Len(list)] EXCEPT !.used = @ + w,
             !.dirty = IF list[Len(list)].used + n > @ THEN list[Len(list)].used + n ELSE @]]

CutBlock(list, n) ==
    [chunk |-> Len(list), from |-> list[Len(list)].used, to |-> list[Len(list)].used + n]

LEMMA GoodCut ==
    ASSUME NEW list, NEW bs, NEW m, Good(list, bs, m), list # <<>>,
           NEW n \in Nat, NEW w \in Nat, n > 0, n <= w,
           w <= list[Len(list)].cap - list[Len(list)].used
    PROVE  Good(AfterCut(list, n, w), bs \cup {CutBlock(list, n)}, m + w)
<1> DEFINE L == Len(list)
           c == list[L]
           x == AfterCut(list, n, w)
           new == CutBlock(list, n)
           cs == bs \cup {CutBlock(list, n)}
           e == [c EXCEPT !.used = @ + w, !.dirty = IF c.used + n > @ THEN c.used + n ELSE @]
<1>1. list \in Seq(ArenaChunk) /\ L \in Nat /\ L > 0 /\ DOMAIN list = 1..L
    BY EmptySeq, LenProperties DEF Good
<1>2. L \in 1..L /\ c \in ArenaChunk
    BY <1>1, ElementOfSeq
<1>3. /\ c.cap \in Nat /\ c.used \in Nat /\ c.dirty \in Nat
      /\ c.used <= c.cap /\ c.dirty <= c.used
    BY <1>2 DEF ArenaChunk, Good, InChunks
<1>4. x = [list EXCEPT ![L] = e]
    BY DEF AfterCut
<1>5. /\ e \in ArenaChunk /\ e.cap = c.cap /\ e.used = c.used + w
      /\ e.used <= e.cap /\ e.dirty <= e.used
    <2>1. e.cap = c.cap /\ e.used = c.used + w
          /\ e.dirty = (IF c.used + n > c.dirty THEN c.used + n ELSE c.dirty)
        BY <1>2 DEF ArenaChunk
    <2>2. e \in ArenaChunk
        <3> DEFINE d == IF c.used + n > c.dirty THEN c.used + n ELSE c.dirty
        <3>1. d \in Nat /\ c.used + w \in Nat
            BY <1>3
        <3> HIDE DEF d
        <3>2. e = [c EXCEPT !.used = c.used + w, !.dirty = d]
            BY <1>2 DEF ArenaChunk, d
        <3> QED BY <1>2, <3>1, <3>2 DEF ArenaChunk
    <2>3. e.used <= e.cap
        BY <1>3, <2>1
    <2>4. e.dirty <= e.used
        BY <1>3, <2>1
    <2> QED BY <2>1, <2>2, <2>3, <2>4
<1>6. /\ new.chunk = L /\ new.from = c.used /\ new.to = c.used + n /\ new \in Block
    BY <1>1, <1>3 DEF CutBlock, Block
<1>a. cs = bs \cup {new}
    OBVIOUS
<1> HIDE DEF L, c, x, new, cs, e
<1>7. /\ x \in Seq(ArenaChunk) /\ Len(x) = L /\ x[L] = e
      /\ \A k \in 1..L : k # L => x[k] = list[k]
    <2>1. x \in [1..L -> ArenaChunk]
        <3>1. list \in [1..L -> ArenaChunk]
            BY <1>1, SeqDef DEF L
        <3> QED BY <1>4, <1>5, <3>1
    <2>2. x \in Seq(ArenaChunk) /\ Len(x) = L
        BY <1>1, <2>1, SeqDef
    <2> QED BY <1>1, <1>2, <1>4, <2>2
<1>8. cs \subseteq Block
    BY <1>6, <1>a DEF Good
<1>9. ASSUME NEW b \in bs
      PROVE  /\ b \in Block /\ b.chunk \in 1..L /\ b.from \in Nat /\ b.to \in Nat
             /\ b.from < b.to /\ b.to <= list[b.chunk].used
    BY DEF Good, Block, InChunks, L
<1>10. InChunks(x, cs)
    <2>1. ASSUME NEW k \in 1..L
          PROVE  x[k].used <= x[k].cap /\ x[k].dirty <= x[k].used
        <3>1. list[k].used <= list[k].cap /\ list[k].dirty <= list[k].used
            BY DEF Good, InChunks, L
        <3> QED BY <1>5, <1>7, <3>1
    <2>2. ASSUME NEW b \in cs
          PROVE  b.chunk \in 1..L /\ b.from < b.to /\ b.to <= x[b.chunk].used
        <3>1. CASE b = new
            BY <1>2, <1>3, <1>5, <1>6, <1>7, <3>1
        <3>2. CASE b \in bs
            <4>1. b.chunk \in 1..L /\ b.from < b.to /\ b.to <= list[b.chunk].used /\ b.to \in Nat
                BY <1>9, <3>2
            <4>2. CASE b.chunk = L
                <5>1. b.to <= c.used /\ x[b.chunk].used = c.used + w
                    BY <1>5, <1>7, <4>1, <4>2 DEF c
                <5>2. b.to <= c.used + w
                    BY <1>3, <4>1, <5>1
                <5> QED BY <4>1, <5>1, <5>2
            <4>3. CASE b.chunk # L
                BY <1>7, <4>1, <4>3
            <4> QED BY <4>2, <4>3
        <3> QED BY <1>a, <3>1, <3>2
    <2> QED BY <1>7, <2>1, <2>2 DEF InChunks
<1>11. Apart(cs)
    <2>1. ASSUME NEW b \in bs, b.chunk = L PROVE b.to <= new.from
        BY <1>6, <1>9, <2>1 DEF c
    <2>2. \A a, b \in bs : a.chunk = b.chunk => a = b \/ a.to <= b.from \/ b.to <= a.from
        BY DEF Good, Apart
    <2>3. ASSUME NEW a \in cs, NEW b \in cs, a.chunk = b.chunk
          PROVE  a = b \/ a.to <= b.from \/ b.to <= a.from
        <3>1. CASE a \in bs /\ b \in bs
            BY <2>2, <2>3, <3>1
        <3>2. CASE a = new /\ b \in bs
            BY <1>6, <2>1, <2>3, <3>2
        <3>3. CASE a \in bs /\ b = new
            BY <1>6, <2>1, <2>3, <3>3
        <3>4. CASE a = new /\ b = new
            BY <3>4
        <3> QED BY <1>a, <3>1, <3>2, <3>3, <3>4
    <2> QED BY <2>3 DEF Apart
<1>12. \E t : Adds(t, x) /\ m + w = t[Len(x)]
    <2>1. PICK s : Adds(s, list) /\ m = s[L]
        BY DEF Good, L
    <2>2. s \in [0..L -> Nat] /\ s[0] = 0 /\ \A k \in 1..L : s[k] = s[k - 1] + list[k].used
        BY <2>1 DEF Adds, L
    <2>3. m \in Nat /\ m = s[L - 1] + c.used /\ s[L - 1] \in Nat
        <3>1. L \in 0..L /\ L - 1 \in 0..L
            BY <1>1
        <3> QED BY <1>2, <2>1, <2>2, <3>1 DEF c
    <2> DEFINE t == [s EXCEPT ![L] = m + w]
    <2>4. t \in [0..L -> Nat] /\ t[0] = 0 /\ t[L] = m + w
        BY <1>1, <2>2, <2>3
    <2>5. \A k \in 0..L : k # L => t[k] = s[k]
        BY <2>2
    <2> HIDE DEF t
    <2>6. ASSUME NEW k \in 1..L PROVE t[k] = t[k - 1] + x[k].used
        <3>1. k - 1 \in 0..L /\ k - 1 # L /\ k \in 0..L
            BY <1>1
        <3>2. t[k - 1] = s[k - 1]
            BY <2>5, <3>1
        <3>3. CASE k # L
            BY <1>7, <2>2, <2>5, <3>1, <3>2, <3>3
        <3>4. CASE k = L
            <4>1. t[k - 1] = s[L - 1] /\ x[k].used = c.used + w /\ t[k] = m + w
                BY <1>5, <1>7, <2>4, <3>2, <3>4
            <4> QED BY <1>3, <2>3, <4>1
        <3> QED BY <3>3, <3>4
    <2>7. Adds(t, x)
        BY <1>7, <2>4, <2>6 DEF Adds
    <2> QED BY <1>7, <2>4, <2>7
<1>13. Good(x, cs, m + w)
    BY <1>7, <1>8, <1>10, <1>11, <1>12 DEF Good
<1> QED BY <1>13 DEF x, cs

(* Rounding up to the alignment.                                           *)
LEMMA RoundedUp ==
    ASSUME NEW n \in Nat
    PROVE  Rounded(n) \in Nat /\ n <= Rounded(n)
<1>1. ArenaAlign \in Nat \ {0}
    BY ArenaAssumption
<1>2. (n + ArenaAlign - 1) \div ArenaAlign \in Nat
    BY <1>1
<1>3. ((n + ArenaAlign - 1) \div ArenaAlign) * ArenaAlign \in Nat
    BY <1>1, <1>2
<1>4. ((n + ArenaAlign - 1) \div ArenaAlign) * ArenaAlign >= n
    BY <1>1
<1> QED BY <1>3, <1>4 DEF Rounded

(* A new chunk has room for what it is for.                                *)
LEMMA DoubledIsEnough ==
    ASSUME NEW w \in Nat, limit \in Nat
    PROVE  Doubled(w) \in Nat /\ w <= Doubled(w)
<1>1. CASE Enough(w) = {}
    BY <1>1 DEF Doubled
<1>2. CASE Enough(w) # {}
    <2>1. Doubled(w) \in Enough(w)
        BY <1>2 DEF Doubled
    <2>2. Doubled(w) \in Doublings /\ Doubled(w) >= w
        BY <2>1 DEF Enough
    <2>3. Doubled(w) \in Nat
        BY <2>2 DEF Doublings
    <2> QED BY <2>2, <2>3
<1> QED BY <1>1, <1>2

(* The inductive invariant of the arena: besides what ArenaSound says,     *)
(* data is only where bytes were cut and a closed arena has no chunks.     *)
ArenaInv ==
    /\ Good(chunks, blocks, used)
    /\ used <= limit /\ used <= peak /\ peak \in Nat
    /\ limit \in {0, ArenaLimit} /\ (limit = 0 => chunks = <<>>)
    /\ released = 0
    /\ spare = <<>> \/ (\E c \in ArenaChunk : spare = <<c>> /\ c.dirty = 0)

LEMMA GoodCount ==
    ASSUME NEW list, NEW bs, NEW n, Good(list, bs, n)
    PROVE  n \in Nat /\ n = Sum(list) /\ (list = <<>> => n = 0 /\ bs = {})
<1>1. list \in Seq(ArenaChunk) /\ Len(list) \in Nat
    BY LenProperties DEF Good
<1>2. PICK s : Adds(s, list) /\ n = s[Len(list)]
    BY DEF Good
<1>3. n = Sum(list)
    BY <1>1, <1>2, SumIsLast
<1>4. n \in Nat
    BY <1>1, <1>2 DEF Adds
<1>5. ASSUME list = <<>> PROVE n = 0 /\ bs = {}
    <2>1. Len(list) = 0
        BY <1>5
    <2>2. n = 0
        BY <1>2, <2>1 DEF Adds
    <2>3. bs = {}
        BY <2>1 DEF Good, InChunks
    <2> QED BY <2>2, <2>3
<1> QED BY <1>3, <1>4, <1>5

LEMMA NothingCut == Good(<<>>, {}, 0)
<1> DEFINE s == [k \in 0..0 |-> 0]
<1>1. <<>> \in Seq(ArenaChunk) /\ Len(<<>>) = 0
    OBVIOUS
<1>2. s \in [0..0 -> Nat] /\ s[0] = 0
    OBVIOUS
<1> HIDE DEF s
<1>3. Adds(s, <<>>)
    BY <1>1, <1>2 DEF Adds
<1>4. InChunks(<<>>, {}) /\ Apart({})
    BY <1>1 DEF InChunks, Apart
<1> QED BY <1>1, <1>2, <1>3, <1>4 DEF Good

(* Every allocation cuts a block from a list of chunks with room for it.   *)
LEMMA CutKeeps ==
    ASSUME ArenaInv, NEW n \in Nat, NEW list, Admits(n), Cut(list, n),
           Good(list, blocks, used), list # <<>>,
           Rounded(n) <= list[Len(list)].cap - list[Len(list)].used,
           UNCHANGED <<limit, released>>,
           spare' = <<>> \/ spare' = spare
    PROVE  ArenaInv'
<1>1. n > 0 /\ limit > 0 /\ Rounded(n) <= limit - used
    BY DEF Admits
<1>2. Rounded(n) \in Nat /\ n <= Rounded(n)
    BY RoundedUp
<1>3. used \in Nat /\ limit \in Nat
    BY GoodCount, ArenaAssumption DEF ArenaInv
<1>4. /\ chunks' = AfterCut(list, n, Rounded(n))
      /\ blocks' = blocks \cup {CutBlock(list, n)}
      /\ used' = used + Rounded(n)
      /\ peak' = (IF used' > peak THEN used' ELSE peak)
    BY DEF Cut, AfterCut, CutBlock
<1>5. Good(chunks', blocks', used')
    <2>1. Good(AfterCut(list, n, Rounded(n)), blocks \cup {CutBlock(list, n)}, used + Rounded(n))
        BY <1>1, <1>2, GoodCut
    <2> QED BY Zenon, <1>4, <2>1
<1>6. used' <= limit' /\ used' <= peak' /\ peak' \in Nat
    BY <1>1, <1>2, <1>3, <1>4 DEF ArenaInv
<1>7. limit' \in {0, ArenaLimit} /\ limit' # 0
    BY <1>1 DEF ArenaInv
<1>8. spare' = <<>> \/ (\E c \in ArenaChunk : spare' = <<c>> /\ c.dirty = 0)
    BY DEF ArenaInv
<1> QED BY <1>5, <1>6, <1>7, <1>8 DEF ArenaInv

LEMMA AllocKeeps ==
    ASSUME ArenaInv, NEW n \in Nat, AllocHere(n) \/ AllocSpare(n) \/ AllocNew(n)
    PROVE  ArenaInv'
<1>1. Good(chunks, blocks, used) /\ chunks \in Seq(ArenaChunk) /\ Len(chunks) \in Nat
    BY LenProperties DEF ArenaInv, Good
<1>2. Rounded(n) \in Nat
    BY RoundedUp
<1>3. CASE AllocHere(n)
    <2>1. chunks # <<>> /\ Rounded(n) <= chunks[Len(chunks)].cap - chunks[Len(chunks)].used
        BY <1>3 DEF AllocHere, HeadHas, Last
    <2> QED BY <1>1, <1>3, <2>1, CutKeeps DEF AllocHere
<1>4. ASSUME NEW c \in ArenaChunk, c.used = 0, c.dirty = 0, Rounded(n) <= c.cap,
             Admits(n), Cut(Append(chunks, c), n), UNCHANGED <<limit, released>>,
             spare' = <<>> \/ spare' = spare
      PROVE  ArenaInv'
    <2> DEFINE list == Append(chunks, c)
    <2>1. list \in Seq(ArenaChunk) /\ Len(list) = Len(chunks) + 1 /\ list[Len(list)] = c
        BY <1>1, AppendProperties
    <2>2. Good(list, blocks, used)
        BY <1>1, <1>4, GoodAppend
    <2>3. c.cap \in Nat
        BY DEF ArenaChunk
    <2>4. Cut(list, n)
        BY <1>4
    <2> HIDE DEF list
    <2>5. list # <<>>
        BY <1>1, <2>1, EmptySeq
    <2>6. Rounded(n) <= list[Len(list)].cap - list[Len(list)].used
        BY <1>2, <1>4, <2>1, <2>3
    <2> QED BY <1>4, <2>2, <2>4, <2>5, <2>6, CutKeeps
<1>5. CASE AllocSpare(n)
    <2>1. PICK c \in ArenaChunk : spare = <<c>> /\ c.dirty = 0
        BY <1>5 DEF AllocSpare, SpareHas, ArenaInv
    <2> DEFINE d == [spare[1] EXCEPT !.used = 0]
    <2>2. d = [c EXCEPT !.used = 0] /\ spare[1] = c
        BY <2>1
    <2>3. d \in ArenaChunk /\ d.used = 0 /\ d.dirty = 0 /\ d.cap = c.cap
        BY <2>1, <2>2 DEF ArenaChunk
    <2>4. Rounded(n) <= d.cap
        BY <1>2, <1>5, <2>2, <2>3 DEF AllocSpare, SpareHas, ArenaChunk
    <2>5. Admits(n) /\ Cut(Append(chunks, d), n) /\ UNCHANGED <<limit, released>> /\ spare' = <<>>
        BY <1>5 DEF AllocSpare
    <2> HIDE DEF d
    <2> QED BY <1>4, <2>3, <2>4, <2>5
<1>6. CASE AllocNew(n)
    <2> DEFINE d == [cap |-> Doubled(Rounded(n)), used |-> 0, dirty |-> 0]
    <2>1. limit \in Nat
        BY ArenaAssumption DEF ArenaInv
    <2>2. Doubled(Rounded(n)) \in Nat /\ Rounded(n) <= Doubled(Rounded(n))
        BY <1>2, <2>1, DoubledIsEnough
    <2>3. d \in ArenaChunk /\ d.used = 0 /\ d.dirty = 0 /\ Rounded(n) <= d.cap
        BY <2>2 DEF ArenaChunk
    <2>4. Admits(n) /\ Cut(Append(chunks, d), n) /\ UNCHANGED <<limit, released>> /\ spare' = spare
        BY <1>6 DEF AllocNew
    <2> HIDE DEF d
    <2> QED BY <1>4, <2>3, <2>4
<1> QED BY <1>3, <1>5, <1>6

(* A reset wipes all that was cut, so that no chunk leaves with data.      *)
LEMMA ResetKeeps ==
    ASSUME ArenaInv, ArenaReset
    PROVE  ArenaInv'
<1> DEFINE first == CHOOSE i \in Kept : \A j \in Kept : i <= j
           keep  == IF spare = <<>> /\ Kept # {} THEN {first} ELSE {}
           dirty == {i \in DOMAIN ResetOrder \ keep : Wiped(ResetOrder[i]).dirty > 0}
<1>1. chunks \in Seq(ArenaChunk) /\ Len(chunks) \in Nat
    BY LenProperties DEF ArenaInv, Good
<1>2. /\ spare' = (IF keep = {} THEN spare ELSE <<Wiped(ResetOrder[first])>>)
      /\ released' = released + Cardinality(dirty)
      /\ chunks' = <<>> /\ used' = 0 /\ blocks' = {}
      /\ UNCHANGED <<limit, peak>>
    BY DEF ArenaReset
<1>3. ASSUME NEW i \in DOMAIN ResetOrder
      PROVE  Wiped(ResetOrder[i]) \in ArenaChunk /\ Wiped(ResetOrder[i]).dirty = 0
    <2> DEFINE k == Len(chunks) - i + 1
               c == ResetOrder[i]
    <2>1. i \in 1..Len(chunks)
        BY DEF ResetOrder, Reverse
    <2>2. k \in 1..Len(chunks)
        BY <1>1, <2>1
    <2>3. c = chunks[k]
        BY <2>1 DEF ResetOrder, Reverse
    <2>4. c \in ArenaChunk
        BY <1>1, <2>2, <2>3, ElementOfSeq
    <2>5. c.dirty <= c.used
        BY <2>2, <2>3 DEF ArenaInv, Good, InChunks
    <2> HIDE DEF c, k
    <2>6. Wiped(c) = [c EXCEPT !.used = 0, !.dirty = 0]
        BY <2>4, <2>5 DEF Wiped, ArenaChunk
    <2> DEFINE d == [c EXCEPT !.used = 0, !.dirty = 0]
    <2>7. d.dirty = 0
        BY <2>4 DEF ArenaChunk
    <2>8. d \in ArenaChunk
        BY <2>4 DEF ArenaChunk
    <2> HIDE DEF d
    <2>9. Wiped(c) = d
        BY <2>6 DEF d
    <2> QED BY <2>7, <2>8, <2>9 DEF c
<1>4. released' = 0
    <2>1. \A i \in DOMAIN ResetOrder : ~(Wiped(ResetOrder[i]).dirty > 0)
        BY <1>3
    <2>2. dirty = {}
        BY <2>1
    <2>3. Cardinality(dirty) = 0
        BY <2>2, FS_EmptySet
    <2> QED BY <1>2, <2>3 DEF ArenaInv
<1>5. spare' = <<>> \/ (\E c \in ArenaChunk : spare' = <<c>> /\ c.dirty = 0)
    <2>1. CASE keep = {}
        BY <1>2, <2>1 DEF ArenaInv
    <2>2. CASE keep # {}
        <3>1. Kept # {}
            BY <2>2
        <3>2. Kept \in SUBSET Nat
            BY <1>1 DEF Kept, ResetOrder, Reverse
        <3>3. \E i \in Kept : \A j \in Kept : i <= j
            BY <3>1, <3>2, LeastOfNat
        <3>4. first \in Kept
            BY <3>3
        <3>5. first \in DOMAIN ResetOrder
            BY <3>4 DEF Kept
        <3>6. spare' = <<Wiped(ResetOrder[first])>>
            BY <1>2, <2>2
        <3> HIDE DEF first
        <3> QED BY <1>3, <3>5, <3>6
    <2> QED BY <2>1, <2>2
<1>6. Good(chunks', blocks', used')
    BY <1>2, NothingCut
<1>7. used' <= limit' /\ used' <= peak' /\ peak' \in Nat /\ limit' \in {0, ArenaLimit}
    BY <1>2, ArenaAssumption DEF ArenaInv
<1> QED BY <1>2, <1>4, <1>5, <1>6, <1>7 DEF ArenaInv

LEMMA FreeKeeps ==
    ASSUME ArenaInv, ArenaFree \/ ArenaAgain
    PROVE  ArenaInv'
<1>1. chunks = <<>> /\ used = 0
    BY GoodCount DEF ArenaInv, ArenaFree, ArenaAgain
<1>2. UNCHANGED <<chunks, blocks>> /\ used' = 0
    BY <1>1 DEF ArenaFree, ArenaAgain
<1>3. Good(chunks', blocks', used')
    BY <1>1, <1>2 DEF ArenaInv
<1>4. peak' \in Nat /\ limit' \in {0, ArenaLimit} /\ used' <= limit' /\ used' <= peak'
    BY <1>2, ArenaAssumption DEF ArenaInv, ArenaFree, ArenaAgain
<1>5. CASE ArenaFree
    <2> DEFINE dirty == {i \in DOMAIN spare : spare[i].dirty > 0}
    <2>1. dirty = {}
        <3>1. CASE spare = <<>>
            BY <3>1
        <3>2. CASE spare # <<>>
            <4>1. PICK c \in ArenaChunk : spare = <<c>> /\ c.dirty = 0
                BY <3>2 DEF ArenaInv
            <4>2. DOMAIN spare = {1} /\ ~(spare[1].dirty > 0)
                BY <4>1
            <4> QED BY <4>2
        <3> QED BY <3>1, <3>2
    <2>2. Cardinality(dirty) = 0
        BY <2>1, FS_EmptySet
    <2>3. released' = 0 /\ spare' = <<>>
        BY <1>5, <2>2 DEF ArenaInv, ArenaFree
    <2> QED BY <1>1, <1>2, <1>3, <1>4, <2>3 DEF ArenaInv
<1>6. CASE ArenaAgain
    <2>1. UNCHANGED <<released, spare>>
        BY <1>6 DEF ArenaAgain
    <2> QED BY <1>1, <1>2, <1>3, <1>4, <2>1 DEF ArenaInv
<1> QED BY <1>5, <1>6

LEMMA ArenaInvIsSound == ArenaInv => ArenaSound
<1> SUFFICES ASSUME ArenaInv PROVE ArenaSound
    OBVIOUS
<1>1. Good(chunks, blocks, used) /\ chunks \in Seq(ArenaChunk) /\ blocks \subseteq Block
    BY DEF ArenaInv, Good
<1>2. used = Sum(chunks)
    BY <1>1, GoodCount
<1>3. ASSUME NEW b \in blocks PROVE b.to <= chunks[b.chunk].cap
    <2>1. /\ b.chunk \in 1..Len(chunks) /\ b.to <= chunks[b.chunk].used
          /\ chunks[b.chunk].used <= chunks[b.chunk].cap
        BY <1>1 DEF Good, InChunks
    <2>2. chunks[b.chunk] \in ArenaChunk /\ b \in Block
        BY <1>1, <2>1, ElementOfSeq
    <2> QED BY <2>1, <2>2 DEF ArenaChunk, Block
<1>4. spare # <<>> => spare[1].dirty = 0
    BY DEF ArenaInv
<1>5. used <= limit /\ used <= peak /\ released = 0
    BY DEF ArenaInv
<1>6. \A a, b \in blocks : a.chunk = b.chunk => a = b \/ a.to <= b.from \/ b.to <= a.from
    BY <1>1 DEF Good, Apart
<1> QED BY <1>2, <1>3, <1>4, <1>5, <1>6 DEF ArenaSound

(* Whatever is asked of an arena, in any order and for any limit, sizes    *)
(* and alignment, the blocks it gives out do not overlap and stay in their *)
(* chunks, its count is what was cut and within the limit, and no chunk    *)
(* goes to the next request or to the system with data in it.              *)
THEOREM ArenaIsSound == ArenaSpec => []ArenaSound
<1>1. ArenaInit => ArenaInv
    BY NothingCut, ArenaAssumption DEF ArenaInit, ArenaInv
<1>2. ArenaInv /\ [ArenaNext]_arenaVars => ArenaInv'
    <2> SUFFICES ASSUME ArenaInv, [ArenaNext]_arenaVars PROVE ArenaInv'
        OBVIOUS
    <2>1. ASSUME NEW n \in 1..AllocMax, AllocHere(n) \/ AllocSpare(n) \/ AllocNew(n)
          PROVE  ArenaInv'
        <3>1. n \in Nat
            BY ArenaAssumption
        <3> QED BY <2>1, <3>1, AllocKeeps
    <2>2. CASE ArenaReset
        BY <2>2, ResetKeeps
    <2>3. CASE ArenaFree \/ ArenaAgain
        BY <2>3, FreeKeeps
    <2>4. CASE UNCHANGED arenaVars
        BY <2>4 DEF ArenaInv, arenaVars
    <2> QED BY <2>1, <2>2, <2>3, <2>4 DEF ArenaNext
<1> QED BY <1>1, <1>2, ArenaInvIsSound, PTL DEF ArenaSpec

-----------------------------------------------------------------------------
(* The store.                                                              *)

RawRow == [Fields -> Cells \cup {NoCell}]

Task == [kind : {"idle", "add", "put", "get", "list"}, row : Nat, field : Nat,
         to : Nat, value : Seq(RawRow) \cup Row]

Result == [done : BOOLEAN, short : {"no", "memory", "limit"}, rows : Seq(RawRow)]

StoreTypes ==
    /\ capacity \in 1..PageMax /\ lock \in Users \cup {NoUser}
    /\ rows \in [1..capacity -> RawRow]
    /\ ideal \in Seq(Row) /\ count = Len(ideal) /\ count <= capacity
    /\ op \in [Users -> Task] /\ seen \in [Users -> Seq(Row)]
    /\ got \in [Users -> Result]

(* The fields before the next one are written.                             *)
HalfWritten(o, data) ==
    /\ o.value \in Row /\ o.field > 0
    /\ \A f \in Fields : f < o.field => data[o.row][f] = o.value[f]

Writes(o, n, data) ==
    /\ o.kind \in {"add", "put"} /\ HalfWritten(o, data)
    /\ o.row \in DOMAIN data
    /\ IF o.kind = "add" THEN o.row = n + 1 ELSE o.row \in 1..n

(* Row j of the copy is the row of the table j - o.to after o.row.         *)
Aligned(o, found, data) ==
    \A j \in 1..Len(found) :
        o.row + j - o.to \in 1..Len(data) /\ data[o.row + j - o.to] = found[j]

(* What was copied is what is to be found.                                 *)
Copied(o, found) ==
    \A j \in 1..Len(found), f \in Fields :
        j < o.to \/ (j = o.to /\ f < o.field) => o.value[j][f] = found[j][f]

Reads(o, found, data) ==
    /\ o.kind \in {"get", "list"}
    /\ o.value \in Seq(RawRow) /\ Len(o.value) = Len(found)
    /\ o.to \in 1..(Len(found) + 1) /\ o.field \in Fields
    /\ Aligned(o, found, data) /\ Copied(o, found)

(* Only the holder of the lock is at work, and its work is well begun.     *)
Holding ==
    \A u \in Users :
        IF lock = u
        THEN Writes(op[u], count, rows) \/ Reads(op[u], seen[u], ideal)
        ELSE op[u] = Idle

(* The rows are those of the ideal table, but for one that is overwritten. *)
Overwritten(i) == \E u \in Users : op[u].kind = "put" /\ op[u].row = i

Stored == \A i \in 1..count : Overwritten(i) \/ rows[i] = ideal[i]

StoreInv == StoreTypes /\ Holding /\ Stored /\ ReadsAreSnapshots

LEMMA IdleTask == Idle \in Task /\ Idle.kind = "idle"
<1>1. <<>> \in Seq(RawRow)
    OBVIOUS
<1> QED BY <1>1 DEF Idle, Task

(* A row is a slot, and a list of rows a list of slots.                    *)
LEMMA RowsAreRaw == Row \subseteq RawRow /\ BlankRow \in RawRow
    BY DEF Row, RawRow, BlankRow

(* The threads without the lock stay idle.                                 *)
LEMMA HoldingKept ==
    ASSUME Holding, op \in [Users -> Task], NEW u \in Users, lock \in {u, NoUser}, NEW o,
           op' = [op EXCEPT ![u] = o],
           \/ lock' = u /\ (Writes(o, count', rows') \/ Reads(o, seen'[u], ideal'))
           \/ lock' = NoUser /\ o = Idle
    PROVE  Holding'
<1>1. ASSUME NEW v \in Users
      PROVE  IF lock' = v
             THEN Writes(op'[v], count', rows') \/ Reads(op'[v], seen'[v], ideal')
             ELSE op'[v] = Idle
    <2>1. NoUser \notin Users
        BY StoreAssumption
    <2>2. CASE v = u
        <3>1. op'[v] = o
            BY <2>2
        <3> QED BY <2>1, <2>2, <3>1
    <2>3. CASE v # u
        <3>1. op'[v] = op[v] /\ op[v] = Idle /\ lock' # v
            BY <2>1, <2>3 DEF Holding
        <3> QED BY <3>1
    <2> QED BY <2>2, <2>3
<1> QED BY <1>1 DEF Holding

(* Who is at work has the lock, and no one else is at work.                *)
LEMMA BusyHolds ==
    ASSUME Holding, NEW u \in Users, op[u].kind # "idle"
    PROVE  /\ lock = u
           /\ \A v \in Users : v # u => op[v].kind = "idle"
           /\ op[u].kind \in {"add", "put"} => Writes(op[u], count, rows)
           /\ op[u].kind \in {"get", "list"} => Reads(op[u], seen[u], ideal)
<1>1. lock = u /\ (Writes(op[u], count, rows) \/ Reads(op[u], seen[u], ideal))
    BY IdleTask DEF Holding
<1>2. \A v \in Users : v # u => op[v] = Idle
    BY <1>1 DEF Holding
<1> QED BY <1>1, <1>2, IdleTask DEF Writes, Reads

(* With the lock free the rows are those of the ideal table.               *)
LEMMA FreeIsStored ==
    ASSUME StoreInv, lock = NoUser
    PROVE  \A i \in 1..count : rows[i] = ideal[i]
<1>1. \A v \in Users : op[v].kind = "idle"
    BY StoreAssumption, IdleTask DEF StoreInv, Holding
<1> QED BY <1>1 DEF StoreInv, Stored, Overwritten

(* A read or a write begins when no one is at work.                        *)
Begun(kind, row, value) ==
    [kind |-> kind, row |-> row, field |-> 1, to |-> 1, value |-> value]

LEMMA BeginKeeps ==
    ASSUME StoreInv, NEW u \in Users, lock = NoUser, lock' = u,
           NEW kind \in {"add", "put", "get", "list"}, NEW row \in Nat,
           NEW value \in Seq(RawRow) \cup Row, NEW found \in Seq(Row),
           Begin(u, kind, row, value, found),
           UNCHANGED <<capacity, rows, count, ideal>>,
           \/ Writes(Begun(kind, row, value), count, rows)
           \/ Reads(Begun(kind, row, value), found, ideal)
    PROVE  StoreInv'
<1> DEFINE o == Begun(kind, row, value)
<1>1. /\ op' = [op EXCEPT ![u] = o]
      /\ seen' = [seen EXCEPT ![u] = found]
      /\ got' = [got EXCEPT ![u] = NoRead]
    BY DEF Begin, Begun
<1>2. o \in Task
    BY DEF Begun, Task
<1>3. StoreTypes /\ Holding /\ op \in [Users -> Task] /\ seen \in [Users -> Seq(Row)]
    BY DEF StoreInv, StoreTypes
<1>4. NoRead \in Result /\ NoRead.done = FALSE
    BY DEF NoRead, Result
<1> HIDE DEF o
<1>5. StoreTypes'
    BY <1>1, <1>2, <1>3, <1>4 DEF StoreTypes
<1>6. seen'[u] = found
    BY <1>1, <1>3
<1>7. Writes(o, count', rows') \/ Reads(o, seen'[u], ideal')
    BY <1>6 DEF o
<1>8. Holding'
    BY <1>1, <1>3, <1>7, HoldingKept
<1>9. Stored'
    <2>1. \A i \in 1..count : rows[i] = ideal[i]
        BY FreeIsStored
    <2> QED BY <2>1 DEF Stored
<1>10. ReadsAreSnapshots'
    <2>1. ASSUME NEW v \in Users, got'[v].done
          PROVE  got'[v].short # "limit" /\ (got'[v].short = "no" => got'[v].rows = seen'[v])
        <3>1. got \in [Users -> Result]
            BY <1>3 DEF StoreTypes
        <3>2. v # u
            BY <1>1, <1>4, <2>1, <3>1
        <3>3. got'[v] = got[v] /\ seen'[v] = seen[v]
            BY <1>1, <1>3, <3>1, <3>2
        <3> QED BY <2>1, <3>3 DEF StoreInv, ReadsAreSnapshots
    <2> QED BY <2>1 DEF ReadsAreSnapshots
<1> QED BY <1>5, <1>8, <1>9, <1>10 DEF StoreInv

(* The fields are numbered from 1.                                         *)
LEMMA FirstField == 1 \in Fields /\ \A f \in Fields : f \in Nat /\ f >= 1
<1>1. Fields = 1..Cardinality(Fields) /\ Fields # {} /\ Cardinality(Fields) \in Nat
    BY StoreAssumption, FS_CardinalityType
<1> DEFINE n == Cardinality(Fields)
<1> HIDE DEF n
<1>2. Fields = 1..n /\ n \in Nat
    BY <1>1 DEF n
<1>3. PICK f \in 1..n : TRUE
    BY <1>1, <1>2
<1>4. 1 \in 1..n /\ \A g \in 1..n : g \in Nat /\ g >= 1
    BY <1>2, <1>3
<1> QED BY <1>2, <1>4

LEMMA BeginWriteKeeps ==
    ASSUME StoreInv, NEW u \in Users, NEW i \in 1..capacity, NEW v \in Row,
           NEW append \in BOOLEAN, BeginWrite(u, i, v, append)
    PROVE  StoreInv'
<1> DEFINE kind == IF append THEN "add" ELSE "put"
<1>1. /\ kind \in {"add", "put"} /\ i \in Nat /\ v \in Seq(RawRow) \cup Row
      /\ <<>> \in Seq(Row) /\ count \in Nat
    BY LenProperties DEF StoreInv, StoreTypes
<1>2. /\ lock = NoUser /\ lock' = u /\ Begin(u, kind, i, v, <<>>)
      /\ UNCHANGED <<capacity, rows, count, ideal>>
    BY DEF BeginWrite
<1>3. IF kind = "add" THEN i = count + 1 ELSE i \in 1..count
    BY <1>1 DEF BeginWrite
<1> HIDE DEF kind
<1> DEFINE o == Begun(kind, i, v)
<1>4. o.kind = kind /\ o.row = i /\ o.field = 1 /\ o.value = v
    BY DEF Begun
<1> HIDE DEF o
<1>5. i \in DOMAIN rows
    BY DEF StoreInv, StoreTypes
<1>6. \A f \in Fields : ~(f < 1)
    BY FirstField
<1>7. Writes(o, count, rows)
    BY <1>1, <1>3, <1>4, <1>5, <1>6 DEF Writes, HalfWritten
<1> QED BY <1>1, <1>2, <1>7, BeginKeeps DEF o

LEMMA BeginGetKeeps ==
    ASSUME StoreInv, NEW u \in Users, NEW i \in 1..capacity, BeginGet(u, i)
    PROVE  StoreInv'
<1> DEFINE found == <<ideal[i]>>
           o == Begun("get", i, <<BlankRow>>)
<1>1. /\ lock = NoUser /\ lock' = u /\ Begin(u, "get", i, <<BlankRow>>, found)
      /\ UNCHANGED <<capacity, rows, count, ideal>> /\ i \in 1..count
    BY DEF BeginGet, MayRead
<1>2. /\ ideal \in Seq(Row) /\ count = Len(ideal) /\ count \in Nat /\ i \in Nat
    BY LenProperties DEF StoreInv, StoreTypes
<1>3. ideal[i] \in Row
    BY <1>1, <1>2, ElementOfSeq
<1>4. /\ found \in Seq(Row) /\ Len(found) = 1 /\ found[1] = ideal[i]
      /\ <<BlankRow>> \in Seq(RawRow) /\ Len(<<BlankRow>>) = 1
    BY <1>3, RowsAreRaw
<1>5. /\ o.kind = "get" /\ o.row = i /\ o.field = 1 /\ o.to = 1
      /\ o.value = <<BlankRow>>
    BY DEF Begun
<1> HIDE DEF o, found
<1>6. Aligned(o, found, ideal)
    <2>1. \A j \in 1..Len(found) : j = 1
        BY <1>4
    <2>2. o.row + 1 - o.to = i
        BY <1>2, <1>5
    <2> QED BY <1>1, <1>2, <1>4, <2>1, <2>2 DEF Aligned
<1>7. Copied(o, found)
    <2>1. \A j \in 1..Len(found) : ~(j < 1)
        BY <1>4
    <2>2. \A f \in Fields : ~(f < 1)
        BY FirstField
    <2> QED BY <1>5, <2>1, <2>2 DEF Copied
<1>8. Reads(o, found, ideal)
    BY <1>4, <1>5, <1>6, <1>7, FirstField DEF Reads
<1> QED BY <1>1, <1>2, <1>4, <1>8, BeginKeeps DEF o

LEMMA BeginListKeeps ==
    ASSUME StoreInv, NEW u \in Users, BeginList(u)
    PROVE  StoreInv'
<1> DEFINE value == [i \in 1..count |-> BlankRow]
           o == Begun("list", 1, value)
<1>1. /\ ideal \in Seq(Row) /\ count = Len(ideal) /\ count \in Nat
      /\ capacity \in Nat /\ capacity <= PageMax /\ count <= capacity
    BY LenProperties, StoreAssumption DEF StoreInv, StoreTypes
<1>2. ~(count > PageMax)
    BY <1>1, StoreAssumption
<1>3. /\ lock = NoUser /\ lock' = u /\ Begin(u, "list", 1, value, ideal)
      /\ UNCHANGED <<capacity, rows, count, ideal>>
    BY <1>2 DEF BeginList, MayRead
<1>4. value \in Seq(RawRow) /\ Len(value) = Len(ideal)
    BY <1>1, RowsAreRaw
<1>5. o.kind = "list" /\ o.row = 1 /\ o.field = 1 /\ o.to = 1 /\ o.value = value
    BY DEF Begun
<1> HIDE DEF o, value
<1>6. Aligned(o, ideal, ideal)
    <2>1. \A j \in 1..Len(ideal) : o.row + j - o.to = j
        BY <1>5
    <2> QED BY <2>1 DEF Aligned
<1>7. Copied(o, ideal)
    <2>1. \A j \in 1..Len(ideal) : ~(j < 1)
        BY <1>1
    <2>2. \A f \in Fields : ~(f < 1)
        BY FirstField
    <2> QED BY <1>5, <2>1, <2>2 DEF Copied
<1>8. Reads(o, ideal, ideal)
    BY <1>1, <1>4, <1>5, <1>6, <1>7, FirstField DEF Reads
<1> QED BY <1>1, <1>3, <1>4, <1>8, BeginKeeps DEF o

(* Only the row of the writer changes, a field of it.                      *)
LEMMA WriteFieldKeeps ==
    ASSUME StoreInv, NEW u \in Users, WriteField(u)
    PROVE  StoreInv'
<1> DEFINE o == op[u]
           r == op[u].row
           f == op[u].field
           p == [op[u] EXCEPT !.field = @ + 1]
<1>1. /\ op \in [Users -> Task] /\ o \in Task /\ o.kind \in {"add", "put"} /\ f \in Fields
      /\ rows \in [1..capacity -> RawRow]
      /\ rows' = [rows EXCEPT ![r][f] = o.value[f]]
      /\ op' = [op EXCEPT ![u] = p]
      /\ UNCHANGED <<capacity, lock, count, ideal, seen, got>>
    BY DEF WriteField, StoreInv, StoreTypes
<1>2. lock = u /\ Writes(o, count, rows) /\ \A v \in Users : v # u => op[v].kind = "idle"
    BY <1>1, BusyHolds DEF StoreInv
<1>3. /\ r \in 1..capacity /\ o.value \in Row /\ f \in Nat /\ f > 0
      /\ \A g \in Fields : g < f => rows[r][g] = o.value[g]
      /\ IF o.kind = "add" THEN r = count + 1 ELSE r \in 1..count
    BY <1>1, <1>2, FirstField DEF Writes, HalfWritten
<1>4. p.kind = o.kind /\ p.row = r /\ p.field = f + 1 /\ p.value = o.value /\ p \in Task
    <2>1. f + 1 \in Nat
        BY <1>3
    <2>2. p.kind = o.kind /\ p.row = r /\ p.field = f + 1 /\ p.value = o.value
        BY <1>1 DEF Task
    <2>3. p = [o EXCEPT !.field = f + 1]
        BY <1>1 DEF Task
    <2>4. p \in Task
        <3> HIDE DEF p, f
        <3> QED BY <1>1, <2>1, <2>3 DEF Task
    <2> QED BY <2>2, <2>4
<1>5. count \in Nat /\ StoreTypes
    BY LenProperties DEF StoreInv, StoreTypes
<1> HIDE DEF o, r, f, p
<1>6. /\ rows' \in [1..capacity -> RawRow]
      /\ \A i \in 1..capacity : i # r => rows'[i] = rows[i]
      /\ rows'[r][f] = o.value[f]
      /\ \A g \in Fields : g # f => rows'[r][g] = rows[r][g]
    <2>1. o.value[f] \in Cells \cup {NoCell}
        BY <1>1, <1>3 DEF Row
    <2>2. rows[r] \in RawRow
        BY <1>1, <1>3
    <2> DEFINE x == [rows[r] EXCEPT ![f] = o.value[f]]
    <2>3. x \in RawRow /\ x[f] = o.value[f] /\ \A g \in Fields : g # f => x[g] = rows[r][g]
        BY <1>1, <2>1, <2>2 DEF RawRow
    <2>4. rows' = [rows EXCEPT ![r] = x]
        BY <1>1
    <2> HIDE DEF x
    <2>5. rows' \in [1..capacity -> RawRow] /\ rows'[r] = x
        BY <1>1, <1>3, <2>3, <2>4
    <2>6. \A i \in 1..capacity : i # r => rows'[i] = rows[i]
        BY <1>1, <2>4
    <2> QED BY <2>3, <2>5, <2>6
<1>7. StoreTypes'
    BY <1>1, <1>4, <1>5, <1>6 DEF StoreTypes
<1>8. Writes(p, count', rows')
    <2>1. \A g \in Fields : g < f + 1 => rows'[r][g] = o.value[g]
        <3>1. \A g \in Fields : g < f + 1 => g = f \/ (g < f /\ g # f)
            BY <1>3, FirstField
        <3> QED BY <1>3, <1>6, <3>1
    <2>2. HalfWritten(p, rows')
        BY <1>3, <1>4, <2>1 DEF HalfWritten
    <2>3. r \in DOMAIN rows'
        BY <1>3, <1>6
    <2> QED BY <1>1, <1>3, <1>4, <2>2, <2>3 DEF Writes
<1>9. Holding'
    BY <1>1, <1>2, <1>8, HoldingKept DEF StoreInv
<1>10. Stored'
    <2>1. ASSUME NEW i \in 1..count, i # r PROVE rows'[i] = ideal[i]
        <3>1. ~Overwritten(i)
            BY <1>2, <2>1 DEF Overwritten, r
        <3>2. rows[i] = ideal[i]
            BY <3>1 DEF StoreInv, Stored
        <3>3. i \in 1..capacity
            BY <1>5 DEF StoreTypes
        <3> QED BY <1>6, <2>1, <3>2, <3>3
    <2>2. r \in 1..count => \E w \in Users : op'[w].kind = "put" /\ op'[w].row = r
        <3>1. SUFFICES ASSUME r \in 1..count
                       PROVE  \E w \in Users : op'[w].kind = "put" /\ op'[w].row = r
            OBVIOUS
        <3>2. o.kind = "put"
            BY <1>1, <1>3, <1>5, <3>1
        <3>3. op'[u].kind = "put" /\ op'[u].row = r
            BY <1>1, <1>4, <3>2
        <3> QED BY <3>3
    <2>3. ASSUME NEW i \in 1..count' PROVE Overwritten(i)' \/ rows'[i] = ideal'[i]
        <3>1. CASE i = r
            BY <1>1, <2>2, <3>1 DEF Overwritten
        <3>2. CASE i # r
            BY <1>1, <2>1, <3>2
        <3> QED BY <3>1, <3>2
    <2> QED BY <2>3 DEF Stored
<1>11. ReadsAreSnapshots'
    BY <1>1 DEF StoreInv, ReadsAreSnapshots
<1> QED BY <1>7, <1>9, <1>10, <1>11 DEF StoreInv

(* The work of u ends and the lock is free.                                *)
LEMMA EndWriteKeeps ==
    ASSUME StoreInv, NEW u \in Users, EndWrite(u)
    PROVE  StoreInv'
<1> DEFINE o == op[u]
           r == op[u].row
           v == op[u].value
<1>1. /\ op \in [Users -> Task] /\ o \in Task /\ o.kind \in {"add", "put"}
      /\ o.field \notin Fields /\ rows \in [1..capacity -> RawRow]
      /\ lock' = NoUser /\ op' = [op EXCEPT ![u] = Idle]
      /\ UNCHANGED <<capacity, rows, seen, got>>
      /\ count' = (IF o.kind = "add" THEN count + 1 ELSE count)
      /\ ideal' = (IF o.kind = "add" THEN Append(ideal, v) ELSE [ideal EXCEPT ![r] = v])
    BY DEF EndWrite, StoreInv, StoreTypes
<1>2. lock = u /\ Writes(o, count, rows) /\ \A w \in Users : w # u => op[w].kind = "idle"
    BY <1>1, BusyHolds DEF StoreInv
<1>3. /\ r \in 1..capacity /\ v \in Row /\ o.field \in Nat /\ o.field > 0
      /\ \A g \in Fields : g < o.field => rows[r][g] = v[g]
      /\ IF o.kind = "add" THEN r = count + 1 ELSE r \in 1..count
    BY <1>1, <1>2 DEF Writes, HalfWritten, Task
<1>4. /\ count \in Nat /\ StoreTypes /\ ideal \in Seq(Row) /\ count = Len(ideal)
      /\ capacity \in Nat /\ count <= capacity
    BY LenProperties, StoreAssumption DEF StoreInv, StoreTypes
<1> HIDE DEF o, r, v
<1>5. rows[r] = v
    <2>1. \A g \in Fields : g < o.field
        <3> DEFINE n == Cardinality(Fields)
        <3>1. Fields = 1..n /\ n \in Nat
            BY StoreAssumption, FS_CardinalityType
        <3> HIDE DEF n
        <3>2. o.field > n
            BY <1>1, <1>3, <3>1
        <3> QED BY <1>3, <3>1, <3>2
    <2>2. \A g \in Fields : rows[r][g] = v[g]
        BY <1>3, <2>1
    <2>3. rows[r] \in RawRow
        BY <1>1, <1>3
    <2> QED BY <1>3, <2>2, <2>3 DEF RawRow, Row
<1>6. ASSUME NEW i \in 1..count, i # r PROVE rows[i] = ideal[i]
    <2>1. ~Overwritten(i)
        BY <1>2, <1>6 DEF Overwritten, r
    <2> QED BY <2>1 DEF StoreInv, Stored
<1>7. /\ ideal' \in Seq(Row) /\ count' = Len(ideal') /\ count' <= capacity
      /\ \A i \in 1..count' : rows[i] = ideal'[i]
    <2>1. CASE o.kind = "add"
        <3>1. ideal' = Append(ideal, v) /\ count' = count + 1 /\ r = count + 1
            BY <1>1, <1>3, <2>1
        <3>2. /\ ideal' \in Seq(Row) /\ Len(ideal') = count + 1
              /\ \A i \in 1..count : ideal'[i] = ideal[i]
              /\ ideal'[count + 1] = v
            BY <1>3, <1>4, <3>1, AppendProperties
        <3>3. \A i \in 1..(count + 1) : i = r \/ (i \in 1..count /\ i # r)
            BY <1>4, <3>1
        <3>4. count' <= capacity
            BY <1>3, <1>4, <3>1
        <3> QED BY <1>5, <1>6, <3>1, <3>2, <3>3, <3>4
    <2>2. CASE o.kind # "add"
        <3>1. ideal' = [ideal EXCEPT ![r] = v] /\ count' = count /\ r \in 1..count
            BY <1>1, <1>3, <2>2
        <3>2. ideal \in [1..count -> Row]
            BY <1>4, SeqDef
        <3>3. /\ ideal' \in [1..count -> Row] /\ ideal'[r] = v
              /\ \A i \in 1..count : i # r => ideal'[i] = ideal[i]
            BY <1>3, <3>1, <3>2
        <3>4. ideal' \in Seq(Row) /\ Len(ideal') = count
            BY <1>4, <3>3, SeqDef
        <3> QED BY <1>4, <1>5, <1>6, <3>1, <3>3, <3>4
    <2> QED BY <2>1, <2>2
<1>8. StoreTypes'
    BY <1>1, <1>4, <1>7, IdleTask DEF StoreTypes
<1>9. Holding'
    BY <1>1, <1>2, HoldingKept DEF StoreInv
<1>10. Stored'
    BY <1>1, <1>7 DEF Stored
<1>11. ReadsAreSnapshots'
    BY <1>1 DEF StoreInv, ReadsAreSnapshots
<1> QED BY <1>8, <1>9, <1>10, <1>11 DEF StoreInv

(* The task after the next field is copied, c the cell found there.        *)
Advance(o, c) ==
    LET last == o.field + 1 \notin Fields
    IN  [kind |-> o.kind, row |-> IF last THEN o.row + 1 ELSE o.row,
         to |-> IF last THEN o.to + 1 ELSE o.to,
         field |-> IF last THEN 1 ELSE o.field + 1,
         value |-> [o.value EXCEPT ![o.to][o.field] = c]]

(* Copying the right cell keeps the copy right, within a row and at the    *)
(* step to the next row.                                                   *)
LEMMA AdvanceReads ==
    ASSUME NEW o \in Task, NEW found \in Seq(Row), NEW ideals \in Seq(Row),
           Reads(o, found, ideals), o.to <= Len(found)
    PROVE  /\ Advance(o, found[o.to][o.field]) \in Task
           /\ Reads(Advance(o, found[o.to][o.field]), found, ideals)
<1> DEFINE L == Len(found)
           t == o.to
           g == o.field
           c == found[t][g]
           p == Advance(o, c)
           x == [o.value EXCEPT ![t][g] = c]
<1>1. /\ L \in Nat /\ t \in 1..L /\ g \in Fields /\ g \in Nat /\ o.row \in Nat
      /\ o.value \in Seq(RawRow) /\ Len(o.value) = L /\ o.kind \in {"get", "list"}
      /\ Aligned(o, found, ideals) /\ Copied(o, found)
    BY LenProperties, FirstField DEF Reads, Task
<1>2. c \in Cells
    <2>1. found[t] \in Row
        BY <1>1, ElementOfSeq
    <2> QED BY <1>1, <2>1 DEF Row
<1>3. /\ p.kind = o.kind /\ p.value = x
      /\ p.row = (IF g + 1 \notin Fields THEN o.row + 1 ELSE o.row)
      /\ p.to = (IF g + 1 \notin Fields THEN t + 1 ELSE t)
      /\ p.field = (IF g + 1 \notin Fields THEN 1 ELSE g + 1)
    BY DEF Advance
<1>4. p = [kind |-> p.kind, row |-> p.row, to |-> p.to, field |-> p.field, value |-> p.value]
    BY DEF Advance
<1> HIDE DEF L, t, g, c, p, x
<1>5. /\ x \in Seq(RawRow) /\ Len(x) = L
      /\ x[t][g] = c
      /\ \A j \in 1..L, f \in Fields : j # t \/ f # g => x[j][f] = o.value[j][f]
    <2>1. o.value \in [1..L -> RawRow]
        BY <1>1, SeqDef
    <2>2. o.value[t] \in RawRow
        BY <1>1, <2>1
    <2> DEFINE y == [o.value[t] EXCEPT ![g] = c]
    <2>3. y \in RawRow /\ y[g] = c /\ \A f \in Fields : f # g => y[f] = o.value[t][f]
        BY <1>1, <1>2, <2>2 DEF RawRow
    <2>4. x = [o.value EXCEPT ![t] = y]
        BY DEF x
    <2> HIDE DEF y
    <2>5. /\ x \in [1..L -> RawRow] /\ x[t] = y
          /\ \A j \in 1..L : j # t => x[j] = o.value[j]
        BY <1>1, <2>1, <2>3, <2>4
    <2>6. x \in Seq(RawRow) /\ Len(x) = L
        BY <1>1, <2>5, SeqDef
    <2> QED BY <2>3, <2>5, <2>6
<1>6. p.to \in 1..(L + 1) /\ p.field \in Fields
    BY <1>1, <1>3, FirstField
<1>7. p \in Task
    <2>1. p.row \in Nat /\ p.to \in Nat /\ p.field \in Nat
        BY <1>1, <1>3, <1>6, FirstField
    <2>2. p.value \in Seq(RawRow)
        BY <1>3, <1>5
    <2> QED BY <1>1, <1>3, <1>4, <2>1, <2>2 DEF Task
<1>8. Aligned(p, found, ideals)
    <2>1. /\ \/ p.row = o.row /\ p.to = t
             \/ p.row = o.row + 1 /\ p.to = t + 1
          /\ o.row \in Int /\ t \in Int
        BY <1>1, <1>3
    <2>2. ASSUME NEW j \in 1..L PROVE p.row + j - p.to = o.row + j - o.to
        <3>1. j \in Int
            BY <1>1
        <3>2. \A a, b \in Int : (a + 1) + j - (b + 1) = a + j - b
            BY <3>1
        <3>3. (o.row + 1) + j - (t + 1) = o.row + j - t
            BY <2>1, <3>2
        <3>4. p.row + j - p.to = o.row + j - t
            BY <2>1, <3>3, Zenon
        <3> QED BY <3>4 DEF t
    <2> QED BY <1>1, <2>2 DEF Aligned, L
<1>9. Copied(p, found)
    <2>1. SUFFICES ASSUME NEW j \in 1..L, NEW f \in Fields,
                          j < p.to \/ (j = p.to /\ f < p.field)
                   PROVE  p.value[j][f] = found[j][f]
        BY DEF Copied, L
    <2>2. \A h \in Fields : g + 1 \notin Fields => h <= g
        <3> DEFINE n == Cardinality(Fields)
        <3>1. Fields = 1..n /\ n \in Nat
            BY StoreAssumption, FS_CardinalityType
        <3> HIDE DEF n
        <3> QED BY <1>1, <3>1
    <2>3. f \in Nat /\ f >= 1 /\ j \in Nat
        BY <1>1, FirstField
    <2>4. (j = t /\ f = g) \/ ((j # t \/ f # g) /\ (j < t \/ (j = t /\ f < g)))
        BY <1>1, <1>3, <2>1, <2>2, <2>3
    <2>5. CASE j = t /\ f = g
        BY <1>3, <1>5, <2>5 DEF c
    <2>6. CASE (j # t \/ f # g) /\ (j < t \/ (j = t /\ f < g))
        <3>1. o.value[j][f] = found[j][f]
            BY <1>1, <2>6 DEF Copied, L, t, g
        <3> QED BY <1>3, <1>5, <2>6, <3>1
    <2> QED BY <2>4, <2>5, <2>6
<1>10. Reads(p, found, ideals)
    BY <1>1, <1>3, <1>5, <1>6, <1>8, <1>9 DEF Reads, L
<1> QED BY <1>7, <1>10 DEF p, c, t, g

LEMMA ReadFieldKeeps ==
    ASSUME StoreInv, NEW u \in Users, ReadField(u)
    PROVE  StoreInv'
<1> DEFINE o == op[u]
           s == seen[u]
           c == rows[op[u].row][op[u].field]
<1>1. /\ op \in [Users -> Task] /\ o \in Task /\ o.kind \in {"get", "list"}
      /\ o.to <= Len(o.value) /\ s \in Seq(Row) /\ ideal \in Seq(Row) /\ count = Len(ideal)
      /\ op' = [op EXCEPT ![u] = Advance(o, c)]
      /\ UNCHANGED <<capacity, lock, rows, count, ideal, seen, got>>
    BY DEF ReadField, Reading, Advance, StoreInv, StoreTypes
<1>2. lock = u /\ Reads(o, s, ideal) /\ \A v \in Users : v # u => op[v].kind = "idle"
    BY <1>1, BusyHolds DEF StoreInv
<1>3. /\ o.to \in 1..Len(s) /\ o.to <= Len(s) /\ o.row \in Nat /\ Aligned(o, s, ideal)
    BY <1>1, <1>2, LenProperties DEF Reads, Task
<1>4. \A i \in 1..count : rows[i] = ideal[i]
    BY <1>1, <1>2 DEF StoreInv, Stored, Overwritten
<1>5. c = s[o.to][o.field]
    <2>1. o.row + o.to - o.to = o.row
        BY <1>3
    <2>2. o.row \in 1..count /\ ideal[o.row] = s[o.to]
        BY <1>1, <1>3, <2>1 DEF Aligned
    <2> QED BY <1>4, <2>2
<1>6. Advance(o, c) \in Task /\ Reads(Advance(o, c), s, ideal)
    <2> HIDE DEF o, s, c
    <2> QED BY <1>1, <1>2, <1>3, <1>5, AdvanceReads
<1> DEFINE p == Advance(o, c)
<1>7. op' = [op EXCEPT ![u] = p] /\ p \in Task /\ Reads(p, seen'[u], ideal')
    BY <1>1, <1>6
<1> HIDE DEF p
<1>8. StoreTypes'
    BY <1>1, <1>7 DEF StoreInv, StoreTypes
<1>9. Holding'
    BY <1>1, <1>2, <1>7, HoldingKept DEF StoreInv
<1>10. Stored'
    BY <1>1, <1>4 DEF Stored
<1>11. ReadsAreSnapshots'
    BY <1>1 DEF StoreInv, ReadsAreSnapshots
<1> QED BY <1>8, <1>9, <1>10, <1>11 DEF StoreInv

(* What a read returns: nothing, or all that it was to find.               *)
LEMMA ReadEndKeeps ==
    ASSUME StoreInv, NEW u \in Users, ReadFails(u) \/ EndRead(u)
    PROVE  StoreInv'
<1> DEFINE o == op[u]
           s == seen[u]
<1>1. /\ op \in [Users -> Task] /\ o \in Task /\ o.kind \in {"get", "list"}
      /\ s \in Seq(Row) /\ got \in [Users -> Result]
      /\ op' = [op EXCEPT ![u] = Idle] /\ lock' = NoUser
      /\ UNCHANGED <<capacity, rows, count, ideal, seen>>
    BY DEF ReadFails, EndRead, Reading, StoreInv, StoreTypes
<1>2. lock = u /\ Reads(o, s, ideal) /\ \A v \in Users : v # u => op[v].kind = "idle"
    BY <1>1, BusyHolds DEF StoreInv
<1>3. \A i \in 1..count : rows[i] = ideal[i]
    BY <1>1, <1>2 DEF StoreInv, Stored, Overwritten
<1>4. PICK r \in Result : /\ got' = [got EXCEPT ![u] = r] /\ r.short # "limit"
                          /\ r.short = "no" => r.rows = s
    <2>1. CASE ReadFails(u)
        <3> DEFINE r == [done |-> TRUE, short |-> "memory", rows |-> <<>>]
        <3>1. <<>> \in Seq(RawRow)
            OBVIOUS
        <3>2. r \in Result /\ r.short # "limit" /\ r.short # "no"
            BY <3>1 DEF Result
        <3> QED BY <2>1, <3>2 DEF ReadFails
    <2>2. CASE EndRead(u)
        <3> DEFINE r == [done |-> TRUE, short |-> "no", rows |-> o.value]
        <3>1. o.value \in Seq(RawRow) /\ Len(o.value) = Len(s) /\ o.to \in 1..(Len(s) + 1)
            BY <1>2 DEF Reads
        <3>2. o.to = Len(s) + 1 /\ Len(s) \in Nat
            BY <1>1, <2>2, <3>1, LenProperties DEF EndRead, Reading
        <3>3. r \in Result /\ r.short # "limit" /\ r.rows = o.value
            BY <3>1 DEF Result
        <3>4. \A j \in 1..Len(s) : o.value[j] = s[j]
            <4>1. SUFFICES ASSUME NEW j \in 1..Len(s) PROVE o.value[j] = s[j]
                OBVIOUS
            <4>2. j < o.to
                BY <3>2
            <4>3. \A f \in Fields : o.value[j][f] = s[j][f]
                BY <1>2, <4>2 DEF Reads, Copied
            <4>4. o.value[j] \in RawRow /\ s[j] \in Row
                BY <1>1, <3>1, ElementOfSeq
            <4> HIDE DEF o, s
            <4> QED BY <4>3, <4>4 DEF RawRow, Row
        <3>5. o.value = s
            <4>1. o.value \in [1..Len(s) -> RawRow] /\ s \in [1..Len(s) -> Row]
                BY <1>1, <3>1, SeqDef
            <4> HIDE DEF o, s
            <4> QED BY <3>4, <4>1
        <3>6. got' = [got EXCEPT ![u] = r]
            BY <2>2 DEF EndRead
        <3> HIDE DEF r
        <3> QED BY <3>3, <3>5, <3>6
    <2> QED BY <2>1, <2>2
<1>5. StoreTypes'
    BY <1>1, <1>4, IdleTask DEF StoreInv, StoreTypes
<1>6. Holding'
    BY <1>1, <1>2, HoldingKept DEF StoreInv
<1>7. Stored'
    BY <1>1, <1>3 DEF Stored
<1>8. ReadsAreSnapshots'
    <2>1. ASSUME NEW v \in Users, got'[v].done
          PROVE  got'[v].short # "limit" /\ (got'[v].short = "no" => got'[v].rows = seen'[v])
        <3>1. CASE v = u
            BY <1>1, <1>4, <3>1
        <3>2. CASE v # u
            BY <1>1, <1>4, <2>1, <3>2 DEF StoreInv, ReadsAreSnapshots
        <3> QED BY <3>1, <3>2
    <2> QED BY <2>1 DEF ReadsAreSnapshots
<1> QED BY <1>5, <1>6, <1>7, <1>8 DEF StoreInv

LEMMA ClearKeeps ==
    ASSUME StoreInv, NEW u \in Users, StoreClear(u)
    PROVE  StoreInv'
<1>1. /\ lock = NoUser /\ rows' = [i \in 1..capacity |-> BlankRow]
      /\ count' = 0 /\ ideal' = <<>> /\ UNCHANGED <<capacity, lock, op, seen, got>>
    BY DEF StoreClear
<1>2. \A v \in Users : op[v] = Idle /\ lock # v
    BY <1>1, StoreAssumption DEF StoreInv, Holding
<1>3. StoreTypes'
    <2>1. <<>> \in Seq(Row) /\ Len(<<>>) = 0
        OBVIOUS
    <2>2. rows' \in [1..capacity -> RawRow]
        BY <1>1, RowsAreRaw
    <2>3. capacity \in 1..PageMax /\ 0 <= capacity
        BY StoreAssumption DEF StoreInv, StoreTypes
    <2>4. ideal' \in Seq(Row) /\ count' = Len(ideal') /\ count' <= capacity'
        BY <1>1, <2>1, <2>3
    <2>5. /\ lock' \in Users \cup {NoUser} /\ op' \in [Users -> Task]
          /\ seen' \in [Users -> Seq(Row)] /\ got' \in [Users -> Result]
        BY <1>1 DEF StoreInv, StoreTypes
    <2> QED BY <1>1, <2>2, <2>3, <2>4, <2>5 DEF StoreTypes
<1>4. Holding'
    BY <1>1, <1>2 DEF Holding
<1>5. Stored'
    BY <1>1 DEF Stored
<1>6. ReadsAreSnapshots'
    BY <1>1 DEF StoreInv, ReadsAreSnapshots
<1> QED BY <1>3, <1>4, <1>5, <1>6 DEF StoreInv

(* However the threads interleave, for any number of them and of fields,   *)
(* a read of the store returns rows as they were at one moment, or fails   *)
(* for want of memory; no store the generator accepts is too long to list. *)
THEOREM StoreReadsAreSnapshots == StoreSpec => []ReadsAreSnapshots
<1>1. StoreInit => StoreInv
    <2> SUFFICES ASSUME StoreInit PROVE StoreInv
        OBVIOUS
    <2>1. /\ capacity \in 1..PageMax /\ capacity \in Nat /\ lock = NoUser /\ count = 0
          /\ ideal = <<>> /\ rows = [i \in 1..capacity |-> BlankRow]
        BY StoreAssumption DEF StoreInit, CapacityValid
    <2>2. /\ op = [v \in Users |-> Idle] /\ seen = [v \in Users |-> <<>>]
          /\ got = [v \in Users |-> NoRead]
        BY DEF StoreInit
    <2>3. <<>> \in Seq(Row) /\ <<>> \in Seq(RawRow) /\ Len(<<>>) = 0
        OBVIOUS
    <2>4. NoRead \in Result /\ NoRead.done = FALSE
        BY <2>3 DEF NoRead, Result
    <2>5. StoreTypes
        BY <2>1, <2>2, <2>3, <2>4, IdleTask, RowsAreRaw DEF StoreTypes
    <2>6. Holding
        BY <2>1, <2>2, StoreAssumption DEF Holding
    <2>7. Stored
        BY <2>1 DEF Stored
    <2>8. ReadsAreSnapshots
        BY <2>2, <2>4 DEF ReadsAreSnapshots
    <2> QED BY <2>5, <2>6, <2>7, <2>8 DEF StoreInv
<1>2. StoreInv /\ [StoreNext]_storeVars => StoreInv'
    <2> SUFFICES ASSUME StoreInv, [StoreNext]_storeVars PROVE StoreInv'
        OBVIOUS
    <2>1. CASE UNCHANGED storeVars
        BY <2>1 DEF StoreInv, StoreTypes, Holding, Stored, Overwritten,
                    ReadsAreSnapshots, storeVars
    <2>2. CASE StoreNext
        <3>1. PICK u \in Users :
                \/ \E i \in 1..capacity, v \in Row, append \in BOOLEAN :
                      BeginWrite(u, i, v, append)
                \/ WriteField(u) \/ EndWrite(u)
                \/ \E i \in 1..capacity : BeginGet(u, i)
                \/ BeginList(u) \/ ReadField(u) \/ ReadFails(u) \/ EndRead(u)
                \/ StoreClear(u)
            BY <2>2 DEF StoreNext
        <3> QED BY <3>1, BeginWriteKeeps, WriteFieldKeeps, EndWriteKeeps, BeginGetKeeps,
                   BeginListKeeps, ReadFieldKeeps, ReadEndKeeps, ClearKeeps
    <2> QED BY <2>1, <2>2
<1>3. StoreInv => ReadsAreSnapshots
    BY DEF StoreInv
<1> QED BY <1>1, <1>2, <1>3, PTL DEF StoreSpec

-----------------------------------------------------------------------------
(* The routes.                                                             *)

Route == [method : RouteMethods, pattern : Seq(Segment)]

(* What Generate lets through to the server.                               *)
TableGood ==
    /\ routes \in Seq(Route)
    /\ \A i \in DOMAIN routes : UrlValid(routes[i].pattern)
    /\ \A i, j \in DOMAIN routes : i < j => ~Clash(routes[j], routes[i])

(* A path without its slash at the end fits a pattern.                     *)
Fits(path, pattern) ==
    /\ Len(path) = Len(pattern)
    /\ \A i \in DOMAIN pattern : ~PartWays(pattern, path, i)

LEMMA DynamicsIsNat ==
    ASSUME NEW pattern \in Seq(Segment)
    PROVE  Dynamics(pattern) \in Nat
<1> DEFINE D == {i \in DOMAIN pattern : pattern[i].dynamic}
<1>1. DOMAIN pattern = 1..Len(pattern) /\ Len(pattern) \in Nat
    BY LenProperties
<1>2. IsFiniteSet(1..Len(pattern))
    BY <1>1, FS_Interval
<1>3. D \subseteq 1..Len(pattern)
    BY <1>1
<1>4. IsFiniteSet(D)
    BY <1>2, <1>3, FS_Subset
<1>5. Cardinality(D) \in Nat
    BY <1>4, FS_CardinalityType
<1> QED BY <1>5 DEF Dynamics

(* A sequence is its front and its last element.                           *)
LEMMA FrontAndLast ==
    ASSUME NEW S, NEW s \in Seq(S), s # <<>>
    PROVE  /\ SubSeq(s, 1, Len(s) - 1) \in Seq(S)
           /\ Len(SubSeq(s, 1, Len(s) - 1)) = Len(s) - 1
           /\ \A i \in 1..(Len(s) - 1) : SubSeq(s, 1, Len(s) - 1)[i] = s[i]
           /\ s = Append(SubSeq(s, 1, Len(s) - 1), s[Len(s)])
<1> DEFINE front == SubSeq(s, 1, Len(s) - 1)
<1>1. Len(s) \in Nat /\ Len(s) # 0 /\ Len(s) >= 1
    BY LenProperties, EmptySeq
<1>2. \A i \in 1..(Len(s) - 1) : s[i] \in S
    <2>1. \A i \in 1..(Len(s) - 1) : i \in 1..Len(s)
        BY <1>1
    <2> QED BY <2>1, ElementOfSeq
<1>3. front \in Seq(S) /\ Len(front) = Len(s) - 1
      /\ \A i \in 1..(Len(s) - 1) : front[i] = s[i]
    <2>1. 1 \in Int /\ Len(s) - 1 \in Int
          /\ (IF 1 <= Len(s) - 1 THEN (Len(s) - 1) - 1 + 1 ELSE 0) = Len(s) - 1
          /\ 1..((Len(s) - 1) - 1 + 1) = 1..(Len(s) - 1)
          /\ \A i \in 1..(Len(s) - 1) : 1 + i - 1 = i
        <3>1. \A n \in Nat : n >= 1 => n - 1 \in Int /\ (n - 1) - 1 + 1 = n - 1
            OBVIOUS
        <3>2. \A n \in Nat : n >= 1 =>
                (IF 1 <= n - 1 THEN (n - 1) - 1 + 1 ELSE 0) = n - 1
            OBVIOUS
        <3>3. \A n \in Nat : \A i \in 1..(n - 1) : 1 + i - 1 = i
            OBVIOUS
        <3>4. 1 \in Int
            OBVIOUS
        <3>5. 1..((Len(s) - 1) - 1 + 1) = 1..(Len(s) - 1)
            BY <1>1, <3>1, Zenon
        <3> QED BY <1>1, <3>1, <3>2, <3>3, <3>4, <3>5, Zenon
    <2>2. /\ front \in Seq(S)
          /\ Len(front) = IF 1 <= Len(s) - 1 THEN (Len(s) - 1) - 1 + 1 ELSE 0
          /\ \A i \in 1..((Len(s) - 1) - 1 + 1) : front[i] = s[1 + i - 1]
        BY <1>2, <2>1, SubSeqProperties
    <2> HIDE DEF front
    <2> QED BY <2>1, <2>2
<1>4. s = Append(front, s[Len(s)])
    <2>1. s[Len(s)] \in S
        BY <1>1, ElementOfSeq
    <2> HIDE DEF front
    <2>2. /\ Append(front, s[Len(s)]) \in Seq(S)
          /\ Len(Append(front, s[Len(s)])) = Len(front) + 1
          /\ \A i \in 1..Len(front) : Append(front, s[Len(s)])[i] = front[i]
          /\ Append(front, s[Len(s)])[Len(front) + 1] = s[Len(s)]
        BY <1>3, <2>1, AppendProperties
    <2>3. Len(Append(front, s[Len(s)])) = Len(s)
        BY <1>1, <1>3, <2>2
    <2>4. \A i \in 1..Len(s) : s[i] = Append(front, s[Len(s)])[i]
        <3>1. \A i \in 1..Len(s) : i \in 1..(Len(s) - 1) \/ i = Len(s)
            BY <1>1
        <3>2. Len(front) + 1 = Len(s)
            BY <1>1, <1>3
        <3> QED BY <1>3, <2>2, <3>1, <3>2
    <2> QED BY <2>2, <2>3, <2>4, SeqEqual
<1> QED BY <1>3, <1>4

LEMMA SeenIsSeq ==
    ASSUME NEW url \in Seq(STRING)
    PROVE  /\ SeenOf(url) \in Seq(STRING)
           /\ Len(SeenOf(url)) <= Len(url)
           /\ \A i \in 1..Len(SeenOf(url)) : SeenOf(url)[i] = url[i]
           /\ url # <<>> /\ url[Len(url)] = EmptyText =>
                 /\ SeenOf(url) = SubSeq(url, 1, Len(url) - 1)
                 /\ Len(SeenOf(url)) = Len(url) - 1
                 /\ url = Append(SeenOf(url), EmptyText)
           /\ url = <<>> \/ url[Len(url)] # EmptyText => SeenOf(url) = url
<1>1. CASE url # <<>> /\ url[Len(url)] = EmptyText
    <2> DEFINE front == SubSeq(url, 1, Len(url) - 1)
    <2>1. Len(url) \in Nat
        BY LenProperties
    <2>2. SeenOf(url) = front
        BY <1>1 DEF SeenOf, Front, Last
    <2>3. front \in Seq(STRING) /\ Len(front) = Len(url) - 1
          /\ \A i \in 1..(Len(url) - 1) : front[i] = url[i]
          /\ url = Append(front, EmptyText)
        BY <1>1, FrontAndLast, Zenon
    <2> HIDE DEF front
    <2>4. Len(url) - 1 <= Len(url)
        BY <2>1
    <2> QED BY <1>1, <2>2, <2>3, <2>4 DEF front
<1>2. CASE url = <<>> \/ url[Len(url)] # EmptyText
    <2>1. SeenOf(url) = url
        BY <1>2 DEF SeenOf, Last
    <2>2. Len(url) <= Len(url)
        BY LenProperties
    <2> QED BY <1>2, <2>1, <2>2
<1> QED BY <1>1, <1>2

(* path_matches says 1 for the paths that fit, and -1 only for a value     *)
(* that is too long.                                                       *)
LEMMA PathMatchesMeans ==
    ASSUME NEW pattern \in Seq(Segment), NEW url \in Seq(STRING)
    PROVE  /\ PathMatches(pattern, url) \in {-1, 0, 1}
           /\ PathMatches(pattern, url) = 1 <=> Fits(SeenOf(url), pattern)
           /\ PathMatches(pattern, url) = -1 =>
                 \E i \in DOMAIN url : url[i] \in LongValues
<1> DEFINE path  == SeenOf(url)
           both  == 1..(IF Len(pattern) < Len(path) THEN Len(pattern) ELSE Len(path))
           parts == {i \in both : PartWays(pattern, path, i)}
<1>1. path \in Seq(STRING) /\ Len(path) <= Len(url) /\ \A i \in 1..Len(path) : path[i] = url[i]
    BY SeenIsSeq
<1>2. Len(path) \in Nat /\ Len(pattern) \in Nat /\ Len(url) \in Nat
      /\ DOMAIN pattern = 1..Len(pattern) /\ DOMAIN url = 1..Len(url)
    BY <1>1, LenProperties
<1>3. both \subseteq 1..Len(pattern) /\ both \subseteq 1..Len(path) /\ both \in SUBSET Nat
    BY <1>2
<1>4. PathMatches(pattern, url) =
        IF parts = {} THEN IF Len(pattern) = Len(path) THEN 1 ELSE 0
        ELSE LET i == CHOOSE i \in parts : \A j \in parts : i <= j
             IN  IF pattern[i].dynamic /\ path[i] \in LongValues THEN -1 ELSE 0
    BY DEF PathMatches
<1>5. CASE parts = {}
    <2>1. Len(pattern) = Len(path) => Fits(path, pattern)
        <3>1. Len(pattern) = Len(path) => both = DOMAIN pattern
            BY <1>2
        <3> HIDE DEF both, path
        <3> QED BY <1>5, <3>1 DEF Fits
    <2>2. Fits(path, pattern) => Len(pattern) = Len(path)
        BY DEF Fits
    <2> HIDE DEF parts, both, path
    <2>3. PathMatches(pattern, url) = IF Len(pattern) = Len(path) THEN 1 ELSE 0
        BY <1>4, <1>5
    <2>4. PathMatches(pattern, url) # -1
        BY <2>3
    <2> QED BY <2>1, <2>2, <2>3, <2>4 DEF path
<1>6. CASE parts # {}
    <2> DEFINE first == CHOOSE i \in parts : \A j \in parts : i <= j
    <2>1. parts \in SUBSET Nat
        BY <1>3
    <2>2. \E x \in parts : \A y \in parts : x <= y
        BY <1>6, <2>1, LeastOfNat
    <2>3. first \in parts
        BY <2>2
    <2>4. ~Fits(path, pattern)
        <3>1. first \in DOMAIN pattern /\ PartWays(pattern, path, first)
            BY <1>2, <1>3, <2>3
        <3> HIDE DEF first, parts, both, path
        <3> QED BY <3>1 DEF Fits
    <2>5. PathMatches(pattern, url) =
            IF pattern[first].dynamic /\ path[first] \in LongValues THEN -1 ELSE 0
        BY <1>4, <1>6
    <2>6. first \in 1..Len(path)
        BY <1>3, <2>3
    <2>7. path[first] \in LongValues => \E i \in DOMAIN url : url[i] \in LongValues
        <3>1. first \in DOMAIN url /\ path[first] = url[first]
            BY <1>1, <1>2, <2>6
        <3> HIDE DEF first, path
        <3> QED BY <3>1
    <2> HIDE DEF first, parts, both
    <2> QED BY <2>4, <2>5, <2>7
<1> QED BY <1>5, <1>6

(* A path belongs to a valid pattern exactly when it fits it.              *)
LEMMA BelongsIsFits ==
    ASSUME NEW pattern \in Seq(Segment), UrlValid(pattern), NEW url \in Seq(STRING)
    PROVE  Belongs(url, pattern) <=> Fits(SeenOf(url), pattern)
<1> DEFINE front == SubSeq(url, 1, Len(url) - 1)
           Held(path) ==
               /\ Len(path) = Len(pattern)
               /\ \A i \in DOMAIN pattern :
                     IF pattern[i].dynamic
                     THEN path[i] # EmptyText /\ path[i] \notin LongValues
                     ELSE path[i] = pattern[i].name
<1>1. DOMAIN pattern = 1..Len(pattern) /\ Len(pattern) \in Nat /\ Len(url) \in Nat
      /\ DOMAIN url = 1..Len(url)
    BY LenProperties
<1>2. \A path : Held(path) <=> Fits(path, pattern)
    BY DEF Fits, PartWays
<1>3. Belongs(url, pattern) <=>
         \E path \in {url, front} : url \in {path, Append(path, EmptyText)} /\ Held(path)
    BY DEF Belongs
<1>4. \A i \in DOMAIN pattern : ~pattern[i].dynamic => pattern[i].name # EmptyText
    BY DEF UrlValid
<1>5. CASE url # <<>> /\ url[Len(url)] = EmptyText
    <2>1. /\ SeenOf(url) = front /\ url = Append(front, EmptyText)
        BY <1>5, SeenIsSeq
    <2>2. Len(url) \in 1..Len(url)
        <3>1. Len(url) # 0
            BY <1>5, EmptySeq
        <3> QED BY <1>1, <3>1
    <2>3. ~Held(url)
        <3>1. SUFFICES ASSUME Held(url) PROVE FALSE
            OBVIOUS
        <3>2. Len(url) \in DOMAIN pattern
            BY <1>1, <2>2, <3>1
        <3> QED BY <1>4, <1>5, <3>1, <3>2
    <2> HIDE DEF front, Held
    <2> QED BY <1>2, <1>3, <2>1, <2>3
<1>6. CASE url = <<>> \/ url[Len(url)] # EmptyText
    <2>1. SeenOf(url) = url
        BY <1>6, SeenIsSeq
    <2>2. url \in {front, Append(front, EmptyText)} => front = url
        <3>1. CASE url = <<>>
            <4>1. front = <<>>
                BY <3>1, SubSeqEmpty
            <4> QED BY <3>1, <4>1
        <3>2. CASE url # <<>> /\ url[Len(url)] # EmptyText
            <4>1. /\ front \in Seq(STRING) /\ Len(front) = Len(url) - 1
                BY <3>2, FrontAndLast, Zenon
            <4> HIDE DEF front
            <4>2. url # Append(front, EmptyText)
                <5>1. SUFFICES ASSUME url = Append(front, EmptyText) PROVE FALSE
                    OBVIOUS
                <5>2. Append(front, EmptyText)[Len(front) + 1] = EmptyText
                    BY <4>1
                <5>3. Len(front) + 1 = Len(url)
                    BY <1>1, <4>1
                <5> QED BY <3>2, <5>1, <5>2, <5>3, Zenon
            <4> QED BY <4>2
        <3> QED BY <1>6, <3>1, <3>2
    <2> HIDE DEF front, Held
    <2> QED BY <1>2, <1>3, <2>1, <2>2
<1> QED BY <1>5, <1>6

(* Two routes that fit one path with as many placeholders would clash.     *)
LEMMA FitsOverlap ==
    ASSUME NEW p \in Seq(Segment), NEW q \in Seq(Segment), NEW path,
           Fits(path, p), Fits(path, q)
    PROVE  Overlap(p, q) /\ Overlap(q, p)
<1>1. DOMAIN p = 1..Len(p) /\ DOMAIN q = 1..Len(q)
    BY LenProperties
<1>2. Len(p) = Len(q)
    BY DEF Fits
<1> QED BY <1>1, <1>2 DEF Fits, PartWays, Overlap

-----------------------------------------------------------------------------
(* The scan of route_find_exact.                                           *)

IsScan(f, method, url, n) ==
    f = [k \in 0..n |->
            IF k = 0 THEN Scanned0 ELSE ScanRoute(method, url, f[k - 1], k)]

LEMMA ScanExists ==
    ASSUME NEW method, NEW url
    PROVE  \A n \in Nat : \E f : IsScan(f, method, url, n)
<1> DEFINE T == {n \in Nat : ~\E f : IsScan(f, method, url, n)}
<1>1. SUFFICES ASSUME T # {} PROVE FALSE
    OBVIOUS
<1>2. PICK n \in T : \A y \in T : n <= y
    BY <1>1, LeastOfNat
<1>3. CASE n = 0
    <2> DEFINE f == [k \in 0..0 |-> Scanned0]
    <2>1. f = [k \in 0..n |-> IF k = 0 THEN Scanned0
                              ELSE ScanRoute(method, url, f[k - 1], k)]
        BY <1>3
    <2>2. IsScan(f, method, url, n)
        BY <2>1 DEF IsScan
    <2> QED BY <1>2, <2>2
<1>4. CASE n # 0
    <2>1. n - 1 \in Nat /\ n - 1 \notin T /\ n \in Nat
        BY <1>2, <1>4
    <2>2. PICK f : IsScan(f, method, url, n - 1)
        BY <2>1
    <2> DEFINE g == [k \in 0..n |-> IF k \in 0..(n - 1) THEN f[k]
                                    ELSE ScanRoute(method, url, f[n - 1], n)]
               h == [k \in 0..n |-> IF k = 0 THEN Scanned0
                                    ELSE ScanRoute(method, url, g[k - 1], k)]
    <2>3. \A k \in 0..(n - 1) : f[k] = IF k = 0 THEN Scanned0
                                       ELSE ScanRoute(method, url, f[k - 1], k)
        BY <2>2 DEF IsScan
    <2>4. \A k \in 0..n : g[k] = h[k]
        <3>1. TAKE k \in 0..n
        <3>2. CASE k = 0
            <4>1. k \in 0..(n - 1)
                BY <2>1, <3>2
            <4> QED BY <2>3, <3>2, <4>1
        <3>3. CASE k # 0 /\ k \in 0..(n - 1)
            <4>1. k - 1 \in 0..(n - 1) /\ k - 1 \in 0..n
                BY <2>1, <3>3
            <4> QED BY <2>3, <3>3, <4>1
        <3>4. CASE k = n
            <4>1. n - 1 \in 0..(n - 1) /\ n - 1 \in 0..n /\ n \notin 0..(n - 1)
                BY <2>1
            <4> QED BY <1>4, <3>4, <4>1
        <3>5. k = n \/ k \in 0..(n - 1)
            BY <2>1
        <3> QED BY <3>2, <3>3, <3>4, <3>5
    <2>5. g = h
        <3>1. g = [k \in 0..n |-> g[k]] /\ h = [k \in 0..n |-> h[k]]
            OBVIOUS
        <3> HIDE DEF g, h
        <3> QED BY <2>4, <3>1
    <2>6. IsScan(g, method, url, n)
        <3> HIDE DEF g
        <3> QED BY <2>5 DEF IsScan
    <2> QED BY <1>2, <2>6
<1> QED BY <1>3, <1>4

Found(end) ==
    IF end.best # 0 /\ ~end.tie
    THEN [route |-> end.best, invalid |-> FALSE]
    ELSE [route |-> 0, invalid |-> end.bad \/ end.tie]

LEMMA ExactIsScan ==
    ASSUME NEW method, NEW url, Len(routes) \in Nat
    PROVE  \E f : /\ IsScan(f, method, url, Len(routes))
                  /\ RouteFindExact(method, url) = Found(f[Len(routes)])
<1> DEFINE f == CHOOSE f : IsScan(f, method, url, Len(routes))
<1>1. IsScan(f, method, url, Len(routes))
    BY ScanExists
<1>2. RouteFindExact(method, url) = Found(f[Len(routes)])
    BY DEF RouteFindExact, Found, IsScan
<1> QED BY <1>1, <1>2

(* The routes of a method whose pattern a path matches.                    *)
Matches(j, method, url) ==
    routes[j].method = method /\ PathMatches(routes[j].pattern, url) = 1

Scan == [best : Nat, least : Nat, tie : BOOLEAN, bad : BOOLEAN]

(* What excuses the answer 400: a long value, and a route of the method.   *)
Excused(k, method, url) ==
    /\ \E i \in DOMAIN url : url[i] \in LongValues
    /\ \E j \in 1..k : routes[j].method = method

(* What the scan knows after k routes of a good table: the one match with  *)
(* the fewest placeholders.                                                *)
ScanSound(acc, k, method, url) ==
    /\ acc \in Scan /\ ~acc.tie
    /\ acc.best = 0 => /\ acc.least = MaxParams + 1
                       /\ \A j \in 1..k : ~Matches(j, method, url)
    /\ acc.best # 0 =>
          /\ acc.best \in 1..k /\ Matches(acc.best, method, url)
          /\ acc.least = Dynamics(routes[acc.best].pattern)
          /\ \A j \in 1..k : Matches(j, method, url) /\ j # acc.best =>
                acc.least < Dynamics(routes[j].pattern)
    /\ acc.bad => Excused(k, method, url)

(* Of two matches one has fewer placeholders.                              *)
LEMMA NoTie ==
    ASSUME TableGood, NEW url \in Seq(STRING), NEW method,
           NEW i \in DOMAIN routes, NEW j \in DOMAIN routes, i # j,
           Matches(i, method, url), Matches(j, method, url)
    PROVE  Dynamics(routes[i].pattern) # Dynamics(routes[j].pattern)
<1> DEFINE p == routes[i].pattern
           q == routes[j].pattern
<1>1. routes \in Seq(Route) /\ DOMAIN routes = 1..Len(routes) /\ Len(routes) \in Nat
    BY LenProperties DEF TableGood
<1>2. p \in Seq(Segment) /\ q \in Seq(Segment)
    <2>1. routes[i] \in Route /\ routes[j] \in Route
        BY <1>1, ElementOfSeq
    <2> QED BY <2>1 DEF Route
<1>3. Fits(SeenOf(url), p) /\ Fits(SeenOf(url), q)
    BY <1>2, PathMatchesMeans DEF Matches
<1>4. Overlap(p, q) /\ Overlap(q, p)
    BY <1>2, <1>3, FitsOverlap
<1>5. ~Clash(routes[i], routes[j]) \/ ~Clash(routes[j], routes[i])
    <2>1. i < j \/ j < i
        BY <1>1
    <2> QED BY <2>1 DEF TableGood
<1>6. routes[i].method = routes[j].method
    BY DEF Matches
<1> QED BY <1>4, <1>5, <1>6 DEF Clash

LEMMA TablePatterns ==
    ASSUME TableGood, NEW j \in DOMAIN routes
    PROVE  /\ routes[j].pattern \in Seq(Segment) /\ UrlValid(routes[j].pattern)
           /\ routes[j].method \in RouteMethods
           /\ Dynamics(routes[j].pattern) \in Nat
           /\ Dynamics(routes[j].pattern) <= MaxParams
<1>1. routes[j] \in Route
    BY ElementOfSeq, LenProperties DEF TableGood
<1>2. routes[j].pattern \in Seq(Segment) /\ routes[j].method \in RouteMethods
    BY <1>1 DEF Route
<1>3. UrlValid(routes[j].pattern)
    BY DEF TableGood
<1>4. Dynamics(routes[j].pattern) <= MaxParams
    BY <1>3 DEF UrlValid
<1> QED BY <1>2, <1>3, <1>4, DynamicsIsNat

(* One round of the loop.                                                  *)
LEMMA ScanKeeps ==
    ASSUME TableGood, NEW url \in Seq(STRING), NEW method,
           NEW k \in DOMAIN routes, NEW acc, ScanSound(acc, k - 1, method, url)
    PROVE  ScanSound(ScanRoute(method, url, acc, k), k, method, url)
<1> DEFINE r == routes[k]
           m == PathMatches(r.pattern, url)
           d == Dynamics(r.pattern)
           next == ScanRoute(method, url, acc, k)
<1>1. /\ r.pattern \in Seq(Segment) /\ d \in Nat /\ d <= MaxParams
    BY TablePatterns
<1>2. m \in {-1, 0, 1} /\ (m = -1 => \E i \in DOMAIN url : url[i] \in LongValues)
    BY <1>1, PathMatchesMeans
<1>3. /\ acc \in Scan /\ ~acc.tie
      /\ acc.best = 0 => /\ acc.least = MaxParams + 1
                         /\ \A j \in 1..(k - 1) : ~Matches(j, method, url)
      /\ acc.best # 0 =>
            /\ acc.best \in 1..(k - 1) /\ Matches(acc.best, method, url)
            /\ acc.least = Dynamics(routes[acc.best].pattern)
            /\ \A j \in 1..(k - 1) : Matches(j, method, url) /\ j # acc.best =>
                  acc.least < Dynamics(routes[j].pattern)
      /\ acc.bad => Excused(k - 1, method, url)
    BY DEF ScanSound
<1>4. /\ DOMAIN routes = 1..Len(routes) /\ Len(routes) \in Nat /\ MaxParams \in Nat
    BY LenProperties, RoutingAssumption DEF TableGood
<1>5. /\ k \in Nat /\ k >= 1 /\ k # 0
      /\ \A j \in 1..k : j \in 1..(k - 1) \/ j = k
      /\ \A j \in 1..(k - 1) : j \in 1..k /\ j # k /\ j \in DOMAIN routes
    BY <1>4
<1>6. Matches(k, method, url) <=> r.method = method /\ m = 1
    BY DEF Matches
<1>7. next = IF r.method # method \/ m = 0 THEN acc
             ELSE IF m = -1 THEN [acc EXCEPT !.bad = TRUE]
             ELSE IF d < acc.least
                  THEN [acc EXCEPT !.best = k, !.least = d, !.tie = FALSE]
             ELSE IF d = acc.least THEN [acc EXCEPT !.tie = TRUE] ELSE acc
    BY DEF ScanRoute
<1> DEFINE Held(a) ==
              /\ a.best = acc.best /\ a.least = acc.least /\ ~a.tie
              /\ a \in Scan
              /\ a.bad => Excused(k, method, url)
<1> HIDE DEF r, m, d, next
<1> SUFFICES ScanSound(next, k, method, url)
    BY DEF next
<1>e. Excused(k - 1, method, url) => Excused(k, method, url)
    BY <1>5 DEF Excused
<1>8. ASSUME ~Matches(k, method, url), Held(next) PROVE ScanSound(next, k, method, url)
    BY <1>3, <1>5, <1>8 DEF ScanSound
<1>9. CASE r.method # method \/ m = 0
    <2>1. Held(next) /\ ~Matches(k, method, url)
        BY <1>3, <1>e, <1>6, <1>7, <1>9
    <2> QED BY <1>8, <2>1
<1>10. CASE r.method = method /\ m = -1
    <2>1. next = [acc EXCEPT !.bad = TRUE]
        BY <1>7, <1>10
    <2>2. Held(next)
        <3>1. Excused(k, method, url)
            BY <1>2, <1>5, <1>10 DEF Excused, r
        <3> QED BY <1>3, <1>10, <2>1, <3>1 DEF Scan
    <2>3. ~Matches(k, method, url)
        BY <1>6, <1>10
    <2> QED BY <1>8, <2>2, <2>3
<1>11. CASE r.method = method /\ m = 1
    <2>1. Matches(k, method, url)
        BY <1>6, <1>11
    <2>2. acc.least \in Nat
        BY <1>3 DEF Scan
    <2>3. CASE d < acc.least
        <3>1. next = [acc EXCEPT !.best = k, !.least = d, !.tie = FALSE]
            BY <1>7, <1>11, <2>3
        <3>2. next.best = k /\ next.least = d /\ ~next.tie /\ next.bad = acc.bad
            BY <1>3, <3>1 DEF Scan
        <3>3. next \in Scan
            BY <1>1, <1>3, <1>5, <3>1 DEF Scan
        <3>4. \A j \in 1..k : Matches(j, method, url) /\ j # k =>
                 d < Dynamics(routes[j].pattern)
            <4>1. SUFFICES ASSUME NEW j \in 1..(k - 1), Matches(j, method, url)
                           PROVE  d < Dynamics(routes[j].pattern)
                BY <1>5
            <4>2. Dynamics(routes[j].pattern) \in Nat
                BY <1>5, TablePatterns
            <4>3. acc.best # 0
                BY <1>3, <4>1
            <4>4. CASE j = acc.best
                BY <1>3, <2>3, <4>3, <4>4
            <4>5. CASE j # acc.best
                <5>1. acc.least < Dynamics(routes[j].pattern)
                    BY <1>3, <4>1, <4>3, <4>5
                <5> QED BY <1>1, <2>2, <2>3, <4>2, <5>1
            <4> QED BY <4>4, <4>5
        <3>5. k \in 1..k
            BY <1>5
        <3>6. d = Dynamics(routes[k].pattern)
            BY DEF d, r
        <3> QED BY <1>3, <1>e, <1>5, <2>1, <3>2, <3>3, <3>4, <3>5, <3>6 DEF ScanSound
    <2>4. CASE ~(d < acc.least)
        <3>1. acc.best # 0
            BY <1>1, <1>3, <1>4, <2>4
        <3>2. acc.best \in DOMAIN routes /\ acc.best # k /\ Matches(acc.best, method, url)
            BY <1>3, <1>5, <3>1
        <3>3. d # acc.least
            BY <1>3, <2>1, <3>1, <3>2, NoTie DEF d, r
        <3>4. next = acc
            BY <1>7, <1>11, <2>4, <3>3
        <3>5. acc.least < d
            BY <1>1, <2>2, <2>4, <3>3
        <3>6. d = Dynamics(routes[k].pattern)
            BY DEF d, r
        <3>7. \A j \in 1..k : Matches(j, method, url) /\ j # acc.best =>
                 acc.least < Dynamics(routes[j].pattern)
            BY <1>3, <1>5, <3>1, <3>5, <3>6
        <3>8. acc.best \in 1..k
            BY <1>3, <1>5, <3>1
        <3> QED BY <1>3, <1>e, <3>1, <3>2, <3>4, <3>7, <3>8 DEF ScanSound
    <2> QED BY <2>3, <2>4
<1> QED BY <1>2, <1>9, <1>10, <1>11

LEMMA ScanEnd ==
    ASSUME TableGood, NEW url \in Seq(STRING), NEW method, NEW f,
           IsScan(f, method, url, Len(routes))
    PROVE  ScanSound(f[Len(routes)], Len(routes), method, url)
<1> DEFINE n == Len(routes)
           T == {k \in 0..n : ~ScanSound(f[k], k, method, url)}
<1>1. n \in Nat /\ DOMAIN routes = 1..n /\ MaxParams \in Nat
    BY LenProperties, RoutingAssumption DEF TableGood
<1>2. \A k \in 0..n : f[k] = IF k = 0 THEN Scanned0
                             ELSE ScanRoute(method, url, f[k - 1], k)
    <2> HIDE DEF n
    <2>1. f = [k \in 0..n |-> IF k = 0 THEN Scanned0
                              ELSE ScanRoute(method, url, f[k - 1], k)]
        BY DEF IsScan, n
    <2> QED BY <2>1
<1> HIDE DEF n
<1>3. ScanSound(Scanned0, 0, method, url)
    <2>1. Scanned0 \in Scan /\ Scanned0.best = 0 /\ Scanned0.least = MaxParams + 1
          /\ ~Scanned0.tie /\ ~Scanned0.bad
        BY <1>1 DEF Scanned0, Scan
    <2>2. 1..0 = {}
        OBVIOUS
    <2> QED BY <2>1, <2>2 DEF ScanSound
<1>4. T = {}
    <2>1. SUFFICES ASSUME T # {} PROVE FALSE
        OBVIOUS
    <2>2. T \in SUBSET Nat
        BY <1>1
    <2>3. PICK k \in T : \A y \in T : k <= y
        BY <2>1, <2>2, LeastOfNat
    <2>4. k \in 0..n /\ k \in Nat /\ ~ScanSound(f[k], k, method, url)
        BY <1>1, <2>3
    <2>5. CASE k = 0
        BY <1>2, <1>3, <2>4, <2>5
    <2>6. CASE k # 0
        <3>1. k - 1 \in 0..n /\ ~(k <= k - 1) /\ k \in DOMAIN routes
            BY <1>1, <2>4, <2>6
        <3>2. ScanSound(f[k - 1], k - 1, method, url)
            BY <2>3, <3>1
        <3>3. f[k] = ScanRoute(method, url, f[k - 1], k)
            BY <1>2, <2>4, <2>6
        <3> QED BY <2>4, <3>1, <3>2, <3>3, ScanKeeps
    <2> QED BY <2>5, <2>6
<1>5. n \in 0..n
    BY <1>1
<1> QED BY <1>4, <1>5 DEF n

(* What a lookup promises: the one most specific route, if there is any.   *)
Finds(found, method, url) ==
    /\ found.route = 0 => \A j \in DOMAIN routes : ~Serves(j, method, url)
    /\ found.route # 0 =>
          /\ found.route \in DOMAIN routes /\ Serves(found.route, method, url)
          /\ \A j \in DOMAIN routes :
                Serves(j, method, url) /\ j # found.route =>
                   Dynamics(routes[found.route].pattern) < Dynamics(routes[j].pattern)
    /\ found.invalid => \E i \in DOMAIN url : url[i] \in LongValues

LEMMA ServesIsMatches ==
    ASSUME TableGood, NEW url \in Seq(STRING), NEW method, NEW j \in DOMAIN routes
    PROVE  Serves(j, method, url) <=> Matches(j, method, url)
<1>1. routes[j].pattern \in Seq(Segment) /\ UrlValid(routes[j].pattern)
    BY TablePatterns
<1>2. Belongs(url, routes[j].pattern) <=> PathMatches(routes[j].pattern, url) = 1
    BY <1>1, BelongsIsFits, PathMatchesMeans
<1> QED BY <1>2 DEF Serves, Matches

LEMMA ExactFinds ==
    ASSUME TableGood, NEW url \in Seq(STRING), NEW method
    PROVE  /\ Finds(RouteFindExact(method, url), method, url)
           /\ RouteFindExact(method, url).invalid =>
                 \E j \in DOMAIN routes : routes[j].method = method
<1> DEFINE n == Len(routes)
           found == RouteFindExact(method, url)
<1>1. n \in Nat /\ DOMAIN routes = 1..n
    BY LenProperties DEF TableGood
<1>2. PICK f : IsScan(f, method, url, n) /\ found = Found(f[n])
    BY <1>1, ExactIsScan
<1> DEFINE end == f[n]
<1>3. ScanSound(end, n, method, url)
    BY <1>2, ScanEnd
<1>4. \A j \in DOMAIN routes : Serves(j, method, url) <=> Matches(j, method, url)
    BY ServesIsMatches
<1> HIDE DEF n, found, end
<1> SUFFICES /\ Finds(found, method, url)
             /\ found.invalid => \E j \in DOMAIN routes : routes[j].method = method
    BY DEF found
<1>5. CASE end.best = 0
    <2>1. found.route = 0 /\ found.invalid = end.bad
        BY <1>2, <1>3, <1>5 DEF Found, end, ScanSound, Scan
    <2>2. \A j \in DOMAIN routes : ~Matches(j, method, url)
        BY <1>1, <1>3, <1>5 DEF ScanSound
    <2>3. end.bad => Excused(n, method, url)
        BY <1>3 DEF ScanSound
    <2> QED BY <1>1, <1>4, <2>1, <2>2, <2>3 DEF Finds, Excused
<1>6. CASE end.best # 0
    <2>1. found.route = end.best /\ found.invalid = FALSE
        BY <1>2, <1>3, <1>6 DEF Found, end, ScanSound
    <2>2. /\ end.best \in DOMAIN routes /\ Matches(end.best, method, url)
          /\ \A j \in DOMAIN routes : Matches(j, method, url) /\ j # end.best =>
                Dynamics(routes[end.best].pattern) < Dynamics(routes[j].pattern)
        BY <1>1, <1>3, <1>6 DEF ScanSound
    <2> QED BY <1>4, <1>6, <2>1, <2>2 DEF Finds
<1> QED BY <1>5, <1>6

LEMMA FindFinds ==
    ASSUME TableGood, NEW url \in Seq(STRING), NEW method
    PROVE  Finds(RouteFind(method, url), ServedAs(method), url)
<1>1. CASE method # "HEAD"
    <2>1. RouteFind(method, url) = RouteFindExact(method, url) /\ ServedAs(method) = method
        BY <1>1 DEF RouteFind, ServedAs
    <2> QED BY <2>1, ExactFinds
<1>2. CASE method = "HEAD"
    <2>1. \A j \in DOMAIN routes : routes[j].method # method
        <3>1. \A j \in DOMAIN routes : routes[j].method \in RouteMethods
            BY TablePatterns
        <3>2. "HEAD" \notin RouteMethods
            BY RoutingAssumption
        <3> QED BY <1>2, <3>1, <3>2
    <2>2. ~RouteFindExact(method, url).invalid
        BY <2>1, ExactFinds
    <2>3. RouteFindExact(method, url).route = 0
        <3>1. Finds(RouteFindExact(method, url), method, url)
            BY ExactFinds
        <3> QED BY <2>1, <3>1 DEF Finds, Serves
    <2>4. RouteFind(method, url) = RouteFindExact("GET", url) /\ ServedAs(method) = "GET"
        BY <1>2, <2>2, <2>3 DEF RouteFind, ServedAs
    <2> QED BY <2>4, ExactFinds
<1> QED BY <1>1, <1>2

-----------------------------------------------------------------------------
(* The loop of route_allow.                                                *)

KnownMore(list, url, k) ==
    IF RouteFind(AllowOrder[k], url).route # 0
    THEN Append(list, AllowOrder[k]) ELSE list

IsKnown(f, url, n) ==
    f = [k \in 0..n |-> IF k = 0 THEN <<>> ELSE KnownMore(f[k - 1], url, k)]

LEMMA KnownExists ==
    ASSUME NEW url
    PROVE  \A n \in Nat : \E f : IsKnown(f, url, n)
<1> DEFINE T == {n \in Nat : ~\E f : IsKnown(f, url, n)}
<1>1. SUFFICES ASSUME T # {} PROVE FALSE
    OBVIOUS
<1>2. PICK n \in T : \A y \in T : n <= y
    BY <1>1, LeastOfNat
<1>3. CASE n = 0
    <2> DEFINE f == [k \in 0..0 |-> <<>>]
    <2>1. f = [k \in 0..n |-> IF k = 0 THEN <<>> ELSE KnownMore(f[k - 1], url, k)]
        BY <1>3
    <2>2. IsKnown(f, url, n)
        BY <2>1 DEF IsKnown
    <2> QED BY <1>2, <2>2
<1>4. CASE n # 0
    <2>1. n - 1 \in Nat /\ n - 1 \notin T /\ n \in Nat
        BY <1>2, <1>4
    <2>2. PICK f : IsKnown(f, url, n - 1)
        BY <2>1
    <2> DEFINE g == [k \in 0..n |-> IF k \in 0..(n - 1) THEN f[k]
                                    ELSE KnownMore(f[n - 1], url, n)]
               h == [k \in 0..n |-> IF k = 0 THEN <<>>
                                    ELSE KnownMore(g[k - 1], url, k)]
    <2>3. \A k \in 0..(n - 1) : f[k] = IF k = 0 THEN <<>>
                                       ELSE KnownMore(f[k - 1], url, k)
        BY <2>2 DEF IsKnown
    <2>4. \A k \in 0..n : g[k] = h[k]
        <3>1. TAKE k \in 0..n
        <3>2. CASE k = 0
            <4>1. k \in 0..(n - 1)
                BY <2>1, <3>2
            <4> QED BY <2>3, <3>2, <4>1
        <3>3. CASE k # 0 /\ k \in 0..(n - 1)
            <4>1. k - 1 \in 0..(n - 1) /\ k - 1 \in 0..n
                BY <2>1, <3>3
            <4> QED BY <2>3, <3>3, <4>1
        <3>4. CASE k = n
            <4>1. n - 1 \in 0..(n - 1) /\ n - 1 \in 0..n /\ n \notin 0..(n - 1)
                BY <2>1
            <4> QED BY <1>4, <3>4, <4>1
        <3>5. k = n \/ k \in 0..(n - 1)
            BY <2>1
        <3> QED BY <3>2, <3>3, <3>4, <3>5
    <2>5. g = h
        <3>1. g = [k \in 0..n |-> g[k]] /\ h = [k \in 0..n |-> h[k]]
            OBVIOUS
        <3> HIDE DEF g, h
        <3> QED BY <2>4, <3>1
    <2>6. IsKnown(g, url, n)
        <3> HIDE DEF g
        <3> QED BY <2>5 DEF IsKnown
    <2> QED BY <1>2, <2>6
<1> QED BY <1>3, <1>4

LEMMA ToSetAppend ==
    ASSUME NEW S, NEW s \in Seq(S), NEW e \in S
    PROVE  Append(s, e) \in Seq(S) /\ ToSet(Append(s, e)) = ToSet(s) \cup {e}
<1>1. Len(s) \in Nat /\ DOMAIN s = 1..Len(s)
    BY LenProperties
<1>2. /\ Append(s, e) \in Seq(S) /\ Len(Append(s, e)) = Len(s) + 1
      /\ \A i \in 1..Len(s) : Append(s, e)[i] = s[i]
      /\ Append(s, e)[Len(s) + 1] = e
    BY AppendProperties
<1>3. DOMAIN Append(s, e) = 1..(Len(s) + 1)
    BY <1>2, LenProperties
<1>4. 1..(Len(s) + 1) = 1..Len(s) \cup {Len(s) + 1}
    BY <1>1
<1> QED BY <1>1, <1>2, <1>3, <1>4 DEF ToSet

Listed == {"GET", "HEAD", "POST", "PUT", "PATCH", "DELETE", "OPTIONS"}

LEMMA OrderOfAllow ==
    /\ AllowOrder \in Seq(Listed) /\ Len(AllowOrder) = 7
    /\ ToSet(AllowOrder) = Listed
<1>1. AllowOrder \in Seq(Listed) /\ Len(AllowOrder) = 7
    <2>1. \A a, b, c, d, e, f, g \in Listed :
            <<a, b, c, d, e, f, g>> \in Seq(Listed) /\ Len(<<a, b, c, d, e, f, g>>) = 7
        OBVIOUS
    <2>2. /\ "GET" \in Listed /\ "HEAD" \in Listed /\ "POST" \in Listed
          /\ "PUT" \in Listed /\ "PATCH" \in Listed /\ "DELETE" \in Listed
          /\ "OPTIONS" \in Listed
        BY DEF Listed
    <2> QED BY <2>1, <2>2 DEF AllowOrder
<1>2. DOMAIN AllowOrder = 1..7
    BY <1>1, LenProperties
<1>3. 1..7 = {1, 2, 3, 4, 5, 6, 7}
    OBVIOUS
<1>4. ToSet(AllowOrder) = {AllowOrder[1], AllowOrder[2], AllowOrder[3], AllowOrder[4],
                           AllowOrder[5], AllowOrder[6], AllowOrder[7]}
    <2> QED BY <1>2, <1>3 DEF ToSet
<1>5. /\ AllowOrder[1] = "GET" /\ AllowOrder[2] = "HEAD" /\ AllowOrder[3] = "POST"
      /\ AllowOrder[4] = "PUT" /\ AllowOrder[5] = "PATCH" /\ AllowOrder[6] = "DELETE"
      /\ AllowOrder[7] = "OPTIONS"
    BY DEF AllowOrder
<1> QED BY <1>1, <1>4, <1>5 DEF Listed

(* The methods route_allow knows at a path.                                *)
LEMMA KnownIs ==
    ASSUME NEW url
    PROVE  /\ KnownMethods(url) \in Seq(Listed)
           /\ ToSet(KnownMethods(url)) = {m \in ToSet(AllowOrder) : RouteFind(m, url).route # 0}
<1> DEFINE n == Len(AllowOrder)
           f == CHOOSE f : IsKnown(f, url, n)
           Upto(k) == {m \in {AllowOrder[i] : i \in 1..k} : RouteFind(m, url).route # 0}
           Right(k) == f[k] \in Seq(Listed) /\ ToSet(f[k]) = Upto(k)
           T == {k \in 0..n : ~Right(k)}
<1>1. n = 7 /\ Len(AllowOrder) = n /\ AllowOrder \in Seq(Listed) /\ DOMAIN AllowOrder = 1..n /\ n \in Nat
    BY OrderOfAllow, LenProperties
<1>2. IsKnown(f, url, n)
    BY <1>1, KnownExists
<1>3. KnownMethods(url) = f[n]
    BY DEF KnownMethods, IsKnown, KnownMore
<1>4. \A k \in 0..n : f[k] = IF k = 0 THEN <<>> ELSE KnownMore(f[k - 1], url, k)
    <2> HIDE DEF n, f
    <2>1. f = [k \in 0..n |-> IF k = 0 THEN <<>> ELSE KnownMore(f[k - 1], url, k)]
        BY <1>2 DEF IsKnown
    <2> QED BY <2>1
<1> HIDE DEF n, f
<1>5. Right(0)
    <2>1. f[0] = <<>>
        BY <1>1, <1>4
    <2>2. ToSet(<<>>) = {} /\ <<>> \in Seq(Listed)
        BY DEF ToSet
    <2>3. 1..0 = {}
        OBVIOUS
    <2> QED BY <2>1, <2>2, <2>3
<1>6. ASSUME NEW k \in 1..n, Right(k - 1) PROVE Right(k)
    <2>1. AllowOrder[k] \in Listed
        BY <1>1, ElementOfSeq, Zenon
    <2>2. 1..k = 1..(k - 1) \cup {k} /\ k \in 0..n /\ k # 0
        BY <1>1
    <2>3. f[k] = KnownMore(f[k - 1], url, k)
        BY <1>4, <2>2
    <2>4. {AllowOrder[i] : i \in 1..k} = {AllowOrder[i] : i \in 1..(k - 1)} \cup {AllowOrder[k]}
        BY <2>2
    <2>5. CASE RouteFind(AllowOrder[k], url).route # 0
        <3>1. f[k] = Append(f[k - 1], AllowOrder[k])
            BY <2>3, <2>5 DEF KnownMore
        <3>2. f[k] \in Seq(Listed) /\ ToSet(f[k]) = ToSet(f[k - 1]) \cup {AllowOrder[k]}
            BY <1>6, <2>1, <3>1, ToSetAppend
        <3>3. Upto(k) = Upto(k - 1) \cup {AllowOrder[k]}
            BY <2>4, <2>5
        <3> QED BY <1>6, <3>2, <3>3
    <2>6. CASE ~(RouteFind(AllowOrder[k], url).route # 0)
        <3>1. f[k] = f[k - 1]
            BY <2>3, <2>6 DEF KnownMore
        <3>2. Upto(k) = Upto(k - 1)
            BY <2>4, <2>6
        <3> QED BY <1>6, <3>1, <3>2
    <2> QED BY <2>5, <2>6
<1>7. T = {}
    <2>1. SUFFICES ASSUME T # {} PROVE FALSE
        OBVIOUS
    <2>2. T \in SUBSET Nat
        BY <1>1
    <2> HIDE DEF Right
    <2>3. PICK k \in T : \A y \in T : k <= y
        BY <2>1, <2>2, LeastOfNat
    <2>4. k # 0
        BY <1>5, <2>3
    <2>5. k \in 1..n /\ k - 1 \in 0..n /\ ~(k <= k - 1)
        BY <1>1, <2>3, <2>4
    <2> QED BY <1>6, <2>3, <2>5
<1>8. Right(n)
    <2>1. n \in 0..n
        BY <1>1
    <2> HIDE DEF Right
    <2> QED BY <1>7, <2>1
<1>9. {AllowOrder[i] : i \in 1..n} = ToSet(AllowOrder)
    BY <1>1 DEF ToSet
<1> QED BY <1>3, <1>8, <1>9

(* A lookup of a method finds a route exactly when some route serves it.   *)
LEMMA FoundIsThere ==
    ASSUME TableGood, NEW url \in Seq(STRING), NEW method
    PROVE  RouteFind(method, url).route # 0 <=> ServedAs(method) \in MethodsAt(url)
<1>1. Finds(RouteFind(method, url), ServedAs(method), url)
    BY FindFinds
<1>2. ServedAs(method) \in MethodsAt(url) <=>
        \E j \in DOMAIN routes : Serves(j, ServedAs(method), url)
    BY DEF MethodsAt, Serves
<1> QED BY <1>1, <1>2 DEF Finds

(* What route_allow lists.                                                 *)
AllowedAt(url) ==
    MethodsAt(url) \cup (IF "GET" \in MethodsAt(url) THEN {"HEAD"} ELSE {})

LEMMA KnownIsAllowed ==
    ASSUME TableGood, NEW url \in Seq(STRING)
    PROVE  /\ ToSet(KnownMethods(url)) = AllowedAt(url)
           /\ KnownMethods(url) = <<>> <=> MethodsAt(url) = {}
<1>1. MethodsAt(url) \subseteq RouteMethods
    BY TablePatterns DEF MethodsAt
<1>2. RouteMethods \subseteq {"GET", "POST", "PUT", "PATCH", "DELETE"}
    BY RoutingAssumption
<1>3. ToSet(KnownMethods(url)) = {m \in Listed : ServedAs(m) \in MethodsAt(url)}
    BY KnownIs, OrderOfAllow, FoundIsThere
<1>4. ToSet(KnownMethods(url)) = AllowedAt(url)
    BY <1>1, <1>2, <1>3 DEF AllowedAt, Listed, ServedAs
<1>5. KnownMethods(url) = <<>> <=> ToSet(KnownMethods(url)) = {}
    <2>1. KnownMethods(url) \in Seq(Listed) /\ Len(KnownMethods(url)) \in Nat
          /\ DOMAIN KnownMethods(url) = 1..Len(KnownMethods(url))
        BY KnownIs, LenProperties
    <2>2. CASE KnownMethods(url) = <<>>
        BY <2>2 DEF ToSet
    <2>3. CASE KnownMethods(url) # <<>>
        <3>1. Len(KnownMethods(url)) # 0
            BY <2>1, <2>3, EmptySeq
        <3>2. 1 \in DOMAIN KnownMethods(url)
            BY <2>1, <3>1
        <3>3. KnownMethods(url)[1] \in ToSet(KnownMethods(url))
            BY <3>2 DEF ToSet
        <3> QED BY <2>3, <3>3
    <2> QED BY <2>2, <2>3
<1> QED BY <1>4, <1>5 DEF AllowedAt

LEMMA AllowListIs ==
    ASSUME TableGood, NEW url \in Seq(STRING)
    PROVE  /\ AllowList(url) = <<>> <=> MethodsAt(url) = {}
           /\ MethodsAt(url) # {} => ToSet(AllowList(url)) = AllowedAt(url) \cup {"OPTIONS"}
<1> DEFINE known == KnownMethods(url)
<1>1. /\ ToSet(known) = AllowedAt(url) /\ (known = <<>> <=> MethodsAt(url) = {})
      /\ known \in Seq(Listed)
    BY KnownIsAllowed, KnownIs
<1>2. AllowList(url) = IF known = <<>> \/ known[Len(known)] = "OPTIONS" THEN known
                       ELSE Append(known, "OPTIONS")
    BY DEF AllowList, Last
<1> HIDE DEF known
<1>3. CASE known = <<>>
    BY <1>1, <1>2, <1>3
<1>4. CASE known # <<>> /\ known[Len(known)] = "OPTIONS"
    <2>1. Len(known) \in DOMAIN known
        <3>1. Len(known) \in Nat /\ Len(known) # 0 /\ DOMAIN known = 1..Len(known)
            BY <1>1, <1>4, EmptySeq, LenProperties
        <3> QED BY <3>1
    <2>2. "OPTIONS" \in ToSet(known)
        BY <1>4, <2>1 DEF ToSet
    <2> QED BY <1>1, <1>2, <1>4, <2>2
<1>5. CASE known # <<>> /\ known[Len(known)] # "OPTIONS"
    <2>1. "OPTIONS" \in Listed
        BY DEF Listed
    <2>2. AllowList(url) = Append(known, "OPTIONS")
        BY <1>2, <1>5
    <2>3. ToSet(Append(known, "OPTIONS")) = ToSet(known) \cup {"OPTIONS"}
          /\ Append(known, "OPTIONS") # <<>>
        <3>1. \A e \in Listed : ToSet(Append(known, e)) = ToSet(known) \cup {e}
                               /\ Append(known, e) # <<>>
            BY <1>1, ToSetAppend, AppendProperties
        <3> QED BY <2>1, <3>1
    <2> QED BY <1>1, <1>5, <2>2, <2>3
<1> QED BY <1>3, <1>4, <1>5

(***************************************************************************)
(* The inductive invariant: the routes of a table are valid each for       *)
(* itself, the table of a server has no clash, and only a server answers.  *)
(***************************************************************************)
RoutingInv ==
    /\ routes \in Seq(Route)
    /\ \A i \in DOMAIN routes : UrlValid(routes[i].pattern)
    /\ phase = "serving" =>
          \A i, j \in DOMAIN routes : i < j => ~Clash(routes[j], routes[i])
    /\ answer # NoAnswer => phase = "serving"
    /\ MostSpecific /\ StatusExplains

LEMMA DeclareKeeps ==
    ASSUME RoutingInv, NEW m \in RouteMethods, NEW p \in Patterns, Declare(m, p)
    PROVE  RoutingInv'
<1>1. /\ phase = "source" /\ answer = NoAnswer /\ answer' = NoAnswer
      /\ phase' # "serving"
    BY DEF RoutingInv, Declare
<1>2. routes' \in Seq(Route) /\ \A i \in DOMAIN routes' : UrlValid(routes'[i].pattern)
    <2>1. routes \in Seq(Route) /\ \A i \in DOMAIN routes : UrlValid(routes[i].pattern)
        BY DEF RoutingInv
    <2>2. CASE UrlValid(p)
        <3> DEFINE r == [method |-> m, pattern |-> p]
        <3>1. routes' = Append(routes, r)
            BY <2>2 DEF Declare
        <3>2. r \in Route /\ r.pattern = p
            BY RoutingAssumption DEF Route
        <3> HIDE DEF r
        <3>3. Len(routes) \in Nat /\ DOMAIN routes = 1..Len(routes)
            BY <2>1, LenProperties
        <3>4. /\ routes' \in Seq(Route) /\ Len(routes') = Len(routes) + 1
              /\ \A i \in 1..Len(routes) : routes'[i] = routes[i]
              /\ routes'[Len(routes) + 1] = r
            BY <2>1, <3>1, <3>2, AppendProperties
        <3>5. DOMAIN routes' = 1..(Len(routes) + 1)
            BY <3>4, LenProperties
        <3>6. \A i \in DOMAIN routes' : i \in 1..Len(routes) \/ i = Len(routes) + 1
            BY <3>3, <3>5
        <3>7. \A i \in DOMAIN routes' : UrlValid(routes'[i].pattern)
            BY <2>1, <2>2, <3>2, <3>3, <3>4, <3>6
        <3> QED BY <3>4, <3>7
    <2>3. CASE ~UrlValid(p)
        <3>1. routes' = routes
            BY <2>3 DEF Declare
        <3> QED BY <2>1, <3>1
    <2> QED BY <2>2, <2>3
<1>3. MostSpecific' /\ StatusExplains'
    <2>1. ~(answer' # NoAnswer')
        BY <1>1 DEF NoAnswer
    <2> QED BY <2>1 DEF MostSpecific, StatusExplains
<1>4. ~(answer' # NoAnswer')
    BY <1>1 DEF NoAnswer
<1> QED BY <1>1, <1>2, <1>3, <1>4 DEF RoutingInv

LEMMA GenerateKeeps == RoutingInv /\ Generate => RoutingInv'
<1> SUFFICES ASSUME RoutingInv, Generate PROVE RoutingInv'
    OBVIOUS
<1>1. /\ routes' = routes /\ answer = NoAnswer /\ answer' = NoAnswer /\ NoAnswer' = NoAnswer
    BY DEF RoutingInv, Generate, NoAnswer
<1>2. phase' = "serving" =>
         \A i, j \in DOMAIN routes : i < j => ~Clash(routes[j], routes[i])
    BY DEF Generate
<1>3. MostSpecific' /\ StatusExplains'
    BY <1>1 DEF MostSpecific, StatusExplains
<1> QED BY <1>1, <1>2, <1>3 DEF RoutingInv

(* The answer to a request is the most specific route.                     *)
LEMMA AskMostSpecific ==
    ASSUME TableGood, NEW m, NEW u \in Seq(STRING), Ask(m, u)
    PROVE  MostSpecific'
<1> DEFINE r == RouteFind(m, u).route
           method == ServedAs(m)
           mine == {k \in DOMAIN routes : Serves(k, method, u)}
           best == {k \in mine : \A j \in mine :
                       Dynamics(routes[k].pattern) <= Dynamics(routes[j].pattern)}
<1>1. /\ answer'.route = r /\ ask'.method = m /\ ask'.path = u /\ routes' = routes
    BY DEF Ask
<1>2. Finds(RouteFind(m, u), method, u)
    BY FindFinds
<1>3. \A k \in DOMAIN routes : Dynamics(routes[k].pattern) \in Nat
    BY TablePatterns
<1>4. CASE r = 0
    <2>1. mine = {}
        BY <1>2, <1>4 DEF Finds
    <2>2. IF mine = {} THEN answer'.route = 0 ELSE best = {answer'.route}
        BY <1>1, <1>4, <2>1
    <2> QED BY <1>1, <2>2 DEF MostSpecific, Serves
<1>5. CASE r # 0
    <2>1. /\ r \in DOMAIN routes /\ Serves(r, method, u)
          /\ \A j \in DOMAIN routes : Serves(j, method, u) /\ j # r =>
                Dynamics(routes[r].pattern) < Dynamics(routes[j].pattern)
        BY <1>2, <1>5 DEF Finds
    <2> HIDE DEF r, method
    <2>2. r \in mine
        BY <2>1
    <2>3. \A j \in mine : Dynamics(routes[r].pattern) <= Dynamics(routes[j].pattern)
        <3>1. TAKE j \in mine
        <3>2. CASE j = r
            BY <1>3, <2>1, <3>2
        <3>3. CASE j # r
            BY <1>3, <2>1, <3>3
        <3> QED BY <3>2, <3>3
    <2>4. \A k \in best : k = r
        <3>1. SUFFICES ASSUME NEW k \in best, k # r PROVE FALSE
            OBVIOUS
        <3>2. /\ k \in DOMAIN routes /\ Serves(k, method, u)
              /\ Dynamics(routes[k].pattern) <= Dynamics(routes[r].pattern)
            BY <2>2, <3>1
        <3> QED BY <1>3, <2>1, <3>1, <3>2
    <2>5. best = {r}
        <3>1. r \in best
            BY <2>2, <2>3
        <3> HIDE DEF best
        <3> QED BY <2>4, <3>1
    <2>6. IF mine = {} THEN answer'.route = 0 ELSE best = {answer'.route}
        <3>1. mine # {}
            BY <2>2
        <3> HIDE DEF mine, best
        <3> QED BY <1>1, <2>5, <3>1 DEF r
    <2> QED BY <1>1, <2>6 DEF MostSpecific, Serves, method
<1> QED BY <1>4, <1>5

(* The status of an answer without a route.                                *)
LEMMA AskStatusExplains ==
    ASSUME TableGood, NEW m, NEW u \in Seq(STRING), Ask(m, u)
    PROVE  StatusExplains'
<1> DEFINE found == RouteFind(m, u)
           allowed == Allowed(u)
           there == MethodsAt(u)
           Long == \E i \in DOMAIN u : u[i] \in LongValues
<1>1. /\ answer'.route = found.route
      /\ answer'.status = IF found.route # 0 THEN 200
                          ELSE IF found.invalid \/ allowed < 0 THEN 400
                          ELSE IF allowed = 0 THEN 404
                          ELSE IF m = "OPTIONS" THEN 204 ELSE 405
      /\ answer'.allow = IF found.route = 0 \/ m = "OPTIONS" THEN AllowList(u) ELSE <<>>
      /\ ask'.path = u /\ routes' = routes
    BY DEF Ask
<1>2. found.invalid => Long
    BY FindFinds DEF Finds
<1>3. \A i \in DOMAIN AllowOrder : RouteFind(AllowOrder[i], u).invalid => Long
    BY FindFinds DEF Finds
<1>4. /\ AllowList(u) = <<>> <=> there = {}
      /\ there # {} => ToSet(AllowList(u)) = AllowedAt(u) \cup {"OPTIONS"}
    BY AllowListIs
<1>5. /\ allowed \in {-1, 0, 1} /\ (allowed = 1 <=> there # {})
      /\ allowed = -1 => Long
    BY <1>3, <1>4 DEF Allowed
<1>6. MethodsAt(ask.path)' = there
    BY <1>1 DEF MethodsAt
<1> HIDE DEF found, allowed, there, Long
<1> DEFINE Explained ==
        answer'.route = 0 =>
            /\ answer'.status = 404 => there = {}
            /\ answer'.status \in {204, 405} =>
                 /\ there # {}
                 /\ ToSet(answer'.allow) = there \cup {"OPTIONS"} \cup
                                 (IF "GET" \in there THEN {"HEAD"} ELSE {})
            /\ answer'.status = 400 => Long
<1>7. ASSUME found.route = 0 PROVE Explained
    <2>1. answer'.allow = AllowList(u)
        BY <1>1, <1>7
    <2>2. answer'.status = 404 => there = {}
        BY <1>1, <1>5, <1>7
    <2>3. answer'.status \in {204, 405} => there # {}
        BY <1>1, <1>5, <1>7
    <2>4. answer'.status = 400 => Long
        BY <1>1, <1>2, <1>5, <1>7
    <2>5. there # {} => ToSet(answer'.allow) = there \cup {"OPTIONS"} \cup
                                 (IF "GET" \in there THEN {"HEAD"} ELSE {})
        BY <1>4, <2>1 DEF AllowedAt, there
    <2> QED BY <2>2, <2>3, <2>4, <2>5
<1>8. Explained
    BY <1>1, <1>7
<1>9. ask'.path = u
    BY <1>1
<1> QED BY <1>6, <1>8, <1>9 DEF StatusExplains, Long

LEMMA AskKeeps ==
    ASSUME RoutingInv, NEW m \in AskMethods, NEW u \in Paths, Ask(m, u)
    PROVE  RoutingInv'
<1>1. phase = "serving" /\ phase' = phase /\ routes' = routes
    BY DEF Ask
<1>2. TableGood
    BY <1>1 DEF RoutingInv, TableGood
<1>3. u \in Seq(STRING)
    BY RoutingAssumption
<1>4. MostSpecific' /\ StatusExplains'
    BY <1>2, <1>3, AskMostSpecific, AskStatusExplains
<1>5. (routes \in Seq(Route))' /\ (\A i \in DOMAIN routes : UrlValid(routes[i].pattern))'
    BY <1>1 DEF RoutingInv
<1>6. (\A i, j \in DOMAIN routes : i < j => ~Clash(routes[j], routes[i]))'
    BY <1>1 DEF RoutingInv
<1> QED BY <1>1, <1>4, <1>5, <1>6 DEF RoutingInv

LEMMA RoutingInvariant == RoutingSpec => []RoutingInv
<1>1. RoutingInit => RoutingInv
    <2> SUFFICES ASSUME RoutingInit PROVE RoutingInv
        OBVIOUS
    <2>1. routes = <<>> /\ answer = NoAnswer /\ phase = "source"
        BY Zenon DEF RoutingInit
    <2>2. routes \in Seq(Route) /\ DOMAIN routes = {}
        BY <2>1
    <2> QED BY <2>1, <2>2 DEF RoutingInv, MostSpecific, StatusExplains
<1>2. RoutingInv /\ [RoutingNext]_routeVars => RoutingInv'
    <2> SUFFICES ASSUME RoutingInv, [RoutingNext]_routeVars PROVE RoutingInv'
        OBVIOUS
    <2>1. ASSUME NEW m \in RouteMethods, NEW p \in Patterns, Declare(m, p)
          PROVE  RoutingInv'
        BY <2>1, DeclareKeeps
    <2>2. CASE Generate
        BY <2>2, GenerateKeeps
    <2>3. ASSUME NEW m \in AskMethods, NEW u \in Paths, Ask(m, u) PROVE RoutingInv'
        BY <2>3, AskKeeps
    <2>4. CASE UNCHANGED routeVars
        <3>1. routes' = routes /\ phase' = phase /\ ask' = ask /\ answer' = answer
            BY <2>4 DEF routeVars
        <3>2. MostSpecific' /\ StatusExplains'
            <4>1. MostSpecific /\ StatusExplains
                BY DEF RoutingInv
            <4>2. MostSpecific'
                BY <3>1, <4>1, Zenon DEF MostSpecific, Serves, NoAnswer
            <4>3. StatusExplains'
                <5>1. MethodsAt(ask.path)' = MethodsAt(ask.path)
                    BY <3>1 DEF MethodsAt
                <5> QED BY <3>1, <4>1, <5>1 DEF StatusExplains, NoAnswer
            <4> QED BY <4>2, <4>3
        <3> QED BY <3>1, <3>2 DEF RoutingInv, NoAnswer
    <2> QED BY <2>1, <2>2, <2>3, <2>4 DEF RoutingNext
<1> QED BY <1>1, <1>2, PTL DEF RoutingSpec

(* For any accepted table, request and order of the sources, the server    *)
(* calls the one most specific of the routes a request belongs to, and     *)
(* none when there is none (route_find_exact, validate_route_clashes).     *)
THEOREM RoutesAreUnambiguous == RoutingSpec => []MostSpecific
<1>1. RoutingInv => MostSpecific
    BY DEF RoutingInv
<1> QED BY <1>1, RoutingInvariant, PTL

(* The status of a request without a route says why, and Allow names       *)
(* exactly the methods of its path (serve_missing_route, route_allow).     *)
THEOREM MissingRouteExplained == RoutingSpec => []StatusExplains
<1>1. RoutingInv => StatusExplains
    BY DEF RoutingInv
<1> QED BY <1>1, RoutingInvariant, PTL

-----------------------------------------------------------------------------
(* The pages.                                                              *)

(* The table, its direction and the size of a page, which no call changes. *)
TableTyped ==
    /\ sortOf \in Seq(SortValues) /\ size \in Nat /\ descending \in BOOLEAN

LEMMA OrderIsBijective ==
    ASSUME TableTyped, NEW o \in Orders
    PROVE  /\ o \in [DOMAIN sortOf -> DOMAIN sortOf]
           /\ \A k \in DOMAIN sortOf : \E i \in DOMAIN sortOf : o[i] = k
           /\ \A i, j \in DOMAIN sortOf : o[i] = o[j] => i = j
           /\ \A i, j \in DOMAIN sortOf : i < j => Before(o[i], o[j])
<1> DEFINE D == DOMAIN sortOf
<1>1. D = 1..Len(sortOf) /\ Len(sortOf) \in Nat
    BY LenProperties DEF TableTyped
<1>2. o \in Bijection(D, D) /\ \A i, j \in DOMAIN o : i < j => Before(o[i], o[j])
    BY DEF Orders
<1> HIDE DEF D
<1>3. o \in [D -> D]
    BY <1>2 DEF Bijection, Injection
<1>4. /\ \A k \in D : \E i \in D : o[i] = k
      /\ \A i, j \in D : o[i] = o[j] => i = j
    BY <1>2, <1>3 DEF Bijection, Injection, Surjection, IsInjective
<1> QED BY <1>2, <1>3, <1>4 DEF D

(* In an order of SQLite as many rows are ahead of a row as before it.     *)
LEMMA RankOfPlace ==
    ASSUME TableTyped, NEW o \in Orders, NEW i \in DOMAIN sortOf
    PROVE  Cardinality(Ahead(o[i])) = i - 1
<1> DEFINE D == DOMAIN sortOf
           g == [m \in 1..(i - 1) |-> o[m]]
<1>1. /\ D = 1..Len(sortOf) /\ Len(sortOf) \in Nat
    BY LenProperties DEF TableTyped
<1>2. i \in Nat /\ i - 1 \in Nat /\ 1..(i - 1) \subseteq D
      /\ \A m \in D : m \in 1..(i - 1) <=> m < i
    BY <1>1
<1>3. /\ o \in [D -> D] /\ \A k \in D : \E m \in D : o[m] = k
      /\ \A m, j \in D : o[m] = o[j] => m = j
      /\ \A m, j \in D : m < j => Before(o[m], o[j])
    BY OrderIsBijective
<1>4. \A k \in D : sortOf[k] \in Nat /\ k \in Nat
    <2>1. SortValues \subseteq Nat
        BY PagingAssumption
    <2>2. \A k \in D : sortOf[k] \in SortValues
        BY <1>1, ElementOfSeq DEF TableTyped
    <2>3. D \subseteq Nat
        BY <1>1
    <2> HIDE DEF D
    <2> QED BY <2>1, <2>2, <2>3
<1>5. \A a, b \in D : a # b => (Before(a, b) <=> a \in Ahead(b))
    BY <1>4 DEF Before, Ahead, TableTyped
<1>6. \A a, b \in D : a # b => ~(Before(a, b) /\ Before(b, a))
    BY <1>4 DEF Before, TableTyped
<1>7. \A a \in D : a \notin Ahead(a)
    BY <1>4 DEF Ahead
<1>8. Ahead(o[i]) \subseteq D
    BY DEF Ahead
<1> HIDE DEF D
<1>9. i \in D /\ o[i] \in D
    BY <1>3 DEF D
<1>10. \A m \in D : o[m] \in Ahead(o[i]) <=> m < i
    <2>1. TAKE m \in D
    <2>2. CASE m = i
        BY <1>2, <1>7, <1>9, <2>2
    <2>3. CASE m # i
        <3>1. o[m] # o[i] /\ o[m] \in D
            BY <1>3, <1>9, <2>3
        <3>2. m < i \/ i < m
            BY <1>1, <1>2, <2>3
        <3>3. m < i => o[m] \in Ahead(o[i])
            BY <1>3, <1>5, <1>9, <3>1
        <3>4. i < m => o[m] \notin Ahead(o[i])
            BY <1>3, <1>5, <1>6, <1>9, <3>1
        <3>5. ~(m < i /\ i < m)
            BY <1>1, <1>2
        <3> QED BY <3>2, <3>3, <3>4, <3>5
    <2> QED BY <2>2, <2>3
<1>11. g \in Bijection(1..(i - 1), Ahead(o[i]))
    <2>1. \A m \in 1..(i - 1) : g[m] = o[m] /\ m \in D /\ m < i
        BY <1>2
    <2>2. g \in [1..(i - 1) -> Ahead(o[i])]
        BY <1>10, <2>1
    <2> HIDE DEF g
    <2>3. \A m, j \in 1..(i - 1) : g[m] = g[j] => m = j
        BY <1>3, <2>1
    <2>4. \A k \in Ahead(o[i]) : \E m \in 1..(i - 1) : g[m] = k
        <3>1. TAKE k \in Ahead(o[i])
        <3>2. PICK m \in D : o[m] = k
            BY <1>3, <1>8
        <3>3. m \in 1..(i - 1)
            BY <1>2, <1>10, <3>2
        <3> QED BY <2>1, <3>2, <3>3
    <2>5. IsInjective(g)
        BY <2>2, <2>3 DEF IsInjective
    <2> QED BY <2>2, <2>4, <2>5 DEF Bijection, Injection, Surjection
<1>12. ExistsBijection(1..(i - 1), Ahead(o[i]))
    BY <1>11 DEF ExistsBijection
<1> QED BY <1>2, <1>12, FS_CountingElements

(* So the order that ORDER BY and the key ask for is the only one.         *)
LEMMA OrderIsSorted ==
    ASSUME TableTyped, NEW o \in Orders
    PROVE  o = Sorted
<1> DEFINE D == DOMAIN sortOf
<1>1. /\ o \in [D -> D] /\ \A k \in D : \E m \in D : o[m] = k
    BY OrderIsBijective
<1>2. \A i \in D : Cardinality(Ahead(o[i])) = i - 1
    BY RankOfPlace
<1>3. D \subseteq Int
    BY LenProperties DEF TableTyped
<1>4. Sorted = [i \in D |-> CHOOSE k \in D : Cardinality(Ahead(k)) = i - 1]
    BY DEF Sorted
<1> HIDE DEF D
<1>5. \A i \in D : (CHOOSE k \in D : Cardinality(Ahead(k)) = i - 1) = o[i]
    <2>1. TAKE i \in D
    <2>2. o[i] \in D /\ Cardinality(Ahead(o[i])) = i - 1
        BY <1>1, <1>2
    <2>3. \A k \in D : Cardinality(Ahead(k)) = i - 1 => k = o[i]
        <3>1. SUFFICES ASSUME NEW k \in D, Cardinality(Ahead(k)) = i - 1 PROVE k = o[i]
            OBVIOUS
        <3>2. PICK m \in D : o[m] = k
            BY <1>1
        <3>3. m - 1 = i - 1
            BY <1>2, <3>1, <3>2
        <3>4. m = i
            BY <1>3, <3>3
        <3> QED BY <3>2, <3>4
    <2> QED BY <2>2, <2>3
<1> QED BY <1>1, <1>4, <1>5

(* LIMIT and OFFSET of a sequence.                                         *)
LEMMA TakenIs ==
    ASSUME NEW K, NEW s \in Seq(K), NEW limit_ \in Nat, NEW off \in Nat
    PROVE  /\ Taken(s, limit_, off) \in Seq(K)
           /\ off + limit_ <= Len(s) => Len(Taken(s, limit_, off)) = limit_
           /\ off + limit_ >= Len(s) /\ off <= Len(s) =>
                 Len(Taken(s, limit_, off)) = Len(s) - off
           /\ off >= Len(s) => Len(Taken(s, limit_, off)) = 0
           /\ \A i \in 1..Len(Taken(s, limit_, off)) : Taken(s, limit_, off)[i] = s[off + i]
<1> DEFINE n == Len(s)
           to == IF off + limit_ < n THEN off + limit_ ELSE n
           r == Taken(s, limit_, off)
<1>1. n \in Nat /\ to \in Nat /\ to <= n /\ to <= off + limit_
    BY LenProperties
<1>2. r = SubSeq(s, off + 1, to)
    <2>1. (IF off < 0 THEN 0 ELSE off) = off
        OBVIOUS
    <2> QED BY <2>1, Zenon DEF Taken
<1>3. \A i \in (off + 1)..to : s[i] \in K
    <2>1. \A i \in (off + 1)..to : i \in 1..n
        BY <1>1
    <2> QED BY <2>1, ElementOfSeq
<1>4. off + 1 \in Int /\ to \in Int
    BY <1>1
<1> HIDE DEF to, r
<1>5. /\ r \in Seq(K)
      /\ Len(r) = IF off + 1 <= to THEN to - (off + 1) + 1 ELSE 0
      /\ \A i \in 1..(to - (off + 1) + 1) : r[i] = s[(off + 1) + i - 1]
    BY <1>2, <1>3, <1>4, SubSeqProperties
<1>6. /\ off + limit_ <= n => Len(r) = limit_
      /\ off + limit_ >= n /\ off <= n => Len(r) = n - off
      /\ off >= n => Len(r) = 0
    BY <1>1, <1>5 DEF to
<1>7. \A i \in 1..Len(r) : i \in 1..(to - (off + 1) + 1) /\ (off + 1) + i - 1 = off + i
    BY <1>1, <1>5
<1>8. \A i \in 1..Len(r) : r[i] = s[off + i]
    BY <1>5, <1>7
<1> QED BY <1>5, <1>6, <1>8 DEF r

(* A page cut from one row more is the page.                               *)
LEMMA PageOfOneMore ==
    ASSUME NEW K, NEW s \in Seq(K), NEW z \in Nat, NEW off \in Nat,
           NEW found, found = Taken(s, z + 1, off)
    PROVE  /\ SubSeq(found, 1, IF Len(found) > z THEN z ELSE Len(found)) = Taken(s, z, off)
           /\ Len(found) > z <=> off + z < Len(s)
<1> DEFINE n == Len(s)
           m == IF Len(found) > z THEN z ELSE Len(found)
           page_ == Taken(s, z, off)
           cut == SubSeq(found, 1, m)
<1>1. n \in Nat /\ z + 1 \in Nat
    BY LenProperties
<1>2. /\ found \in Seq(K)
      /\ off + (z + 1) <= n => Len(found) = z + 1
      /\ off + (z + 1) >= n /\ off <= n => Len(found) = n - off
      /\ off >= n => Len(found) = 0
      /\ \A i \in 1..Len(found) : found[i] = s[off + i]
    BY <1>1, TakenIs
<1>3. /\ page_ \in Seq(K)
      /\ off + z <= n => Len(page_) = z
      /\ off + z >= n /\ off <= n => Len(page_) = n - off
      /\ off >= n => Len(page_) = 0
      /\ \A i \in 1..Len(page_) : page_[i] = s[off + i]
    BY TakenIs
<1>4. Len(found) \in Nat
    BY <1>2, LenProperties
<1> HIDE DEF n, page_
<1>5. Len(found) > z <=> off + z < n
    BY <1>1, <1>2, <1>4
<1>6. m \in Nat /\ m <= Len(found) /\ m = Len(page_)
    <2>1. m \in Nat /\ m <= Len(found)
        BY <1>4
    <2>2. CASE off + z < n
        BY <1>1, <1>3, <1>5, <2>2
    <2>3. CASE ~(off + z < n) /\ off <= n
        <3>1. m = Len(found)
            BY <1>5, <2>3
        <3>2. Len(found) = n - off /\ Len(page_) = n - off
            BY <1>1, <1>2, <1>3, <2>3
        <3> QED BY <2>1, <3>1, <3>2
    <2>4. CASE off > n
        <3>1. m = Len(found)
            BY <1>1, <1>5, <2>4
        <3>2. Len(found) = 0 /\ Len(page_) = 0
            BY <1>1, <1>2, <1>3, <2>4
        <3> QED BY <2>1, <3>1, <3>2
    <2> QED BY <1>1, <2>2, <2>3, <2>4
<1> HIDE DEF m
<1>7. cut \in Seq(K) /\ Len(cut) = m /\ \A i \in 1..m : cut[i] = found[i]
    <2>1. \A i \in 1..m : found[i] \in K
        <3>1. \A i \in 1..m : i \in 1..Len(found)
            BY <1>4, <1>6
        <3> QED BY <1>2, <3>1, ElementOfSeq
    <2>2. /\ cut \in Seq(K) /\ Len(cut) = IF 1 <= m THEN m - 1 + 1 ELSE 0
          /\ \A i \in 1..(m - 1 + 1) : cut[i] = found[1 + i - 1]
        <3>1. 1 \in Int /\ m \in Int
            BY <1>6
        <3> QED BY <2>1, <3>1, SubSeqProperties
    <2>3. (IF 1 <= m THEN m - 1 + 1 ELSE 0) = m /\ 1..(m - 1 + 1) = 1..m
          /\ \A i \in 1..m : 1 + i - 1 = i
        BY <1>6
    <2> HIDE DEF cut
    <2> QED BY <2>2, <2>3
<1> HIDE DEF cut
<1>8. \A i \in 1..m : cut[i] = page_[i]
    <2>1. \A i \in 1..m : i \in 1..Len(found) /\ i \in 1..Len(page_)
        BY <1>4, <1>6
    <2> QED BY <1>2, <1>3, <1>7, <2>1
<1>9. cut = page_
    <2>1. Len(cut) = Len(page_)
        BY <1>6, <1>7
    <2> QED BY <1>3, <1>7, <1>8, <2>1, SeqEqual
<1> QED BY <1>5, <1>9 DEF cut, page_, n, m

(* The rows up to a page and the rows of the page are those up to the next.*)
LEMMA NextPage ==
    ASSUME NEW K, NEW s \in Seq(K), NEW z \in Nat, NEW off \in Nat, off <= Len(s)
    PROVE  LET to == IF off + z < Len(s) THEN off + z ELSE Len(s)
           IN  SubSeq(s, 1, off) \o Taken(s, z, off) = SubSeq(s, 1, to)
<1> DEFINE to == IF off + z < Len(s) THEN off + z ELSE Len(s)
<1>1. Len(s) \in Nat
    BY LenProperties
<1>2. Taken(s, z, off) = SubSeq(s, off + 1, to)
    <2>1. (IF off < 0 THEN 0 ELSE off) = off
        OBVIOUS
    <2> QED BY <2>1, Zenon DEF Taken
<1>3. 1 \in 1..(Len(s) + 1) /\ off \in (1 - 1)..Len(s) /\ to \in off..Len(s)
    BY <1>1
<1> HIDE DEF to
<1>4. SubSeq(s, 1, off) \o SubSeq(s, off + 1, to) = SubSeq(s, 1, to)
    BY <1>3, ConcatAdjacentSubSeq
<1> QED BY <1>2, <1>4 DEF to

(* An offset that is let through does not wrap.                            *)
LEMMA OffsetFits ==
    ASSUME NEW p \in Int, Size \in Nat, PageValid(p)
    PROVE  /\ p \in Nat /\ Size >= 1 /\ p * Size \in Nat /\ p <= IntMax
           /\ Wrapped(p * Size) = p * Size
           /\ (p + 1) * Size = p * Size + Size
<1>1. IntMax \in Nat
    BY PagingAssumption
<1>2. p \in Nat /\ Size >= 1 /\ p <= IntMax \div Size
    BY DEF PageValid
<1>3. \A n, d \in Nat : d >= 1 => n \div d \in Nat /\ (n \div d) * d <= n /\ n \div d <= n
    OBVIOUS
<1>4. \A a, b, d \in Nat : a <= b => a * d <= b * d /\ a * d \in Nat
    OBVIOUS
<1>5. p * Size \in Nat /\ p * Size <= (IntMax \div Size) * Size
    BY <1>1, <1>2, <1>3, <1>4, Zenon
<1>6. \A x, y, w \in Nat : x <= y * w /\ y * w <= IntMax => x <= IntMax
    BY <1>1
<1>7. p * Size <= IntMax
    <2>1. (IntMax \div Size) * Size <= IntMax /\ IntMax \div Size \in Nat
        BY <1>1, <1>2, <1>3, Zenon
    <2> QED BY <1>2, <1>5, <1>6, <2>1, Zenon
<1>8. \A n \in Nat : n <= IntMax => Wrapped(n) = n
    <2>1. \A a, b \in Nat : a < b => a % b = a
        OBVIOUS
    <2>2. \A n \in Nat : n <= IntMax => n + IntMax + 1 < 2 * (IntMax + 1)
                                        /\ n + IntMax + 1 \in Nat /\ 2 * (IntMax + 1) \in Nat
        BY <1>1
    <2>3. \A n \in Nat : (n + IntMax + 1) - IntMax - 1 = n
        BY <1>1
    <2>4. TAKE n \in Nat
    <2>5. HAVE n <= IntMax
    <2>6. (n + IntMax + 1) % (2 * (IntMax + 1)) = n + IntMax + 1
        BY <2>1, <2>2, <2>5, Zenon
    <2>7. Wrapped(n) = (n + IntMax + 1) - IntMax - 1
        BY <2>6, Zenon DEF Wrapped
    <2> QED BY <2>3, <2>7, Zenon
<1>9. \A a, d \in Nat : (a + 1) * d = a * d + d
    OBVIOUS
<1>10. p <= IntMax
    BY <1>1, <1>2, <1>3
<1> QED BY <1>2, <1>5, <1>7, <1>8, <1>9, <1>10

LEMMA SortedIsSeq ==
    ASSUME TableTyped
    PROVE  /\ Sorted \in Seq({Sorted[i] : i \in DOMAIN sortOf})
           /\ Len(Sorted) \in Nat
<1>1. DOMAIN sortOf = 1..Len(sortOf) /\ Len(sortOf) \in Nat
    BY LenProperties DEF TableTyped
<1>2. Sorted = [i \in DOMAIN sortOf |-> Sorted[i]]
    BY DEF Sorted
<1> DEFINE K == {Sorted[i] : i \in DOMAIN sortOf}
<1>3. Sorted \in [1..Len(sortOf) -> K]
    BY <1>1, <1>2
<1> HIDE DEF K
<1>4. Sorted \in Seq(K)
    BY <1>1, <1>3, SeqDef
<1> QED BY <1>4, LenProperties DEF K

LEMMA SizeIsNat == TableTyped => Size \in Nat
    BY PagingAssumption DEF TableTyped, Size

(* What a call for page p answers.                                         *)
PageOf(r, s, z, p) ==
    /\ r.status = 200 /\ r.page = p
    /\ r.keys = Taken(s, z, p * z)
    /\ r.more \in BOOLEAN /\ (r.more <=> (p + 1) * z < Len(s))

Unchanging == UNCHANGED <<sortOf, size, descending>>

LEMMA TableStays ==
    ASSUME Unchanging
    PROVE  Sorted' = Sorted /\ Size' = Size /\ (TableTyped => TableTyped')
<1>1. sortOf' = sortOf /\ size' = size /\ descending' = descending
    BY DEF Unchanging
<1>2. \A k : Ahead(k)' = Ahead(k)
    BY <1>1 DEF Ahead
<1>3. Sorted' = Sorted
    BY <1>1 DEF Sorted, Ahead
<1>4. Size' = Size
    BY <1>1 DEF Size
<1> QED BY <1>1, <1>3, <1>4 DEF TableTyped

LEMMA QueryAnswers ==
    ASSUME TableTyped, NEW p \in Int, Query(p), Unchanging
    PROVE  /\ PageValid(p) => PageOf(reply', Sorted, Size, p)
           /\ ~PageValid(p) => /\ reply'.status = 400 /\ reply'.page = p
                               /\ reply'.keys = <<>> /\ reply'.more = FALSE
<1> DEFINE K == {Sorted[i] : i \in DOMAIN sortOf}
<1>1. Sorted \in Seq(K) /\ Len(Sorted) \in Nat /\ Size \in Nat
    BY SortedIsSeq, SizeIsNat
<1>2. Sorted' = Sorted /\ Size' = Size
    BY TableStays
<1> HIDE DEF K
<1>3. CASE PageValid(p)
    <2>1. PICK order \in Orders :
            LET found == Taken(order, Size + 1, Wrapped(p * Size))
            IN  reply' = [status |-> 200, page |-> p,
                          keys |-> SubSeq(found, 1, IF Len(found) > Size THEN Size
                                                    ELSE Len(found)),
                          more |-> Len(found) > Size]
        BY <1>3 DEF Query
    <2> DEFINE off == p * Size
               found == Taken(Sorted, Size + 1, off)
    <2>2. order = Sorted
        BY OrderIsSorted
    <2>3. off \in Nat /\ Wrapped(off) = off /\ (p + 1) * Size = off + Size
        BY <1>1, <1>3, OffsetFits
    <2>4. /\ reply'.status = 200 /\ reply'.page = p
          /\ reply'.keys = SubSeq(found, 1, IF Len(found) > Size THEN Size ELSE Len(found))
          /\ reply'.more = (Len(found) > Size)
        BY <2>1, <2>2, <2>3
    <2> HIDE DEF off
    <2>5. /\ SubSeq(found, 1, IF Len(found) > Size THEN Size ELSE Len(found))
                = Taken(Sorted, Size, off)
          /\ Len(found) > Size <=> off + Size < Len(Sorted)
        BY <1>1, <2>3, PageOfOneMore
    <2> HIDE DEF found
    <2>6. reply'.keys = Taken(Sorted, Size, p * Size)
        BY <2>4, <2>5 DEF off
    <2>7. reply'.more \in BOOLEAN /\ (reply'.more <=> (p + 1) * Size < Len(Sorted))
        <3>1. (Len(found) > Size) \in BOOLEAN
            OBVIOUS
        <3>2. (p + 1) * Size < Len(Sorted) <=> Len(found) > Size
            BY <2>3, <2>5, Zenon
        <3> QED BY <2>4, <3>1, <3>2, Zenon
    <2> QED BY <1>3, <2>4, <2>6, <2>7 DEF PageOf
<1>4. CASE ~PageValid(p)
    BY <1>4 DEF Query
<1> QED BY <1>3, <1>4

(***************************************************************************)
(* The inductive invariant: the walk has met the rows of whole pages, and  *)
(* after a page that was answered exactly those up to the next page.       *)
(***************************************************************************)
WalkedTo(w, s, n) == n \in 0..Len(s) /\ w = SubSeq(s, 1, n)

PagingInv ==
    /\ TableTyped /\ page \in Nat /\ reply.page \in Int /\ reply.more \in BOOLEAN
    /\ page = 0 => walked = <<>>
    /\ \E n \in Nat : WalkedTo(walked, Sorted, n)
    /\ reply.more => reply.status = 200
    /\ reply.status = 200 => PageOf(reply, Sorted, Size, reply.page)
    /\ reply.status = 200 /\ page \in 1..IntMax =>
          /\ reply.page + 1 = page
          /\ WalkedTo(walked, Sorted, IF page * Size < Len(Sorted) THEN page * Size ELSE Len(Sorted))

LEMMA EmptyWalk ==
    ASSUME TableTyped, walked = <<>>
    PROVE  WalkedTo(walked, Sorted, 0)
<1>1. Len(Sorted) \in Nat
    BY SortedIsSeq
<1>2. SubSeq(Sorted, 1, 0) = <<>>
    BY SubSeqEmpty
<1>3. 0 \in 0..Len(Sorted)
    BY <1>1
<1> QED BY <1>2, <1>3 DEF WalkedTo

LEMMA WalkKeeps == PagingInv /\ Walk => PagingInv'
<1> SUFFICES ASSUME PagingInv, Walk PROVE PagingInv'
    OBVIOUS
<1> DEFINE K == {Sorted[i] : i \in DOMAIN sortOf}
           n == Len(Sorted)
<1>1. /\ TableTyped /\ page \in Nat /\ reply.page \in Int /\ reply.more \in BOOLEAN
      /\ page = 0 => walked = <<>>
      /\ \E m \in Nat : WalkedTo(walked, Sorted, m)
      /\ reply.more => reply.status = 200
      /\ reply.status = 200 => PageOf(reply, Sorted, Size, reply.page)
      /\ reply.status = 200 /\ page \in 1..IntMax =>
            /\ reply.page + 1 = page
            /\ WalkedTo(walked, Sorted, IF page * Size < n THEN page * Size ELSE n)
    BY DEF PagingInv
<1>2. /\ page = 0 \/ reply.more
      /\ reply.page + 1 = page \/ page = 0
      /\ Query(page) /\ page' = page + 1 /\ walked' = walked \o reply'.keys
      /\ Unchanging
    BY DEF Walk, Unchanging
<1>3. /\ Sorted \in Seq(K) /\ n \in Nat /\ Size \in Nat /\ Sorted' = Sorted
      /\ Size' = Size /\ TableTyped'
    BY <1>1, <1>2, SortedIsSeq, SizeIsNat, TableStays
<1>4. IntMax \in Nat /\ page \in Int /\ page' \in Nat /\ page' # 0
    BY <1>1, <1>2, PagingAssumption
<1> HIDE DEF K
<1>5. CASE PageValid(page)
    <2> DEFINE off == page * Size
               to == IF off + Size < n THEN off + Size ELSE n
    <2>1. PageOf(reply', Sorted, Size, page)
        BY <1>1, <1>2, <1>4, <1>5, QueryAnswers
    <2>2. /\ page <= IntMax /\ off \in Nat /\ (page + 1) * Size = off + Size
        BY <1>3, <1>4, <1>5, OffsetFits
    <2>3. WalkedTo(walked, Sorted, off)
        <3>1. CASE page = 0
            <4>1. WalkedTo(walked, Sorted, 0)
                BY <1>1, <3>1, EmptyWalk
            <4>2. off = 0
                BY <1>3, <3>1
            <4> QED BY <4>1, <4>2
        <3>2. CASE page # 0
            <4>1. /\ page \in 1..IntMax /\ reply.more /\ reply.page + 1 = page
                  /\ reply.status = 200
                BY <1>1, <1>2, <1>4, <2>2, <3>2
            <4>2. (reply.page + 1) * Size < n
                BY <1>1, <4>1 DEF PageOf
            <4>3. off < n
                BY <4>1, <4>2
            <4> QED BY <1>1, <4>1, <4>3
        <3> QED BY <3>1, <3>2
    <2>4. reply'.keys = Taken(Sorted, Size, off)
        BY <1>3, <2>1 DEF PageOf
    <2> HIDE DEF off
    <2>5. off <= n /\ walked = SubSeq(Sorted, 1, off)
        BY <1>3, <2>3 DEF WalkedTo
    <2>6. walked' = SubSeq(Sorted, 1, to)
        BY <1>2, <1>3, <2>2, <2>4, <2>5, NextPage
    <2>7. to \in 0..n /\ to \in Nat
        BY <1>3, <2>2
    <2>8. WalkedTo(walked', Sorted, to)
        BY <2>6, <2>7 DEF WalkedTo
    <2>9. page' * Size' = off + Size /\ reply'.page = page
        BY <1>2, <1>3, <2>1, <2>2 DEF PageOf
    <2>10. /\ reply'.page \in Int /\ reply'.more \in BOOLEAN /\ reply'.status = 200
        BY <1>4, <2>1 DEF PageOf
    <2>11. PageOf(reply', Sorted', Size', reply'.page)
        BY <1>3, <2>1, <2>9
    <2>12. WalkedTo(walked', Sorted', IF page' * Size' < Len(Sorted') THEN page' * Size'
                                      ELSE Len(Sorted'))
        BY <1>3, <2>8, <2>9
    <2>13. \E m \in Nat : WalkedTo(walked', Sorted', m)
        BY <1>3, <2>7, <2>8
    <2>14. reply'.page + 1 = page'
        BY <1>2, <2>9
    <2> HIDE DEF to, n
    <2> QED BY <1>3, <1>4, <2>10, <2>11, <2>12, <2>13, <2>14 DEF PagingInv
<1>6. CASE ~PageValid(page)
    <2>1. /\ reply'.status = 400 /\ reply'.page = page
          /\ reply'.keys = <<>> /\ reply'.more = FALSE
        <3>1. TableTyped /\ page \in Int /\ Query(page) /\ Unchanging
            BY <1>1, <1>2, <1>4
        <3> QED BY <1>6, <3>1, QueryAnswers, Zenon
    <2>2. PICK m \in Nat : WalkedTo(walked, Sorted, m)
        BY <1>1
    <2>3. walked' = walked
        <3>1. SubSeq(Sorted, 1, m) \in Seq(K)
            <4>1. m \in 0..n
                BY <2>2 DEF WalkedTo
            <4> QED BY <1>3, <4>1
        <3>2. walked \in Seq(K)
            BY <2>2, <3>1 DEF WalkedTo
        <3>3. walked \o <<>> = walked
            BY <3>2, ConcatEmptySeq
        <3> QED BY <1>2, <2>1, <3>3
    <2>4. \E k \in Nat : WalkedTo(walked', Sorted', k)
        BY <1>3, <2>2, <2>3
    <2>5. reply'.more \in BOOLEAN /\ ~reply'.more
        BY <2>1, Zenon
    <2>6. reply'.status # 200 /\ reply'.page \in Int
        BY <1>4, <2>1
    <2> HIDE DEF n
    <2> QED BY <1>3, <1>4, <2>4, <2>5, <2>6 DEF PagingInv
<1> QED BY <1>5, <1>6

LEMMA JumpKeeps ==
    ASSUME PagingInv, NEW p \in -1..IntMax, Jump(p)
    PROVE  PagingInv'
<1>1. /\ TableTyped /\ page = 0 /\ walked = <<>> /\ Query(p) /\ Unchanging
      /\ page' = IntMax + 1 /\ walked' = walked
    BY DEF PagingInv, Jump, Unchanging
<1>2. IntMax \in Nat /\ p \in Int /\ page' \in Nat /\ page' # 0 /\ page' \notin 1..IntMax
    BY <1>1, PagingAssumption
<1>3. Sorted' = Sorted /\ Size' = Size /\ TableTyped'
    BY <1>1, TableStays
<1>4. WalkedTo(walked', Sorted', 0)
    BY <1>1, <1>3, EmptyWalk
<1>5. CASE PageValid(p)
    <2>1. PageOf(reply', Sorted, Size, p)
        BY <1>1, <1>2, <1>5, QueryAnswers
    <2>2. /\ reply'.page \in Int /\ reply'.more \in BOOLEAN /\ reply'.status = 200
          /\ PageOf(reply', Sorted', Size', reply'.page)
        BY <1>2, <1>3, <2>1 DEF PageOf
    <2> QED BY <1>2, <1>3, <1>4, <2>2 DEF PagingInv
<1>6. CASE ~PageValid(p)
    <2>1. /\ reply'.status = 400 /\ reply'.page = p /\ reply'.more = FALSE
        BY <1>1, <1>2, <1>6, QueryAnswers, Zenon
    <2>2. reply'.more \in BOOLEAN /\ ~reply'.more
        BY <2>1, Zenon
    <2>3. reply'.status # 200 /\ reply'.page \in Int
        BY <1>2, <2>1
    <2> QED BY <1>2, <1>3, <1>4, <2>2, <2>3 DEF PagingInv
<1> QED BY <1>5, <1>6

LEMMA PagingInvPartitions == PagingInv => PagesPartition
<1> SUFFICES ASSUME PagingInv PROVE PagesPartition
    OBVIOUS
<1> DEFINE K == {Sorted[i] : i \in DOMAIN sortOf}
           n == Len(Sorted)
<1>1. Sorted \in Seq(K) /\ n \in Nat /\ Size \in Nat
    BY SortedIsSeq, SizeIsNat DEF PagingInv
<1> HIDE DEF K
<1>2. IsPrefix(walked, Sorted)
    <2>1. PICK m \in Nat : m \in 0..n /\ walked = SubSeq(Sorted, 1, m)
        BY DEF PagingInv, WalkedTo
    <2>2. walked \in Seq(K) /\ Len(walked) = m
        BY <1>1, <2>1
    <2>3. SubSeq(walked, 1, Len(walked)) = walked
        BY <2>2, SubSeqFull
    <2>4. m <= n
        BY <1>1, <2>1
    <2> QED BY <2>1, <2>2, <2>3, <2>4 DEF IsPrefix
<1>3. reply.status = 200 =>
          /\ reply.keys = Taken(Sorted, Size, reply.page * Size)
          /\ reply.more <=> (reply.page + 1) * Size < Len(Sorted)
    BY DEF PagingInv, PageOf
<1>4. ASSUME reply.status = 200, page \in 1..IntMax, ~reply.more PROVE walked = Sorted
    <2>1. /\ reply.page + 1 = page
          /\ WalkedTo(walked, Sorted, IF page * Size < n THEN page * Size ELSE n)
        BY <1>4 DEF PagingInv
    <2>2. ~(page * Size < n)
        BY <1>3, <1>4, <2>1
    <2>3. walked = SubSeq(Sorted, 1, n)
        BY <2>1, <2>2 DEF WalkedTo
    <2> QED BY <1>1, <2>3, SubSeqFull
<1> QED BY <1>2, <1>3, <1>4 DEF PagesPartition

(* A walk through the pages meets every row once and in order, and a page  *)
(* asked for by itself has the rows of its place, for any table, any size  *)
(* of a page and any width of an int (db_search, db_query_page).           *)
THEOREM PagesArePartitions == PagingSpec => []PagesPartition
<1>1. PagingInit => PagingInv
    <2> SUFFICES ASSUME PagingInit PROVE PagingInv
        OBVIOUS
    <2>1. page = 0 /\ walked = <<>> /\ reply = NoReply
        BY DEF PagingInit
    <2>2. TableTyped
        <3>1. sortOf \in Seq(SortValues)
            <4>1. PICK m \in 0..TableMax : sortOf \in [1..m -> SortValues]
                BY DEF PagingInit, SeqOf
            <4>2. m \in Nat
                BY PagingAssumption
            <4> QED BY <4>1, <4>2, SeqDef
        <3>2. size \in Nat
            BY PagingAssumption DEF PagingInit
        <3> QED BY <3>1, <3>2 DEF PagingInit, TableTyped
    <2>3. WalkedTo(walked, Sorted, 0)
        BY <2>1, <2>2, EmptyWalk
    <2>4. reply.page \in Int /\ reply.more = FALSE /\ reply.status = 0
        BY <2>1 DEF NoReply
    <2>5. reply.more \in BOOLEAN /\ ~reply.more
        BY <2>4, Zenon
    <2>6. reply.status # 200
        BY <2>4
    <2>7. reply.page \in Int
        BY <2>4
    <2> QED BY <2>1, <2>2, <2>3, <2>5, <2>6, <2>7 DEF PagingInv
<1>2. PagingInv /\ [PagingNext]_pagingVars => PagingInv'
    <2> SUFFICES ASSUME PagingInv, [PagingNext]_pagingVars PROVE PagingInv'
        OBVIOUS
    <2>1. CASE Walk
        BY <2>1, WalkKeeps
    <2>2. ASSUME NEW p \in -1..IntMax, Jump(p) PROVE PagingInv'
        BY <2>2, JumpKeeps
    <2>3. CASE UNCHANGED pagingVars
        <3>1. /\ Unchanging /\ page' = page /\ walked' = walked /\ reply' = reply
            BY <2>3 DEF pagingVars, Unchanging
        <3>2. Sorted' = Sorted /\ Size' = Size /\ (TableTyped => TableTyped')
            BY <3>1, TableStays
        <3> QED BY <3>1, <3>2 DEF PagingInv
    <2> QED BY <2>1, <2>2, <2>3 DEF PagingNext
<1> QED BY <1>1, <1>2, PagingInvPartitions, PTL DEF PagingSpec

-----------------------------------------------------------------------------
(* The table of client_limit.                                              *)

(* A call is one that its thread may make, and its time is not in the      *)
(* future; of every address, no more are under way than it has open        *)
(* connections.                                                            *)
CallsInv ==
    /\ TypeOK
    /\ CountsLive
    /\ \A c \in Callers : calls[c] # NoCall =>
          /\ calls[c].ip \in Addresses /\ calls[c].now <= clock
          /\ calls[c].action = "connect" => c = Acceptor
          /\ calls[c].action = "request" => c \in Workers
    /\ \A a \in Addresses : Cardinality(Under(a)) <= live[a]

LEMMA UnderIsFinite ==
    ASSUME NEW a
    PROVE  IsFiniteSet(Under(a)) /\ Cardinality(Under(a)) \in Nat
<1>1. IsFiniteSet(Callers)
    BY LimitsAssumption, FS_AddElement DEF Callers
<1>2. IsFiniteSet(Under(a))
    BY <1>1, FS_Subset DEF Under
<1> QED BY <1>2, FS_CardinalityType

(* A new window keeps the connections, and begins with the time it is      *)
(* given.                                                                  *)
LEMMA RenewedKeeps ==
    ASSUME NEW s \in Slot, NEW now \in Nat
    PROVE  LET r == Renewed(s, now) IN
           /\ r \in Slot /\ r.used = s.used /\ r.ip = s.ip
           /\ r.connections = s.connections
           /\ now < r.window + Window
           /\ \/ r = s
              \/ s.window + Window <= now /\ r.window = now /\ r.requests = 0
<1>1. CASE now - s.window >= Window
    <2> DEFINE d == [s EXCEPT !.requests = 0, !.window = now]
    <2>1. Renewed(s, now) = d
        BY <1>1 DEF Renewed
    <2>2. /\ d \in Slot /\ d.used = s.used /\ d.ip = s.ip
          /\ d.connections = s.connections /\ d.window = now /\ d.requests = 0
        BY DEF Slot
    <2>3. s.window + Window <= now /\ now < now + Window
        BY <1>1, LimitsAssumption DEF Slot
    <2> QED BY <2>1, <2>2, <2>3
<1>2. CASE ~(now - s.window >= Window)
    <2>1. now < s.window + Window
        BY <1>2, LimitsAssumption DEF Slot
    <2>2. Renewed(s, now) = s
        BY <1>2 DEF Renewed
    <2> QED BY <2>1, <2>2
<1> QED BY <1>1, <1>2

(* A new slot is a slot, whatever was in it.                               *)
LEMMA NewSlotType ==
    ASSUME NEW a \in Addresses, NEW now \in Nat
    PROVE  /\ NewSlot(a, now) \in Slot
           /\ NewSlot(a, now).used /\ NewSlot(a, now).ip = a
           /\ NewSlot(a, now).connections = 0 /\ NewSlot(a, now).requests = 0
           /\ NewSlot(a, now).window = now
BY DEF NewSlot, Slot

(* The call of c, as its fields.                                           *)
LEMMA CallTyped ==
    ASSUME CallsInv, NEW c \in Callers, calls[c].action # "none"
    PROVE  /\ calls[c] # NoCall /\ calls[c].ip \in Addresses
           /\ calls[c].now \in Nat /\ calls[c].now <= clock
           /\ calls[c].action \in {"connect", "request", "release"}
BY DEF CallsInv, TypeOK, Call, NoCall

-----------------------------------------------------------------------------
(* The connections of one address.                                         *)
Counted(a) ==
    /\ live[a] <= ConnLimit
    /\ live[a] > 0 => Known(a)
    /\ \A i \in Slots : Owns(i, a) => table[i].connections = live[a]
    /\ \A i, j \in Slots : Owns(i, a) /\ Owns(j, a) => i = j

(* A call writes one slot, which is the caller's afterwards and was its    *)
(* own or nobody's with connections before; the count follows what was     *)
(* granted.  Everyone is counted as before.                                *)
LEMMA OneSlotWritten ==
    ASSUME TypeOK, CountsLive, NEW a \in Addresses, NEW i \in Slots,
           NEW s \in Slot, s.used, s.ip = a,
           Owns(i, a) \/ (~Known(a) /\ (table[i].used => table[i].connections = 0)),
           table' = [table EXCEPT ![i] = s],
           live'[a] = s.connections, live'[a] <= ConnLimit,
           \A b \in Addresses \ {a} : live'[b] = live[b]
    PROVE  CountsLive'
<1> SUFFICES ASSUME NEW b \in Addresses PROVE Counted(b)'
    BY DEF CountsLive, Counted
<1>1. Counted(b) /\ Counted(a)
    BY DEF CountsLive, Counted
<1>2. table'[i] = s /\ \A j \in Slots \ {i} : table'[j] = table[j]
    BY DEF TypeOK
<1>3. \A j \in Slots \ {i} : ~Owns(j, a)
    BY <1>1 DEF Counted, Known
<1>4. CASE b = a
    <2>1. \A j \in Slots : Owns(j, a)' <=> j = i
        BY <1>2, <1>3 DEF Owns
    <2> QED BY <1>2, <1>4, <2>1 DEF Counted, Known
<1>5. CASE b # a
    <2>1. \A j \in Slots : Owns(j, b)' <=> Owns(j, b) /\ j # i
        BY <1>2, <1>5 DEF Owns
    <2>2. Owns(i, b) => live[b] = 0
        <3>1. Owns(i, b) => ~Owns(i, a) /\ table[i].connections = 0
            BY <1>5 DEF Owns
        <3> QED BY <1>1, <3>1 DEF Counted
    <2>3. live'[b] > 0 => Known(b)'
        BY <1>1, <1>5, <2>1, <2>2 DEF Counted, Known
    <2> QED BY <1>1, <1>2, <1>5, <2>1, <2>3 DEF Counted
<1> QED BY <1>4, <1>5

(* The connection is counted when, and only when, it is granted.           *)
LEMMA TakeCounts ==
    ASSUME TypeOK, CountsLive, NEW a \in Addresses, NEW i \in Slots,
           NEW s \in Slot, s.used, s.ip = a, s.connections = live[a],
           Owns(i, a) \/ (~Known(a) /\ (table[i].used => table[i].connections = 0)),
           TakeConnection(a, i, s)
    PROVE  /\ CountsLive'
           /\ table' \in [Slots -> Slot] /\ live' \in [Addresses -> Nat]
           /\ \A b \in Addresses : live[b] <= live'[b]
           /\ \E t \in Slot : /\ t.used /\ t.ip = a /\ t.window = s.window
                              /\ t.requests = s.requests
                              /\ table' = [table EXCEPT ![i] = t]
<1>1. live[a] \in Nat /\ live[a] <= ConnLimit
    BY DEF TypeOK, CountsLive
<1>2. CASE s.connections < ConnLimit
    <2> DEFINE d == [s EXCEPT !.connections = @ + 1]
    <2>1. /\ d \in Slot /\ d.used /\ d.ip = a /\ d.connections = live[a] + 1
          /\ d.window = s.window /\ d.requests = s.requests
        BY DEF Slot
    <2>2. table' = [table EXCEPT ![i] = d] /\ live' = [live EXCEPT ![a] = @ + 1]
        BY <1>2 DEF TakeConnection
    <2>3. live'[a] = live[a] + 1 /\ \A b \in Addresses \ {a} : live'[b] = live[b]
        BY <2>2 DEF TypeOK
    <2>4. live'[a] <= ConnLimit
        BY <1>1, <1>2, <2>3, LimitsAssumption
    <2> HIDE DEF d
    <2>5. table' \in [Slots -> Slot] /\ live' \in [Addresses -> Nat]
        BY <2>1, <2>2 DEF TypeOK
    <2>6. \A b \in Addresses : live[b] <= live'[b]
        BY <1>1, <2>3 DEF TypeOK
    <2> QED BY <2>1, <2>2, <2>3, <2>4, <2>5, <2>6, OneSlotWritten
<1>3. CASE ~(s.connections < ConnLimit)
    <2>1. table' = [table EXCEPT ![i] = s] /\ live' = live
        BY <1>3 DEF TakeConnection
    <2>2. table' \in [Slots -> Slot] /\ live' \in [Addresses -> Nat]
        BY <2>1 DEF TypeOK
    <2>3. \A b \in Addresses : live[b] <= live'[b]
        BY <2>1 DEF TypeOK
    <2> QED BY <1>1, <2>1, <2>2, <2>3, OneSlotWritten
<1> QED BY <1>2, <1>3

(* The slot of an address, in the window of the call.                      *)
LEMMA ItsSlot ==
    ASSUME TypeOK, CountsLive, NEW a \in Addresses, NEW i \in Slots, Its(i, a),
           NEW now \in Nat
    PROVE  LET s == Renewed(table[i], now) IN
           /\ Owns(i, a) /\ s \in Slot /\ s.used /\ s.ip = a
           /\ s.connections = live[a]
<1>1. Owns(i, a)  BY DEF Its
<1>2. table[i] \in Slot  BY DEF TypeOK
<1>3. table[i].connections = live[a]  BY <1>1 DEF CountsLive
<1> QED BY <1>1, <1>2, <1>3, RenewedKeeps DEF Owns

(* A call that is answered leaves the others as they were.                 *)
LEMMA AnsweredKeeps ==
    ASSUME CallsInv, NEW c \in Callers, NEW action, Answered(c, action),
           table' \in [Slots -> Slot], live' \in [Addresses -> Nat],
           granted' \in Seq(Grant), CountsLive',
           \A b \in Addresses : Cardinality(Under(b) \ {c}) <= live'[b]
    PROVE  CallsInv'
<1>1. /\ calls' = [calls EXCEPT ![c] = NoCall]
      /\ clock' = clock /\ watched' = watched
    BY DEF Answered
<1>2. calls' \in [Callers -> Call]
    BY <1>1 DEF CallsInv, TypeOK, NoCall, Call
<1>3. calls'[c] = NoCall /\ \A d \in Callers \ {c} : calls'[d] = calls[d]
    BY <1>1 DEF CallsInv, TypeOK
<1>4. TypeOK'
    BY <1>1, <1>2 DEF CallsInv, TypeOK
<1>5. \A d \in Callers : calls'[d] # NoCall => calls'[d] = calls[d]
    BY <1>3
<1>6. ASSUME NEW b \in Addresses PROVE Under(b)' = Under(b) \ {c}
    <2>1. ~(calls'[c].ip = b)
        BY <1>3, LimitsAssumption DEF NoCall
    <2> QED BY <1>3, <2>1 DEF Under
<1> QED BY <1>1, <1>4, <1>5, <1>6 DEF CallsInv

LEMMA OneLess ==
    ASSUME NEW a, NEW c
    PROVE  /\ Cardinality(Under(a) \ {c}) \in Nat
           /\ Cardinality(Under(a) \ {c}) <= Cardinality(Under(a))
           /\ c \in Under(a) => Cardinality(Under(a) \ {c}) = Cardinality(Under(a)) - 1
<1>1. IsFiniteSet(Under(a)) /\ Cardinality(Under(a)) \in Nat
    BY UnderIsFinite
<1>2. /\ IsFiniteSet(Under(a) \ {c})
      /\ Cardinality(Under(a) \ {c}) =
             IF c \in Under(a) THEN Cardinality(Under(a)) - 1 ELSE Cardinality(Under(a))
    BY <1>1, FS_RemoveElement
<1>3. Cardinality(Under(a) \ {c}) \in Nat
    BY <1>2, FS_CardinalityType
<1> QED BY <1>1, <1>2, <1>3

(* Every step keeps the types and the counts.                              *)
LEMMA CallsStep == CallsInv /\ [Next]_vars => CallsInv'
<1> SUFFICES ASSUME CallsInv, [Next]_vars PROVE CallsInv'
    OBVIOUS
<1>t. TypeOK /\ CountsLive
    BY DEF CallsInv
<1>u. ASSUME NEW b \in Addresses, NEW c
      PROVE  /\ Cardinality(Under(b) \ {c}) \in Nat
             /\ Cardinality(Under(b)) \in Nat
             /\ Cardinality(Under(b)) <= live[b] /\ live[b] \in Nat
             /\ Cardinality(Under(b) \ {c}) <= live[b]
    <2>1. Cardinality(Under(b)) <= live[b] /\ live[b] \in Nat
        BY DEF CallsInv, TypeOK
    <2>2. Cardinality(Under(b)) \in Nat
        BY UnderIsFinite
    <2>3. /\ Cardinality(Under(b) \ {c}) \in Nat
          /\ Cardinality(Under(b) \ {c}) <= Cardinality(Under(b))
        BY OneLess
    <2> QED BY <2>1, <2>2, <2>3
<1>w. ASSUME NEW c \in Callers, NEW a \in Addresses, NEW i \in Slots, NEW s \in Slot,
             Answered(c, "connect"), UNCHANGED granted,
             s.used, s.ip = a, s.connections = live[a],
             Owns(i, a) \/ (~Known(a) /\ (table[i].used => table[i].connections = 0)),
             TakeConnection(a, i, s)
      PROVE  CallsInv'
    <2>1. /\ CountsLive'
          /\ table' \in [Slots -> Slot] /\ live' \in [Addresses -> Nat]
          /\ \A b \in Addresses : live[b] <= live'[b]
        BY <1>t, <1>w, TakeCounts
    <2>2. ASSUME NEW b \in Addresses PROVE Cardinality(Under(b) \ {c}) <= live'[b]
        <3>1. live[b] <= live'[b] /\ live'[b] \in Nat
            BY <2>1
        <3> QED BY <1>u, <3>1
    <2>3. granted' \in Seq(Grant)
        BY <1>t, <1>w DEF TypeOK
    <2> QED BY <1>w, <2>1, <2>2, <2>3, AnsweredKeeps
<1>1. ASSUME NEW c \in Callers, NEW a \in Addresses,
             NEW action \in {"connect", "request", "release"}, Enter(c, a, action)
      PROVE  CallsInv'
    <2>1. /\ calls' = [calls EXCEPT ![c] = [action |-> action, ip |-> a, now |-> clock]]
          /\ UNCHANGED <<table, clock, live, watched, granted>>
        BY <1>1 DEF Enter
    <2> DEFINE new == [action |-> action, ip |-> a, now |-> clock]
    <2>2. /\ calls'[c] = new /\ \A d \in Callers \ {c} : calls'[d] = calls[d]
          /\ calls' \in [Callers -> Call]
        BY <1>t, <2>1 DEF TypeOK, Call
    <2>3. TypeOK' /\ CountsLive'
        BY <1>t, <2>1, <2>2 DEF TypeOK, CountsLive, Known, Owns
    <2>4. \A d \in Callers : calls'[d] # NoCall =>
              /\ calls'[d].ip \in Addresses /\ calls'[d].now <= clock'
              /\ calls'[d].action = "connect" => d = Acceptor
              /\ calls'[d].action = "request" => d \in Workers
        <3>1. action = "connect" => c = Acceptor
            BY <1>1 DEF Enter
        <3>2. action = "request" => c \in Workers
            BY <1>1 DEF Enter
        <3>3. clock' = clock /\ clock <= clock
            BY <1>t, <2>1 DEF TypeOK
        <3> QED BY <2>2, <3>1, <3>2, <3>3 DEF CallsInv
    <2>5. ASSUME NEW b \in Addresses PROVE Cardinality(Under(b)') <= live'[b]
        <3>1. CASE b = a /\ action # "connect"
            <4>1. Under(b)' = Under(b) \cup {c}
                BY <2>2, <3>1 DEF Under
            <4>2. c \notin Under(b)
                <5>1. calls[c] = NoCall
                    BY <1>1 DEF Enter
                <5> QED BY <5>1, LimitsAssumption DEF Under, NoCall
            <4>3. Cardinality(Under(b)') = Cardinality(Under(b)) + 1
                BY <4>1, <4>2, UnderIsFinite, FS_AddElement
            <4>4. Cardinality(Under(b)) < live[b]
                BY <1>1, <3>1 DEF Enter
            <4>5. Cardinality(Under(b)) \in Nat /\ live[b] \in Nat /\ live'[b] = live[b]
                BY <1>u, <2>1
            <4> QED BY <4>3, <4>4, <4>5
        <3>2. CASE ~(b = a /\ action # "connect")
            <4>1. Under(b)' = Under(b) \ {c}
                BY <2>2, <3>2 DEF Under
            <4> QED BY <1>u, <2>1, <4>1
        <3> QED BY <3>1, <3>2
    <2> QED BY <2>3, <2>4, <2>5 DEF CallsInv
<1>2. ASSUME NEW c \in Callers, ConnectKnown(c) PROVE CallsInv'
    <2> DEFINE a == calls[c].ip
    <2>1. calls[c].action # "none"
        BY <1>2 DEF ConnectKnown, Answered
    <2>2. a \in Addresses /\ calls[c].now \in Nat
        BY <2>1, CallTyped
    <2>3. PICK i \in Slots :
              Its(i, a) /\ TakeConnection(a, i, Renewed(table[i], calls[c].now))
        BY <1>2 DEF ConnectKnown
    <2>4. Answered(c, "connect") /\ UNCHANGED granted
        BY <1>2 DEF ConnectKnown
    <2> HIDE DEF a
    <2> QED BY <1>t, <1>w, <2>2, <2>3, <2>4, ItsSlot
<1>3. ASSUME NEW c \in Callers, ConnectNew(c) PROVE CallsInv'
    <2> DEFINE a == calls[c].ip
    <2>1. calls[c].action # "none"
        BY <1>3 DEF ConnectNew, Answered
    <2>2. a \in Addresses /\ calls[c].now \in Nat
        BY <2>1, CallTyped
    <2>3. PICK i \in Slots : /\ Vacant(i, calls[c].now)
                             /\ TakeConnection(a, i, NewSlot(a, calls[c].now))
        BY <1>3 DEF ConnectNew
    <2>4. Answered(c, "connect") /\ UNCHANGED granted /\ ~Known(a)
        BY <1>3 DEF ConnectNew
    <2>5. table[i].used => table[i].connections = 0
        BY <2>3 DEF Vacant, Reusable
    <2>6. live[a] = 0
        BY <1>t, <2>2, <2>4 DEF CountsLive, TypeOK
    <2> HIDE DEF a
    <2> QED BY <1>w, <2>2, <2>3, <2>4, <2>5, <2>6, NewSlotType
<1>4. ASSUME NEW c \in Callers, TableFull(c) PROVE CallsInv'
    <2>1. Answered(c, "connect") /\ UNCHANGED <<table, live, granted>>
        BY <1>4 DEF TableFull
    <2>2. CountsLive'
        BY <1>t, <2>1 DEF CountsLive, Known, Owns
    <2>3. /\ table' \in [Slots -> Slot] /\ live' \in [Addresses -> Nat]
          /\ granted' \in Seq(Grant)
        BY <1>t, <2>1 DEF TypeOK
    <2>4. \A b \in Addresses : Cardinality(Under(b) \ {c}) <= live'[b]
        BY <1>u, <2>1
    <2> QED BY <2>1, <2>2, <2>3, <2>4, AnsweredKeeps
<1>5. ASSUME NEW c \in Callers, Request(c) PROVE CallsInv'
    <2> DEFINE a == calls[c].ip
    <2>1. calls[c].action = "request" /\ calls[c].action # "none"
        BY <1>5 DEF Request, Answered
    <2>2. /\ a \in Addresses /\ calls[c].now \in Nat /\ calls[c].now <= clock
          /\ c \in Workers
        BY <2>1, CallTyped DEF CallsInv
    <2>3. PICK i \in Slots :
            /\ Its(i, a)
            /\ LET s == Renewed(table[i], calls[c].now) IN
               IF s.requests < RequestLimit
               THEN /\ table' = [table EXCEPT ![i] = [s EXCEPT !.requests = @ + 1]]
                    /\ granted' = IF a = watched
                                  THEN Append(granted, [by |-> c, now |-> calls[c].now,
                                          at |-> clock, window |-> s.window])
                                  ELSE granted
               ELSE /\ table' = [table EXCEPT ![i] = s]
                    /\ UNCHANGED granted
        BY <1>5 DEF Request
    <2>4. Answered(c, "request") /\ live' = live
        BY <1>5 DEF Request
    <2> DEFINE s == Renewed(table[i], calls[c].now)
               d == [s EXCEPT !.requests = @ + 1]
               g == [by |-> c, now |-> calls[c].now, at |-> clock, window |-> s.window]
    <2> HIDE DEF a
    <2>5. /\ Owns(i, a) /\ s \in Slot /\ s.used /\ s.ip = a
          /\ s.connections = live[a]
        BY <1>t, <2>2, <2>3, ItsSlot
    <2>6. /\ table' = [table EXCEPT ![i] = d] \/ table' = [table EXCEPT ![i] = s]
          /\ granted' = granted \/ granted' = Append(granted, g)
        BY <2>3
    <2> HIDE DEF s
    <2>7. d \in Slot /\ d.used /\ d.ip = a /\ d.connections = live[a]
        BY <2>5 DEF Slot
    <2>8. g \in Grant
        BY <1>t, <2>2, <2>5 DEF Grant, Slot, TypeOK
    <2> HIDE DEF d, g
    <2>9. granted' \in Seq(Grant)
        BY <1>t, <2>6, <2>8 DEF TypeOK
    <2>10. table' \in [Slots -> Slot] /\ live' \in [Addresses -> Nat]
        BY <1>t, <2>4, <2>5, <2>6, <2>7 DEF TypeOK
    <2>11. CountsLive'
        <3>1. live'[a] <= ConnLimit /\ \A b \in Addresses \ {a} : live'[b] = live[b]
            BY <1>t, <2>2, <2>4 DEF CountsLive
        <3> QED BY <1>t, <2>2, <2>4, <2>5, <2>6, <2>7, <3>1, OneSlotWritten
    <2>12. \A b \in Addresses : Cardinality(Under(b) \ {c}) <= live'[b]
        BY <1>u, <2>4
    <2> QED BY <2>4, <2>9, <2>10, <2>11, <2>12, AnsweredKeeps
<1>6. ASSUME NEW c \in Callers, Release(c) PROVE CallsInv'
    <2> DEFINE a == calls[c].ip
               Less(s) == [s EXCEPT !.connections = IF @ > 0 THEN @ - 1 ELSE 0]
    <2>1. calls[c].action = "release" /\ calls[c].action # "none"
        BY <1>6 DEF Release, Answered
    <2>2. a \in Addresses /\ calls[c].now \in Nat /\ c \in Under(a)
        BY <2>1, CallTyped DEF Under
    <2>3. PICK i \in Slots :
              /\ Its(i, a)
              /\ table' = [table EXCEPT ![i] = Less(Renewed(table[i], calls[c].now))]
        BY <1>6 DEF Release
    <2>4. /\ Answered(c, "release") /\ UNCHANGED granted
          /\ live' = [live EXCEPT ![a] = @ - 1]
        BY <1>6 DEF Release
    <2> DEFINE s == Renewed(table[i], calls[c].now)
               d == Less(s)
    <2> HIDE DEF a
    <2>5. /\ Owns(i, a) /\ s \in Slot /\ s.used /\ s.ip = a
          /\ s.connections = live[a]
        BY <1>t, <2>2, <2>3, ItsSlot
    <2>6. Cardinality(Under(a) \ {c}) = Cardinality(Under(a)) - 1
        BY <2>2, OneLess
    <2>7. live[a] \in Nat /\ live[a] > 0 /\ Cardinality(Under(a) \ {c}) <= live[a] - 1
        <3>1. /\ Cardinality(Under(a) \ {c}) \in Nat /\ Cardinality(Under(a)) \in Nat
              /\ live[a] \in Nat /\ Cardinality(Under(a)) <= live[a]
            BY <1>u, <2>2
        <3> QED BY <2>6, <3>1
    <2>8. live'[a] = live[a] - 1 /\ \A b \in Addresses \ {a} : live'[b] = live[b]
        BY <1>t, <2>2, <2>4 DEF TypeOK
    <2>9. table' = [table EXCEPT ![i] = d]
        BY <2>3
    <2> HIDE DEF s
    <2>10. d \in Slot /\ d.used /\ d.ip = a /\ d.connections = live[a] - 1
        BY <2>5, <2>7 DEF Slot
    <2> HIDE DEF d, Less
    <2>11. live'[a] <= ConnLimit
        BY <1>t, <2>2, <2>7, <2>8, LimitsAssumption DEF CountsLive
    <2>12. CountsLive'
        <3>1. live'[a] = d.connections
            BY <2>8, <2>10
        <3> HIDE DEF Less
        <3> QED BY <1>t, <2>2, <2>5, <2>8, <2>9, <2>10, <2>11, <3>1, OneSlotWritten
    <2>13. live' \in [Addresses -> Nat]
        <3>1. live[a] - 1 \in Nat
            BY <2>7
        <3> QED BY <1>t, <2>4, <3>1 DEF TypeOK
    <2>14. table' \in [Slots -> Slot] /\ granted' \in Seq(Grant)
        BY <1>t, <2>4, <2>9, <2>10 DEF TypeOK
    <2>15. \A b \in Addresses : Cardinality(Under(b) \ {c}) <= live'[b]
        BY <1>u, <2>7, <2>8
    <2> QED BY <2>4, <2>12, <2>13, <2>14, <2>15, AnsweredKeeps
<1>7. CASE Tick
    <2>1. clock' = clock + 1 /\ UNCHANGED <<table, calls, live, watched, granted>>
        BY <1>7 DEF Tick
    <2>2. TypeOK' /\ CountsLive'
        BY <1>t, <2>1 DEF TypeOK, CountsLive, Known, Owns
    <2>3. \A c \in Callers : calls[c] # NoCall =>
              calls[c].now <= clock /\ calls[c].now \in Nat
        BY <1>t DEF CallsInv, TypeOK, Call
    <2>4. \A c \in Callers : calls[c] # NoCall => calls[c].now <= clock + 1
        BY <1>t, <2>3 DEF TypeOK
    <2>5. \A a \in Addresses : Under(a)' = Under(a)
        BY <2>1 DEF Under
    <2> QED BY <2>1, <2>2, <2>4, <2>5 DEF CallsInv
<1>8. CASE UNCHANGED vars
    <2>1. TypeOK' /\ CountsLive'
        BY <1>t, <1>8 DEF vars, TypeOK, CountsLive, Known, Owns
    <2>2. \A a \in Addresses : Under(a)' = Under(a)
        BY <1>8 DEF Under, vars
    <2> QED BY <1>8, <2>1, <2>2 DEF vars, CallsInv
<1> QED BY <1>1, <1>2, <1>3, <1>4, <1>5, <1>6, <1>7, <1>8 DEF Next

(* The table is empty at first.                                            *)
LEMMA InitCalls == Init => CallsInv
<1> SUFFICES ASSUME Init PROVE CallsInv
    OBVIOUS
<1>1. Empty \in Slot /\ NoCall \in Call /\ ~Empty.used
    BY DEF Empty, Slot, NoCall, Call
<1>2. TypeOK
    BY <1>1 DEF Init, TypeOK
<1>3. \A i \in Slots, a \in Addresses : ~Owns(i, a)
    BY <1>1 DEF Init, Owns
<1>4. CountsLive
    BY <1>3, LimitsAssumption DEF Init, CountsLive
<1>5. \A a \in Addresses : Under(a) = {}
    BY LimitsAssumption DEF Init, Under, NoCall
<1>6. \A a \in Addresses : Cardinality(Under(a)) <= live[a]
    BY <1>5, FS_EmptySet DEF Init
<1> QED BY <1>2, <1>4, <1>6 DEF Init, CallsInv

LEMMA CallsInvariant == Spec => []CallsInv
BY InitCalls, CallsStep, PTL DEF Spec

(* g_clients and the calls keep their types.                               *)
THEOREM TypeCorrect == Spec => []TypeOK
<1>1. CallsInv => TypeOK
    BY DEF CallsInv
<1> QED BY <1>1, CallsInvariant, PTL

(* An address has one slot at most, and the slot counts exactly the        *)
(* connections that were granted to it and not given back: the counter     *)
(* never wraps, and no slot with connections is given away.                *)
THEOREM CountsAreExact == Spec => []CountsLive
<1>1. CallsInv => CountsLive
    BY DEF CallsInv
<1> QED BY <1>1, CallsInvariant, PTL

-----------------------------------------------------------------------------
(* The requests of one address.                                            *)

(* The requests that were counted in the window that began at v.           *)
In(v) == {k \in DOMAIN granted : granted[k].window = v}

(* What the acceptor would read, or has read.                              *)
AcceptorTime == IF calls[Acceptor] = NoCall THEN clock ELSE calls[Acceptor].now

(* All that was granted was granted in the window of s, which has counted  *)
(* it, or in one that was over when that window began.                     *)
Follows(s) ==
    /\ s.window <= clock
    /\ Cardinality(In(s.window)) <= s.requests
    /\ \A k \in DOMAIN granted :
          granted[k].window = s.window \/ granted[k].window + Window <= s.window

(* A request is asked before it is granted, by a worker that has got the   *)
(* answer to the one before, and in a window that is not over; windows     *)
(* begin Window seconds apart at least, and none has more requests than    *)
(* the limit.  While the address has no slot, any window it gets will      *)
(* begin late enough, since one thread only hands out slots.               *)
GrantsInv ==
    /\ \A k \in DOMAIN granted :
          /\ granted[k].now <= granted[k].at /\ granted[k].at <= clock
          /\ granted[k].window <= granted[k].at
          /\ granted[k].now < granted[k].window + Window
    /\ \A j, k \in DOMAIN granted :
          /\ granted[j].window < granted[k].window =>
                granted[j].window + Window <= granted[k].window
          /\ j < k /\ granted[j].by = granted[k].by => granted[j].at <= granted[k].now
    /\ \A v \in Nat : Cardinality(In(v)) <= RequestLimit
    /\ \A c \in Workers, k \in DOMAIN granted :
          calls[c] # NoCall /\ granted[k].by = c => granted[k].at <= calls[c].now

RatesInv ==
    /\ GrantsInv
    /\ \A i \in Slots : Owns(i, watched) => Follows(table[i])
    /\ ~Known(watched) => \A k \in DOMAIN granted :
          granted[k].window + Window <= AcceptorTime

LEMMA GrantFields ==
    ASSUME TypeOK, NEW k \in DOMAIN granted
    PROVE  /\ granted[k].by \in Workers /\ granted[k].now \in Nat
           /\ granted[k].at \in Nat /\ granted[k].window \in Nat
<1>1. granted[k] \in Grant
    BY ElementOfSeq, LenProperties DEF TypeOK
<1> QED BY <1>1 DEF Grant

LEMMA InIsFinite ==
    ASSUME TypeOK, NEW v
    PROVE  IsFiniteSet(In(v)) /\ Cardinality(In(v)) \in Nat
<1>1. DOMAIN granted = 1..Len(granted) /\ Len(granted) \in Nat
    BY LenProperties DEF TypeOK
<1>2. IsFiniteSet(DOMAIN granted)
    BY <1>1, FS_Interval
<1>3. IsFiniteSet(In(v))
    BY <1>2, FS_Subset DEF In
<1> QED BY <1>3, FS_CardinalityType

(* Nothing was granted in a window that begins after the others are over.  *)
LEMMA NewWindow ==
    ASSUME TypeOK, NEW s \in Slot, s.window <= clock,
           \A k \in DOMAIN granted : granted[k].window + Window <= s.window
    PROVE  Follows(s)
<1>1. In(s.window) = {}
    <2>1. ASSUME NEW k \in DOMAIN granted PROVE granted[k].window # s.window
        <3>1. granted[k].window \in Nat /\ granted[k].window + Window <= s.window
            BY GrantFields
        <3> QED BY <3>1, LimitsAssumption DEF Slot
    <2> QED BY <2>1 DEF In
<1>2. Cardinality(In(s.window)) <= s.requests
    BY <1>1, FS_EmptySet DEF Slot
<1> QED BY <1>2 DEF Follows

LEMMA RenewedFollows ==
    ASSUME TypeOK, NEW s \in Slot, Follows(s), NEW now \in Nat, now <= clock
    PROVE  Follows(Renewed(s, now))
<1> DEFINE r == Renewed(s, now)
<1>1. r = s \/ (s.window + Window <= now /\ r.window = now /\ r \in Slot)
    BY RenewedKeeps
<1> HIDE DEF r
<1>2. CASE s.window + Window <= now /\ r.window = now /\ r \in Slot
    <2>1. ASSUME NEW k \in DOMAIN granted PROVE granted[k].window + Window <= r.window
        <3>1. granted[k].window \in Nat
            BY GrantFields
        <3>2. granted[k].window = s.window \/ granted[k].window + Window <= s.window
            BY DEF Follows
        <3> QED BY <1>2, <3>1, <3>2, LimitsAssumption DEF Slot
    <2>2. r.window <= clock
        BY <1>2
    <2> QED BY <1>2, <2>1, <2>2, NewWindow DEF r
<1> QED BY <1>1, <1>2 DEF r

(* The grants know nothing of the calls that are over.                     *)
LEMMA GrantsStay ==
    ASSUME CallsInv, GrantsInv, NEW c \in Callers, NEW action, Answered(c, action),
           UNCHANGED granted
    PROVE  GrantsInv'
<1>1. /\ calls' = [calls EXCEPT ![c] = NoCall] /\ clock' = clock
      /\ granted' = granted
    BY DEF Answered
<1>2. \A d \in Callers : calls'[d] # NoCall => calls'[d] = calls[d]
    BY <1>1 DEF CallsInv, TypeOK
<1>3. Workers \subseteq Callers
    BY DEF Callers
<1>4. \A v : In(v)' = In(v)
    BY <1>1 DEF In
<1>5. \A d \in Workers, k \in DOMAIN granted' :
          calls'[d] # NoCall /\ granted'[k].by = d => granted'[k].at <= calls'[d].now
    BY <1>1, <1>2, <1>3 DEF GrantsInv
<1> QED BY <1>1, <1>4, <1>5 DEF GrantsInv

(* A call writes a slot that agrees with the grants, if it is for the      *)
(* address that is watched, and takes its slot for another address only    *)
(* when its window is over.                                                *)
LEMMA WrittenFollows ==
    ASSUME CallsInv, RatesInv, CallsInv', GrantsInv',
           NEW c \in Callers, NEW action, Answered(c, action),
           NEW a \in Addresses, NEW i \in Slots, NEW s \in Slot, s.used, s.ip = a,
           table' = [table EXCEPT ![i] = s],
           a = watched => Follows(s)',
           a # watched => UNCHANGED granted,
           a # watched /\ Owns(i, watched) =>
               /\ c = Acceptor /\ calls[c].now <= clock
               /\ table[i].window + Window <= calls[c].now
    PROVE  RatesInv'
<1>1. /\ calls' = [calls EXCEPT ![c] = NoCall]
      /\ clock' = clock /\ watched' = watched
    BY DEF Answered
<1>2. table'[i] = s /\ \A j \in Slots \ {i} : table'[j] = table[j]
    BY DEF CallsInv, TypeOK
<1>3. calls'[c] = NoCall /\ \A d \in Callers \ {c} : calls'[d] = calls[d]
    BY <1>1 DEF CallsInv, TypeOK
<1>4. TypeOK /\ CountsLive' /\ clock \in Nat /\ watched \in Addresses
    BY DEF CallsInv, TypeOK
<1>5. CASE a = watched
    <2>1. Owns(i, watched)'
        BY <1>1, <1>2, <1>5 DEF Owns
    <2>2. Known(watched)'
        BY <2>1 DEF Known
    <2>3. \A j \in Slots : Owns(j, watched)' => j = i
        BY <1>1, <1>4, <2>1 DEF CountsLive
    <2>4. Follows(table[i])'
        BY <1>2, <1>5 DEF Follows
    <2> QED BY <2>2, <2>3, <2>4 DEF RatesInv
<1>6. CASE a # watched
    <2>1. granted' = granted
        BY <1>6
    <2>2. \A j \in Slots : Owns(j, watched)' => j # i /\ Owns(j, watched)
        BY <1>1, <1>2, <1>6 DEF Owns
    <2>3. ASSUME NEW j \in Slots, Owns(j, watched)' PROVE Follows(table[j])'
        <3>1. table'[j] = table[j] /\ Follows(table[j])
            BY <1>2, <2>2, <2>3 DEF RatesInv
        <3> QED BY <1>1, <2>1, <3>1 DEF Follows, In
    <2>4. ASSUME ~Known(watched)', NEW k \in DOMAIN granted
          PROVE  granted[k].window + Window <= AcceptorTime'
        <3>1. granted[k].window \in Nat /\ Window \in Nat
            BY <1>4, GrantFields, LimitsAssumption
        <3>2. Acceptor \in Callers /\ (calls[Acceptor] # NoCall => calls[Acceptor].now <= clock)
              /\ calls[Acceptor].now \in Nat
            BY DEF CallsInv, TypeOK, Callers, Call
        <3>3. AcceptorTime' = AcceptorTime \/ AcceptorTime' = clock
            BY <1>1, <1>3, <3>2 DEF AcceptorTime
        <3>4. AcceptorTime <= clock /\ AcceptorTime \in Nat
            BY <1>4, <3>2 DEF AcceptorTime
        <3>5. CASE ~Known(watched)
            <4>1. granted[k].window + Window <= AcceptorTime
                BY <3>5 DEF RatesInv
            <4> QED BY <1>4, <3>1, <3>3, <3>4, <4>1
        <3>6. CASE Known(watched)
            <4>1. PICK j \in Slots : Owns(j, watched)
                BY <3>6 DEF Known
            <4>2. j = i
                BY <1>1, <1>2, <2>4, <4>1 DEF Known, Owns
            <4>3. /\ c = Acceptor /\ calls[c].now <= clock
                  /\ table[i].window + Window <= calls[c].now
                BY <1>6, <4>1, <4>2
            <4>4. AcceptorTime' = clock
                BY <1>1, <1>3, <4>3 DEF AcceptorTime
            <4>5. \/ granted[k].window = table[i].window
                  \/ granted[k].window + Window <= table[i].window
                BY <4>1, <4>2 DEF RatesInv, Follows
            <4>6. table[i].window \in Nat
                BY <1>4 DEF TypeOK, Slot
            <4> QED BY <1>4, <3>1, <3>2, <4>3, <4>4, <4>5, <4>6
        <3> QED BY <3>5, <3>6
    <2> QED BY <1>1, <2>1, <2>3, <2>4 DEF RatesInv
<1> QED BY <1>5, <1>6

(* The request that is granted is counted in its window.                   *)
LEMMA GrantCounted ==
    ASSUME CallsInv, GrantsInv, NEW c \in Workers, Answered(c, "request"),
           NEW s \in Slot, Follows(s), s.requests < RequestLimit,
           calls[c].now < s.window + Window,
           granted' = Append(granted, [by |-> c, now |-> calls[c].now,
                                       at |-> clock, window |-> s.window])
    PROVE  /\ GrantsInv'
           /\ \A t : t.window = s.window /\ t.requests = s.requests + 1 => Follows(t)'
<1> DEFINE g == [by |-> c, now |-> calls[c].now, at |-> clock, window |-> s.window]
           n == Len(granted)
<1>t. TypeOK /\ clock \in Nat /\ Window \in Nat \ {0} /\ RequestLimit \in Nat
    BY LimitsAssumption DEF CallsInv, TypeOK
<1>c. c \in Callers /\ calls[c] # NoCall /\ calls[c].now \in Nat /\ calls[c].now <= clock
    <2>1. c \in Callers /\ calls[c].action # "none"
        BY DEF Callers, Answered
    <2> QED BY <2>1, CallTyped
<1>s. s.window \in Nat /\ s.requests \in Nat /\ s.window <= clock
    BY DEF Slot, Follows
<1>1. /\ calls' = [calls EXCEPT ![c] = NoCall] /\ clock' = clock
    BY DEF Answered
<1>2. /\ n \in Nat /\ DOMAIN granted = 1..n /\ DOMAIN granted' = 1..(n + 1)
      /\ \A k \in 1..n : granted'[k] = granted[k]
      /\ granted'[n + 1] = g
    <2>1. granted \in Seq(Grant) /\ g \in Grant
        BY <1>t, <1>c, <1>s DEF TypeOK, Grant
    <2>2. n \in Nat /\ DOMAIN granted = 1..n
        BY <2>1, LenProperties
    <2> HIDE DEF g
    <2>3. granted' = Append(granted, g)
        BY DEF g
    <2> QED BY <2>1, <2>2, <2>3, AppendProperties
<1>3. /\ g.by = c /\ g.now = calls[c].now /\ g.at = clock /\ g.window = s.window
    OBVIOUS
<1> HIDE DEF g, n
<1>4. \A k \in DOMAIN granted' : k \in DOMAIN granted \/ k = n + 1
    BY <1>2
<1>5. ASSUME NEW v PROVE In(v)' = IF v = s.window THEN In(v) \cup {n + 1} ELSE In(v)
    BY <1>2, <1>3, <1>4 DEF In
<1>6. \A v : n + 1 \notin In(v)
    BY <1>2 DEF In
<1>7. Cardinality(In(s.window)') = Cardinality(In(s.window)) + 1
    BY <1>t, <1>5, <1>6, InIsFinite, FS_AddElement
<1>8. Cardinality(In(s.window)) \in Nat /\ Cardinality(In(s.window)) <= s.requests
    BY <1>t, InIsFinite DEF Follows
<1>9. ASSUME NEW k \in DOMAIN granted
      PROVE  /\ granted'[k] = granted[k]
             /\ granted[k].by \in Workers /\ granted[k].now \in Nat
             /\ granted[k].at \in Nat /\ granted[k].window \in Nat
             /\ granted[k].now <= granted[k].at /\ granted[k].at <= clock
             /\ granted[k].window <= granted[k].at
             /\ granted[k].now < granted[k].window + Window
             /\ granted[k].window = s.window \/ granted[k].window + Window <= s.window
             /\ granted[k].by = c => granted[k].at <= calls[c].now
    <2>1. granted'[k] = granted[k]
        BY <1>2
    <2>2. /\ granted[k].by \in Workers /\ granted[k].now \in Nat
          /\ granted[k].at \in Nat /\ granted[k].window \in Nat
        BY <1>t, GrantFields
    <2>3. /\ granted[k].now <= granted[k].at /\ granted[k].at <= clock
          /\ granted[k].window <= granted[k].at
          /\ granted[k].now < granted[k].window + Window
          /\ granted[k].by = c => granted[k].at <= calls[c].now
        BY <1>c DEF GrantsInv
    <2>4. granted[k].window = s.window \/ granted[k].window + Window <= s.window
        BY DEF Follows
    <2> QED BY <2>1, <2>2, <2>3, <2>4
<1>10. ASSUME NEW k \in DOMAIN granted'
       PROVE  /\ granted'[k].now <= granted'[k].at /\ granted'[k].at <= clock'
              /\ granted'[k].window <= granted'[k].at
              /\ granted'[k].now < granted'[k].window + Window
    <2>1. CASE k \in DOMAIN granted  BY <1>1, <1>9, <2>1
    <2>2. CASE k = n + 1
        <3>1. granted'[k] = g
            BY <1>2, <2>2
        <3>2. clock <= clock /\ calls[c].now < s.window + Window
            BY <1>t
        <3> QED BY <1>1, <1>c, <1>s, <1>3, <3>1, <3>2
    <2> QED BY <1>4, <2>1, <2>2
<1>11. ASSUME NEW j \in DOMAIN granted', NEW k \in DOMAIN granted'
       PROVE  /\ granted'[j].window < granted'[k].window =>
                     granted'[j].window + Window <= granted'[k].window
              /\ j < k /\ granted'[j].by = granted'[k].by =>
                     granted'[j].at <= granted'[k].now
    <2>1. CASE j \in DOMAIN granted /\ k \in DOMAIN granted
        <3>1. granted'[j] = granted[j] /\ granted'[k] = granted[k]
            BY <1>9, <2>1
        <3> QED BY <2>1, <3>1 DEF GrantsInv
    <2>2. CASE j \in DOMAIN granted /\ k = n + 1
        <3>1. granted'[j] = granted[j] /\ granted'[k] = g
            BY <1>2, <1>9, <2>2
        <3>2. /\ granted[j].window \in Nat
              /\ granted[j].window = s.window \/ granted[j].window + Window <= s.window
              /\ granted[j].by = c => granted[j].at <= calls[c].now
            BY <1>9, <2>2
        <3> QED BY <1>3, <1>s, <3>1, <3>2
    <2>3. CASE j = n + 1 /\ k \in DOMAIN granted
        <3>1. granted'[j] = g /\ granted'[k] = granted[k]
            BY <1>2, <1>9, <2>3
        <3>2. /\ granted[k].window \in Nat
              /\ granted[k].window = s.window \/ granted[k].window + Window <= s.window
            BY <1>9, <2>3
        <3>3. ~(j < k) /\ ~(s.window < granted[k].window)
            BY <1>2, <1>s, <1>t, <2>3, <3>2
        <3> QED BY <1>3, <3>1, <3>3
    <2>4. CASE j = n + 1 /\ k = n + 1
        <3>1. granted'[j] = g /\ granted'[k] = g /\ ~(j < k) /\ ~(s.window < s.window)
            BY <1>2, <1>s, <2>4
        <3> QED BY <1>3, <3>1
    <2> QED BY <1>4, <2>1, <2>2, <2>3, <2>4
<1>12. ASSUME NEW v \in Nat PROVE Cardinality(In(v)') <= RequestLimit
    <2>1. CASE v = s.window
        BY <1>t, <1>s, <1>7, <1>8, <2>1
    <2>2. CASE v # s.window
        BY <1>5, <2>2 DEF GrantsInv
    <2> QED BY <2>1, <2>2
<1>13. ASSUME NEW d \in Workers, NEW k \in DOMAIN granted', calls'[d] # NoCall,
              granted'[k].by = d
       PROVE  granted'[k].at <= calls'[d].now
    <2>1. calls'[c] = NoCall /\ \A e \in Callers \ {c} : calls'[e] = calls[e]
        BY <1>1, <1>t, <1>c DEF TypeOK
    <2>2. d # c /\ d \in Callers /\ calls'[d] = calls[d]
        BY <1>13, <2>1 DEF Callers
    <2>3. k \in DOMAIN granted /\ granted'[k] = granted[k]
        BY <1>2, <1>3, <1>4, <1>9, <1>13, <2>2
    <2> QED BY <1>13, <2>2, <2>3 DEF GrantsInv
<1>14. GrantsInv'
    BY <1>10, <1>11, <1>12, <1>13 DEF GrantsInv
<1>15. ASSUME NEW t, t.window = s.window, t.requests = s.requests + 1
       PROVE  Follows(t)'
    <2>1. Cardinality(In(t.window)') <= t.requests
        BY <1>s, <1>7, <1>8, <1>15
    <2>2. ASSUME NEW k \in DOMAIN granted'
          PROVE  granted'[k].window = t.window \/ granted'[k].window + Window <= t.window
        <3>1. CASE k \in DOMAIN granted  BY <1>9, <1>15, <3>1
        <3>2. CASE k = n + 1  BY <1>2, <1>3, <1>15, <3>2
        <3> QED BY <1>4, <3>1, <3>2
    <2>3. t.window <= clock'
        BY <1>1, <1>s, <1>15
    <2> QED BY <2>1, <2>2, <2>3 DEF Follows
<1> QED BY <1>14, <1>15

(* Every step keeps the rates.                                             *)
LEMMA RatesStep == CallsInv /\ RatesInv /\ [Next]_vars => RatesInv'
<1> SUFFICES ASSUME CallsInv, RatesInv, [Next]_vars PROVE RatesInv'
    OBVIOUS
<1>t. TypeOK /\ CountsLive /\ GrantsInv /\ CallsInv'
    BY CallsStep DEF CallsInv, RatesInv
<1>n. clock \in Nat
    BY <1>t DEF TypeOK
<1>f. ASSUME NEW s, NEW t, Follows(s), t.window = s.window, t.requests = s.requests,
             UNCHANGED <<granted, clock>>
      PROVE  Follows(t)'
    BY <1>f DEF Follows, In
<1>o. ASSUME NEW i \in Slots, NEW a \in Addresses, Owns(i, a), a # watched
      PROVE  ~Owns(i, watched)
    BY <1>o DEF Owns
<1>1. ASSUME NEW c \in Callers, NEW a \in Addresses,
             NEW action \in {"connect", "request", "release"}, Enter(c, a, action)
      PROVE  RatesInv'
    <2>1. /\ calls' = [calls EXCEPT ![c] = [action |-> action, ip |-> a, now |-> clock]]
          /\ UNCHANGED <<table, clock, live, watched, granted>> /\ calls[c] = NoCall
        BY <1>1 DEF Enter
    <2>2. calls'[c].now = clock /\ \A d \in Callers \ {c} : calls'[d] = calls[d]
        BY <1>t, <2>1 DEF TypeOK
    <2>3. AcceptorTime' = AcceptorTime
        BY <2>1, <2>2, LimitsAssumption DEF AcceptorTime, Callers
    <2>4. ASSUME NEW d \in Workers, NEW k \in DOMAIN granted, calls'[d] # NoCall,
                 granted[k].by = d
          PROVE  granted[k].at <= calls'[d].now
        <3>1. d \in Callers
            BY DEF Callers
        <3>2. CASE d = c  BY <1>t, <2>2, <3>2 DEF GrantsInv
        <3>3. CASE d # c  BY <1>t, <2>2, <2>4, <3>1, <3>3 DEF GrantsInv
        <3> QED BY <3>2, <3>3
    <2>5. GrantsInv'
        BY <1>t, <2>1, <2>4 DEF GrantsInv, In
    <2>6. \A i \in Slots : Owns(i, watched)' <=> Owns(i, watched)
        BY <2>1 DEF Owns
    <2>7. \A s : Follows(s) => Follows(s)'
        BY <2>1 DEF Follows, In
    <2> QED BY <2>1, <2>3, <2>5, <2>6, <2>7 DEF RatesInv, Known
<1>2. ASSUME NEW c \in Callers, ConnectKnown(c) PROVE RatesInv'
    <2> DEFINE a == calls[c].ip
    <2>1. Answered(c, "connect") /\ UNCHANGED granted /\ calls[c].action # "none"
        BY <1>2 DEF ConnectKnown, Answered
    <2>2. a \in Addresses /\ calls[c].now \in Nat /\ calls[c].now <= clock
        BY <2>1, CallTyped
    <2>3. PICK i \in Slots :
              Its(i, a) /\ TakeConnection(a, i, Renewed(table[i], calls[c].now))
        BY <1>2 DEF ConnectKnown
    <2> DEFINE s == Renewed(table[i], calls[c].now)
    <2> HIDE DEF a
    <2>4. /\ Owns(i, a) /\ s \in Slot /\ s.used /\ s.ip = a
          /\ s.connections = live[a]
        BY <1>t, <2>2, <2>3, ItsSlot
    <2>5. PICK d \in Slot : /\ d.used /\ d.ip = a /\ d.window = s.window
                            /\ d.requests = s.requests
                            /\ table' = [table EXCEPT ![i] = d]
        BY <1>t, <2>2, <2>3, <2>4, TakeCounts
    <2>6. a = watched => Follows(s)
        BY <1>t, <2>2, <2>4, RenewedFollows DEF RatesInv, TypeOK
    <2>7. UNCHANGED <<granted, clock>>
        BY <2>1 DEF Answered
    <2>8. a = watched => Follows(d)'
        BY <1>f, <2>5, <2>6, <2>7
    <2>9. GrantsInv'
        BY <1>t, <2>1, GrantsStay
    <2> QED BY <1>t, <1>o, <2>1, <2>2, <2>4, <2>5, <2>8, <2>9, WrittenFollows
<1>3. ASSUME NEW c \in Callers, ConnectNew(c) PROVE RatesInv'
    <2> DEFINE a == calls[c].ip
               s == NewSlot(a, calls[c].now)
    <2>1. /\ Answered(c, "connect") /\ UNCHANGED granted /\ ~Known(a)
          /\ calls[c].action = "connect" /\ calls[c].action # "none"
        BY <1>3 DEF ConnectNew, Answered
    <2>2. /\ a \in Addresses /\ calls[c].now \in Nat /\ calls[c].now <= clock
          /\ calls[c] # NoCall
        BY <2>1, CallTyped
    <2>3. PICK i \in Slots : Vacant(i, calls[c].now) /\ TakeConnection(a, i, s)
        BY <1>3 DEF ConnectNew
    <2>4. c = Acceptor
        BY <2>1, <2>2 DEF CallsInv
    <2> HIDE DEF a
    <2>5. /\ s \in Slot /\ s.used /\ s.ip = a /\ s.connections = 0
          /\ s.requests = 0 /\ s.window = calls[c].now
        BY <2>2, NewSlotType
    <2>6. live[a] = 0
        BY <1>t, <2>1, <2>2 DEF CountsLive, TypeOK
    <2>7. table[i].used => table[i].connections = 0
        BY <2>3 DEF Vacant, Reusable
    <2> HIDE DEF s
    <2>8. PICK d \in Slot : /\ d.used /\ d.ip = a /\ d.window = s.window
                            /\ d.requests = s.requests
                            /\ table' = [table EXCEPT ![i] = d]
        BY <1>t, <2>1, <2>2, <2>3, <2>5, <2>6, <2>7, TakeCounts
    <2>9. a = watched => Follows(s)
        <3> SUFFICES ASSUME a = watched PROVE Follows(s)
            OBVIOUS
        <3>1. AcceptorTime = calls[c].now
            BY <2>2, <2>4 DEF AcceptorTime
        <3>2. \A k \in DOMAIN granted : granted[k].window + Window <= s.window
            BY <2>1, <2>5, <3>1 DEF RatesInv
        <3> QED BY <1>t, <2>2, <2>5, <3>2, NewWindow
    <2>10. UNCHANGED <<granted, clock>>
        BY <2>1 DEF Answered
    <2>11. a = watched => Follows(d)'
        BY <1>f, <2>8, <2>9, <2>10
    <2>12. GrantsInv'
        BY <1>t, <2>1, GrantsStay
    <2>13. Owns(i, watched) => table[i].window + Window <= calls[c].now
        <3>1. table[i].used => calls[c].now - table[i].window >= Window
            BY <2>3 DEF Vacant, Reusable
        <3>2. table[i].window \in Nat /\ Window \in Nat
            BY <1>t, LimitsAssumption DEF TypeOK, Slot
        <3> QED BY <2>2, <3>1, <3>2 DEF Owns
    <2> QED BY <1>t, <2>1, <2>2, <2>4, <2>8, <2>11, <2>12, <2>13, WrittenFollows
<1>4. ASSUME NEW c \in Callers, TableFull(c) PROVE RatesInv'
    <2>1. Answered(c, "connect") /\ UNCHANGED <<table, live, granted>>
        BY <1>4 DEF TableFull
    <2>2. GrantsInv'
        BY <1>t, <2>1, GrantsStay
    <2>3. /\ calls' = [calls EXCEPT ![c] = NoCall]
          /\ clock' = clock /\ watched' = watched
        BY <2>1 DEF Answered
    <2>4. \A i \in Slots : Owns(i, watched)' <=> Owns(i, watched)
        BY <2>1, <2>3 DEF Owns
    <2>5. \A s : Follows(s) => Follows(s)'
        BY <2>1, <2>3 DEF Follows, In
    <2>6. Acceptor \in Callers /\ (calls[Acceptor] # NoCall => calls[Acceptor].now <= clock)
          /\ calls[Acceptor].now \in Nat
        BY <1>t DEF CallsInv, TypeOK, Callers, Call
    <2>7. AcceptorTime' \in Nat /\ AcceptorTime \in Nat /\ AcceptorTime <= AcceptorTime'
        <3>1. calls'[Acceptor] = NoCall \/ calls'[Acceptor] = calls[Acceptor]
            BY <1>t, <2>3, <2>6 DEF TypeOK
        <3>2. CASE calls'[Acceptor] = NoCall
            BY <1>n, <2>3, <2>6, <3>2 DEF AcceptorTime
        <3>3. CASE calls'[Acceptor] = calls[Acceptor]
            BY <1>n, <2>3, <2>6, <3>3 DEF AcceptorTime
        <3> QED BY <3>1, <3>2, <3>3
    <2>8. ASSUME ~Known(watched)', NEW k \in DOMAIN granted'
          PROVE  granted'[k].window + Window <= AcceptorTime'
        <3>1. granted' = granted /\ ~Known(watched)
            BY <2>1, <2>4, <2>8 DEF Known
        <3>2. granted[k].window + Window <= AcceptorTime
            BY <2>8, <3>1 DEF RatesInv
        <3>3. granted[k].window \in Nat /\ Window \in Nat
            BY <1>t, <2>8, <3>1, GrantFields, LimitsAssumption
        <3> QED BY <2>7, <3>1, <3>2, <3>3
    <2> QED BY <2>1, <2>2, <2>4, <2>5, <2>8 DEF RatesInv
<1>5. ASSUME NEW c \in Callers, Request(c) PROVE RatesInv'
    <2> DEFINE a == calls[c].ip
    <2>1. calls[c].action = "request" /\ calls[c].action # "none"
        BY <1>5 DEF Request, Answered
    <2>2. /\ a \in Addresses /\ calls[c].now \in Nat /\ calls[c].now <= clock
          /\ c \in Workers
        BY <2>1, CallTyped DEF CallsInv
    <2>3. PICK i \in Slots :
            /\ Its(i, a)
            /\ LET s == Renewed(table[i], calls[c].now) IN
               IF s.requests < RequestLimit
               THEN /\ table' = [table EXCEPT ![i] = [s EXCEPT !.requests = @ + 1]]
                    /\ granted' = IF a = watched
                                  THEN Append(granted, [by |-> c, now |-> calls[c].now,
                                          at |-> clock, window |-> s.window])
                                  ELSE granted
               ELSE /\ table' = [table EXCEPT ![i] = s]
                    /\ UNCHANGED granted
        BY <1>5 DEF Request
    <2>4. Answered(c, "request")
        BY <1>5 DEF Request
    <2> DEFINE r == Renewed(table[i], calls[c].now)
    <2> HIDE DEF a
    <2>r. Owns(i, a) /\ r \in Slot /\ r.used /\ r.ip = a
        BY <1>t, <2>2, <2>3, ItsSlot
    <2>5. PICK s \in Slot : s = r /\ s.used /\ s.ip = a
        BY <2>r
    <2>6. calls[c].now < s.window + Window
        BY <1>t, <2>2, <2>5, RenewedKeeps DEF TypeOK
    <2>7. a = watched => Follows(s)
        BY <1>t, <2>2, <2>r, <2>5, RenewedFollows DEF RatesInv, TypeOK
    <2>8. CASE s.requests < RequestLimit
        <3>d. [s EXCEPT !.requests = @ + 1] \in Slot
            BY DEF Slot
        <3> PICK d \in Slot : d = [s EXCEPT !.requests = @ + 1]
            BY <3>d
        <3>1. /\ table' = [table EXCEPT ![i] = d]
              /\ granted' = IF a = watched
                            THEN Append(granted, [by |-> c, now |-> calls[c].now,
                                    at |-> clock, window |-> s.window])
                            ELSE granted
            BY <2>3, <2>5, <2>8
        <3>2. /\ d \in Slot /\ d.used /\ d.ip = a
              /\ d.window = s.window /\ d.requests = s.requests + 1
            BY <2>5 DEF Slot
        <3>3. CASE a = watched
            <4>1. GrantsInv' /\ Follows(d)'
                BY <1>t, <2>2, <2>4, <2>5, <2>6, <2>7, <2>8, <3>1, <3>2, <3>3,
                   GrantCounted
            <4> QED BY <1>t, <2>2, <2>4, <3>1, <3>2, <3>3, <4>1, WrittenFollows
        <3>4. CASE a # watched
            <4>1. UNCHANGED granted
                BY <3>1, <3>4
            <4>2. GrantsInv'
                BY <1>t, <2>4, <4>1, GrantsStay
            <4>3. ~Owns(i, watched)
                BY <1>o, <2>2, <2>r, <3>4
            <4> QED BY <1>t, <2>2, <2>4, <3>1, <3>2, <3>4, <4>1, <4>2, <4>3,
                    WrittenFollows
        <3> QED BY <3>3, <3>4
    <2>9. CASE ~(s.requests < RequestLimit)
        <3>1. table' = [table EXCEPT ![i] = s] /\ UNCHANGED granted
            BY <2>3, <2>5, <2>9
        <3>2. GrantsInv'
            BY <1>t, <2>4, <3>1, GrantsStay
        <3>3. clock' = clock
            BY <2>4 DEF Answered
        <3>4. a = watched => Follows(s)'
            BY <1>f, <2>7, <3>1, <3>3
        <3>5. a # watched => ~Owns(i, watched)
            BY <1>o, <2>2, <2>r
        <3> QED BY <1>t, <2>2, <2>4, <2>5, <3>1, <3>2, <3>4, <3>5, WrittenFollows
    <2> QED BY <2>8, <2>9
<1>6. ASSUME NEW c \in Callers, Release(c) PROVE RatesInv'
    <2> DEFINE a == calls[c].ip
               Less(r) == [r EXCEPT !.connections = IF @ > 0 THEN @ - 1 ELSE 0]
    <2>1. calls[c].action # "none"
        BY <1>6 DEF Release, Answered
    <2>2. a \in Addresses /\ calls[c].now \in Nat /\ calls[c].now <= clock
        BY <2>1, CallTyped
    <2>3. PICK i \in Slots :
              /\ Its(i, a)
              /\ table' = [table EXCEPT ![i] = Less(Renewed(table[i], calls[c].now))]
        BY <1>6 DEF Release
    <2>4. Answered(c, "release") /\ UNCHANGED granted
        BY <1>6 DEF Release
    <2> DEFINE r == Renewed(table[i], calls[c].now)
    <2> HIDE DEF a
    <2>5. Owns(i, a) /\ r \in Slot /\ r.used /\ r.ip = a
        BY <1>t, <2>2, <2>3, ItsSlot
    <2>s. PICK s \in Slot : s = r /\ s.used /\ s.ip = a
        BY <2>5
    <2>6. a = watched => Follows(s)
        BY <1>t, <2>2, <2>5, <2>s, RenewedFollows DEF RatesInv, TypeOK
    <2>d. Less(s) \in Slot
        BY DEF Slot
    <2>7. PICK d \in Slot : d = Less(s) /\ table' = [table EXCEPT ![i] = d]
        BY <2>3, <2>s, <2>d
    <2>8. /\ d \in Slot /\ d.used /\ d.ip = a
          /\ d.window = s.window /\ d.requests = s.requests
        BY <2>s, <2>7 DEF Slot
    <2> HIDE DEF Less
    <2>9. clock' = clock
        BY <2>4 DEF Answered
    <2>10. a = watched => Follows(d)'
        BY <1>f, <2>4, <2>6, <2>8, <2>9
    <2>11. GrantsInv'
        BY <1>t, <2>4, GrantsStay
    <2>12. a # watched => ~Owns(i, watched)
        BY <1>o, <2>2, <2>5
    <2> QED BY <1>t, <2>2, <2>4, <2>7, <2>8, <2>10, <2>11, <2>12, WrittenFollows
<1>7. CASE Tick
    <2>1. clock' = clock + 1 /\ UNCHANGED <<table, calls, live, watched, granted>>
        BY <1>7 DEF Tick
    <2>2. \A i \in Slots : Owns(i, watched)' <=> Owns(i, watched)
        BY <2>1 DEF Owns
    <2>3. ASSUME NEW k \in DOMAIN granted
          PROVE  granted[k].at <= clock + 1
        BY <1>n, <1>t, GrantFields DEF GrantsInv
    <2>4. GrantsInv'
        BY <1>t, <2>1, <2>3 DEF GrantsInv, In
    <2>5. ASSUME NEW i \in Slots, Owns(i, watched) PROVE Follows(table[i])'
        <3>1. Follows(table[i]) /\ table[i].window \in Nat
            BY <1>t, <2>5 DEF RatesInv, TypeOK, Slot
        <3>2. table[i].window <= clock + 1
            BY <1>n, <3>1 DEF Follows
        <3> QED BY <2>1, <3>1, <3>2 DEF Follows, In
    <2>6. ASSUME ~Known(watched), NEW k \in DOMAIN granted
          PROVE  granted[k].window + Window <= AcceptorTime'
        <3>1. granted[k].window + Window <= AcceptorTime
            BY <2>6 DEF RatesInv
        <3>2. granted[k].window \in Nat /\ Window \in Nat
            BY <1>t, GrantFields, LimitsAssumption
        <3>3. calls[Acceptor].now \in Nat
            BY <1>t DEF TypeOK, Callers, Call
        <3> QED BY <1>n, <2>1, <3>1, <3>2, <3>3 DEF AcceptorTime
    <2>7. \A i \in Slots : Owns(i, watched)' => Follows(table[i])'
        BY <2>2, <2>5
    <2> QED BY <2>1, <2>2, <2>4, <2>6, <2>7 DEF RatesInv, Known
<1>8. CASE UNCHANGED vars
    <2>1. \A i \in Slots : Owns(i, watched)' <=> Owns(i, watched)
        BY <1>8 DEF vars, Owns
    <2>2. GrantsInv'
        BY <1>t, <1>8 DEF vars, GrantsInv, In
    <2>3. \A s : Follows(s) => Follows(s)'
        BY <1>8 DEF vars, Follows, In
    <2>4. AcceptorTime' = AcceptorTime
        BY <1>8 DEF vars, AcceptorTime
    <2> QED BY <1>8, <2>1, <2>2, <2>3, <2>4 DEF vars, RatesInv, Known
<1> QED BY <1>1, <1>2, <1>3, <1>4, <1>5, <1>6, <1>7, <1>8 DEF Next

(* Nothing is granted at first.                                            *)
LEMMA InitRates == Init => RatesInv
<1> SUFFICES ASSUME Init PROVE RatesInv
    OBVIOUS
<1>1. DOMAIN granted = {}
    BY DEF Init
<1>2. \A v : In(v) = {}
    BY <1>1 DEF In
<1>3. \A v \in Nat : Cardinality(In(v)) <= RequestLimit
    BY <1>2, FS_EmptySet, LimitsAssumption
<1>4. \A i \in Slots : ~Owns(i, watched)
    BY DEF Init, Empty, Owns
<1> QED BY <1>1, <1>3, <1>4 DEF RatesInv, GrantsInv

(* The windows that lie within the last two of Window seconds are two.     *)
LEMMA PromptWindows ==
    ASSUME TypeOK, GrantsInv
    PROVE  \E v, w \in Nat : Prompt \subseteq In(v) \cup In(w)
<1>t. clock \in Nat /\ Window \in Nat \ {0}
    BY LimitsAssumption DEF TypeOK
<1>1. ASSUME NEW k \in Prompt
      PROVE  /\ k \in DOMAIN granted /\ granted[k].window \in Nat
             /\ granted[k].window <= clock /\ clock < granted[k].window + 2 * Window
    <2>1. k \in DOMAIN granted /\ granted[k].now > clock - Window
        BY DEF Prompt, Recent
    <2>2. granted[k].now \in Nat /\ granted[k].at \in Nat /\ granted[k].window \in Nat
        BY <2>1, GrantFields
    <2>3. /\ granted[k].window <= granted[k].at /\ granted[k].at <= clock
          /\ granted[k].now < granted[k].window + Window
        BY <2>1 DEF GrantsInv
    <2> QED BY <1>t, <2>1, <2>2, <2>3
<1>2. ASSUME NEW j \in Prompt, NEW k \in Prompt, granted[j].window < granted[k].window
      PROVE  granted[j].window + Window <= granted[k].window
    BY <1>1, <1>2 DEF GrantsInv
<1>3. CASE Prompt = {}
    BY <1>3
<1>4. CASE Prompt # {}
    <2>1. PICK j \in Prompt : TRUE
        BY <1>4
    <2>2. CASE \A k \in Prompt : granted[k].window = granted[j].window
        <3>1. Prompt \subseteq In(granted[j].window)
            BY <1>1, <2>2 DEF In
        <3> QED BY <1>1, <2>1, <3>1
    <2>3. CASE \E k \in Prompt : granted[k].window # granted[j].window
        <3>1. PICK k \in Prompt : granted[k].window # granted[j].window
            BY <2>3
        <3>2. ASSUME NEW l \in Prompt
              PROVE  granted[l].window \in {granted[j].window, granted[k].window}
            <4> DEFINE x == granted[j].window  y == granted[k].window
                       z == granted[l].window
            <4>1. /\ x \in Nat /\ y \in Nat /\ z \in Nat
                  /\ x <= clock /\ y <= clock /\ z <= clock
                  /\ clock < x + 2 * Window /\ clock < y + 2 * Window
                  /\ clock < z + 2 * Window
                BY <1>1, <2>1, <3>1
            <4>2. /\ x < y => x + Window <= y
                  /\ y < x => y + Window <= x
                  /\ x < z => x + Window <= z
                  /\ z < x => z + Window <= x
                  /\ y < z => y + Window <= z
                  /\ z < y => z + Window <= y
                BY <1>2, <2>1, <3>1
            <4>3. x # y
                BY <3>1
            <4> HIDE DEF x, y, z
            <4>4. z = x \/ z = y
                BY <1>t, <4>1, <4>2, <4>3
            <4> QED BY <4>4 DEF x, y, z
        <3>3. Prompt \subseteq In(granted[j].window) \cup In(granted[k].window)
            BY <1>1, <3>2 DEF In
        <3> QED BY <1>1, <2>1, <3>1, <3>3
    <2> QED BY <2>2, <2>3
<1> QED BY <1>3, <1>4

(* Of the requests that were asked longer ago each worker has one at most: *)
(* it asks for the next one when it has got its answer.                    *)
LEMMA StaleIsOneEach ==
    ASSUME TypeOK, GrantsInv
    PROVE  /\ IsFiniteSet(Recent \ Prompt)
           /\ Cardinality(Recent \ Prompt) <= Cardinality(Workers)
<1> DEFINE Stale == Recent \ Prompt
           f == [k \in Stale |-> granted[k].by]
<1>t. clock \in Nat /\ Window \in Nat
    BY LimitsAssumption DEF TypeOK
<1>1. ASSUME NEW k \in Stale
      PROVE  /\ k \in DOMAIN granted /\ k \in Nat /\ granted[k].by \in Workers
             /\ granted[k].at > clock - Window /\ ~(granted[k].now > clock - Window)
             /\ granted[k].at \in Nat /\ granted[k].now \in Nat
    <2>1. k \in DOMAIN granted /\ DOMAIN granted = 1..Len(granted) /\ Len(granted) \in Nat
        BY LenProperties DEF Recent, TypeOK
    <2>2. granted[k].at > clock - Window /\ ~(granted[k].now > clock - Window)
        BY DEF Prompt, Recent
    <2> QED BY <2>1, <2>2, GrantFields
<1>2. ASSUME NEW j \in Stale, NEW k \in Stale, j < k
      PROVE  granted[j].by # granted[k].by
    <2>1. granted[j].by = granted[k].by => granted[j].at <= granted[k].now
        BY <1>1, <1>2 DEF GrantsInv
    <2> QED BY <1>t, <1>1, <2>1
<1>3. \A j, k \in Stale : f[j] = f[k] => j = k
    <2> SUFFICES ASSUME NEW j \in Stale, NEW k \in Stale, j # k PROVE f[j] # f[k]
        OBVIOUS
    <2>1. j < k \/ k < j
        BY <1>1
    <2> QED BY <1>2, <2>1
<1>4. f \in Injection(Stale, Workers)
    <2>1. f \in [Stale -> Workers]
        BY <1>1
    <2> HIDE DEF f
    <2> QED BY <1>3, <2>1 DEF Injection, IsInjective
<1>5. IsFiniteSet(Workers)
    BY LimitsAssumption
<1> HIDE DEF f
<1> QED BY <1>4, <1>5, FS_Injection

(* Of the requests that an address makes within Window seconds, two        *)
(* windows' worth are granted at most, and one more for each worker that   *)
(* had read the clock before: whatever is preempted, given away or taken   *)
(* again in between.                                                       *)
THEOREM RatesAreBounded == Spec => []RateBound
<1>1. TypeOK /\ GrantsInv => RateBound
    <2> SUFFICES ASSUME TypeOK, GrantsInv PROVE RateBound
        OBVIOUS
    <2> DEFINE Stale == Recent \ Prompt
    <2>t. RequestLimit \in Nat
        BY LimitsAssumption
    <2>1. PICK v \in Nat, w \in Nat : Prompt \subseteq In(v) \cup In(w)
        BY PromptWindows
    <2>2. /\ IsFiniteSet(In(v)) /\ Cardinality(In(v)) \in Nat
          /\ IsFiniteSet(In(w)) /\ Cardinality(In(w)) \in Nat
          /\ Cardinality(In(v)) <= RequestLimit /\ Cardinality(In(w)) <= RequestLimit
        BY InIsFinite DEF GrantsInv
    <2>3. /\ IsFiniteSet(In(v) \cup In(w))
          /\ Cardinality(In(v) \cup In(w)) =
                Cardinality(In(v)) + Cardinality(In(w)) - Cardinality(In(v) \cap In(w))
        BY <2>2, FS_Union
    <2>4. Cardinality(In(v) \cap In(w)) \in Nat
        BY <2>2, FS_Subset, FS_CardinalityType
    <2>5. /\ IsFiniteSet(Prompt) /\ Cardinality(Prompt) \in Nat
          /\ Cardinality(Prompt) <= Cardinality(In(v) \cup In(w))
        BY <2>1, <2>3, FS_Subset, FS_CardinalityType
    <2>6. Cardinality(In(v) \cup In(w)) <= 2 * RequestLimit
        BY <2>t, <2>2, <2>3, <2>4
    <2>7. Cardinality(In(v) \cup In(w)) \in Nat
        BY <2>3, FS_CardinalityType
    <2>8. Cardinality(Prompt) <= 2 * RequestLimit
        BY <2>t, <2>5, <2>6, <2>7
    <2>9. IsFiniteSet(Stale) /\ Cardinality(Stale) <= Cardinality(Workers)
        BY StaleIsOneEach
    <2>10. Cardinality(Stale) \in Nat /\ Cardinality(Workers) \in Nat
        BY <2>9, FS_CardinalityType, LimitsAssumption
    <2>11. Recent = Prompt \cup Stale /\ Prompt \cap Stale = {}
        BY DEF Prompt
    <2>12. Cardinality(Recent) = Cardinality(Prompt) + Cardinality(Stale)
        <3>1. Cardinality(Prompt \cup Stale) =
                  Cardinality(Prompt) + Cardinality(Stale) - Cardinality(Prompt \cap Stale)
            BY <2>5, <2>9, FS_Union
        <3>2. Cardinality(Prompt \cap Stale) = 0
            BY <2>11, FS_EmptySet
        <3>3. Cardinality(Recent) = Cardinality(Prompt \cup Stale)
            BY <2>11
        <3> HIDE DEF Stale
        <3> QED BY <2>5, <2>10, <3>1, <3>2, <3>3
    <2>13. Cardinality(Recent) <= 2 * RequestLimit + Cardinality(Workers)
        BY <2>t, <2>5, <2>8, <2>9, <2>10, <2>12
    <2> QED BY <2>8, <2>13 DEF RateBound
<1>2. CallsInv /\ RatesInv => RateBound
    BY <1>1 DEF CallsInv, RatesInv
<1> QED BY <1>2, InitCalls, CallsStep, InitRates, RatesStep, PTL DEF Spec
=============================================================================
