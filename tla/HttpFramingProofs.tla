------------------------- MODULE HttpFramingProofs --------------------------
(* That client and server stay in step, for any messages, limits and       *)
(* numbers of messages and connections, however the bytes are cut.         *)
EXTENDS HttpFraming, TLAPS, SequenceTheorems, WellFoundedInduction

-----------------------------------------------------------------------------
(* Numbers.                                                                *)

LEMMA LeastOfNat ==
    ASSUME NEW T \in SUBSET Nat, T # {}
    PROVE  \E x \in T : \A y \in T : x <= y
<1>1. PICK x \in T : \A y \in T : ~(<<y, x>> \in OpToRel(<, Nat))
    BY NatLessThanWellFounded, WFMin
<1>2. \A y \in T : ~(y < x)
    BY <1>1 DEF OpToRel
<1> QED BY <1>2

LEMMA MinIsLeast ==
    ASSUME NEW T \in SUBSET Nat, T # {}
    PROVE  Min(T) \in T /\ \A y \in T : Min(T) <= y
BY LeastOfNat DEF Min

(* Induction from the end of an interval to its beginning.                 *)
LEMMA Descend ==
    ASSUME NEW N \in Nat, NEW T \in SUBSET (1..(N + 1)), N + 1 \in T,
           \A i \in 1..N : i + 1 \in T => i \in T
    PROVE  T = 1..(N + 1)
<1> DEFINE Bad == {d \in 0..N : N + 1 - d \notin T}
<1>1. SUFFICES ASSUME T # 1..(N + 1) PROVE FALSE
    OBVIOUS
<1>2. Bad # {}
    <2>1. PICK i \in 1..(N + 1) : i \notin T
        BY <1>1
    <2>2. N + 1 - i \in Bad
        BY <2>1
    <2> QED BY <2>2
<1>3. Bad \in SUBSET Nat
    OBVIOUS
<1> HIDE DEF Bad
<1>4. PICK x \in Bad : \A y \in Bad : x <= y
    BY <1>2, <1>3, LeastOfNat
<1>5. x \in 0..N /\ N + 1 - x \notin T
    BY <1>4 DEF Bad
<1>6. x # 0
    BY <1>5
<1>7. x - 1 \in 0..N /\ x - 1 \notin Bad
    BY <1>3, <1>4, <1>5, <1>6
<1>8. N + 1 - (x - 1) \in T
    BY <1>7 DEF Bad
<1>9. N + 1 - x \in 1..N /\ (N + 1 - x) + 1 = N + 1 - (x - 1)
    BY <1>5, <1>6
<1> QED BY <1>5, <1>8, <1>9

-----------------------------------------------------------------------------
(* Sequences.                                                              *)

(* Two ways to cut the same sequence.                                      *)
LEMMA TwoCuts ==
    ASSUME NEW S, NEW b \in Seq(S), NEW w \in Seq(S), NEW o \in Seq(S), NEW r \in Seq(S),
           b \o w = o \o r
    PROVE  /\ \A i \in 1..Len(b) : i <= Len(o) => b[i] = o[i]
           /\ Len(b) >= Len(o) => /\ SubSeq(b, 1, Len(o)) = o
                                 /\ SubSeq(b, Len(o) + 1, Len(b)) \o w = r
<1> DEFINE whole == b \o w
           n == Len(b)
           l == Len(o)
<1>1. n \in Nat /\ l \in Nat /\ Len(w) \in Nat /\ Len(r) \in Nat
    BY LenProperties
<1>2. \A i \in 1..(n + Len(w)) : whole[i] = IF i <= n THEN b[i] ELSE w[i - n]
    BY ConcatProperties
<1>3. Len(whole) = n + Len(w)
    BY ConcatProperties
<1>4. whole = o \o r
    OBVIOUS
<1> HIDE DEF whole
<1>5. Len(whole) = l + Len(r)
    BY <1>4, ConcatProperties
<1>6. \A i \in 1..(l + Len(r)) : whole[i] = IF i <= l THEN o[i] ELSE r[i - l]
    BY <1>4, ConcatProperties
<1> HIDE DEF n, l
<1>7. ASSUME NEW i \in 1..n, i <= l PROVE b[i] = o[i]
    <2>1. i \in 1..(n + Len(w)) /\ i <= n /\ i \in 1..(l + Len(r))
        BY <1>1, <1>7
    <2>2. whole[i] = b[i]
        BY <1>2, <2>1
    <2>3. whole[i] = o[i]
        BY <1>6, <1>7, <2>1
    <2> QED BY <2>2, <2>3
<1>8. ASSUME n >= l
      PROVE  SubSeq(b, 1, l) = o /\ SubSeq(b, l + 1, n) \o w = r
    <2> DEFINE a == SubSeq(b, 1, l)
               z == SubSeq(b, l + 1, n)
    <2>1. \A i \in 1..n : b[i] \in S
        BY ElementOfSeq DEF n
    <2>2. \A i \in 1..l : b[i] \in S
        BY <1>1, <1>8, <2>1
    <2>3. a \in Seq(S) /\ Len(a) = l
        BY <1>1, <2>2, SubSeqProperties
    <2>4. \A i \in 1..l : a[i] = b[i]
        BY <1>1, <2>2, SubSeqProperties
    <2>5. \A i \in (l + 1)..n : b[i] \in S
        BY <1>1, <2>1
    <2>6. z \in Seq(S)
        BY <1>1, <2>5, SubSeqProperties
    <2>7. a \o z = b
        <3>1. l \in 0..n /\ 1 \in 1..(n + 1) /\ l \in (1 - 1)..n /\ n \in l..n
            BY <1>1, <1>8
        <3>2. a \o z = SubSeq(b, 1, n)
            BY <3>1, ConcatAdjacentSubSeq DEF n
        <3>3. SubSeq(b, 1, n) = b
            BY SubSeqFull DEF n
        <3> QED BY <3>2, <3>3
    <2> HIDE DEF a, z
    <2>8. a = o
        <3>1. \A i \in 1..l : a[i] = o[i]
            BY <1>1, <1>7, <1>8, <2>4
        <3> QED BY <2>3, <3>1, SeqEqual DEF l
    <2>9. o \o (z \o w) = o \o r
        <3>1. (a \o z) \o w = a \o (z \o w)
            <4>1. a \in Seq(S)
                BY <2>3
            <4> QED BY SMTT(30), <4>1, <2>6
        <3> QED BY <1>4, <2>7, <2>8, <3>1 DEF whole
    <2>10. z \o w \in Seq(S)
        BY <2>6, ConcatProperties
    <2>11. z \o w = r
        BY <2>9, <2>10, ConcatSimplifications
    <2> QED BY <2>8, <2>11 DEF a, z
<1> QED BY <1>7, <1>8 DEF n, l

(* Moving the first elements of one sequence to the end of another.        *)
CutAt(b, w, n) == (b \o SubSeq(w, 1, n)) \o SubSeq(w, n + 1, Len(w))

LEMMA MovedParts ==
    ASSUME NEW S, NEW w \in Seq(S), NEW n \in 0..Len(w)
    PROVE  /\ SubSeq(w, 1, n) \in Seq(S) /\ Len(SubSeq(w, 1, n)) = n
           /\ SubSeq(w, n + 1, Len(w)) \in Seq(S)
<1>1. Len(w) \in Nat /\ n \in Nat
    BY LenProperties
<1>2. \A i \in 1..Len(w) : w[i] \in S
    BY ElementOfSeq
<1>3. \A i \in 1..n : w[i] \in S
    BY <1>1, <1>2
<1>4. \A i \in (n + 1)..Len(w) : w[i] \in S
    BY <1>1, <1>2
<1>5. SubSeq(w, 1, n) \in Seq(S) /\ Len(SubSeq(w, 1, n)) = n
    BY <1>1, <1>3, SubSeqProperties
<1>6. SubSeq(w, n + 1, Len(w)) \in Seq(S)
    BY <1>1, <1>4, SubSeqProperties
<1> QED BY <1>5, <1>6

LEMMA Longer ==
    ASSUME NEW S, NEW b \in Seq(S), NEW x \in Seq(S)
    PROVE  /\ b \o x \in Seq(S) /\ Len(b \o x) = Len(b) + Len(x)
           /\ b # <<>> => (b \o x)[1] = b[1]
<1>1. Len(b) \in Nat /\ Len(x) \in Nat
    BY LenProperties
<1>2. ASSUME b # <<>> PROVE (b \o x)[1] = b[1]
    <2>1. Len(b) # 0
        BY <1>2, EmptySeq
    <2>2. 1 \in 1..(Len(b) + Len(x)) /\ 1 <= Len(b)
        BY <1>1, <2>1
    <2> QED BY <2>2, ConcatProperties
<1> QED BY <1>2, ConcatProperties

LEMMA Moved ==
    ASSUME NEW S, NEW b \in Seq(S), NEW w \in Seq(S), NEW n \in 0..Len(w)
    PROVE  CutAt(b, w, n) = b \o w
<1> DEFINE x == SubSeq(w, 1, n)
           y == SubSeq(w, n + 1, Len(w))
<1>1. x \in Seq(S) /\ y \in Seq(S) /\ Len(w) \in Nat
    BY MovedParts, LenProperties
<1>2. x \o y = w
    <2>1. 1 \in 1..(Len(w) + 1) /\ n \in (1 - 1)..Len(w) /\ Len(w) \in n..Len(w)
        BY <1>1
    <2>2. x \o y = SubSeq(w, 1, Len(w))
        BY <2>1, ConcatAdjacentSubSeq
    <2> QED BY <2>2, SubSeqFull
<1> HIDE DEF x, y
<1>3. (b \o x) \o y = b \o (x \o y)
    BY <1>1, ConcatAssociative
<1>4. (b \o x) \o y = b \o w
    BY Zenon, <1>2, <1>3
<1> QED BY Zenon, <1>4 DEF CutAt, x, y

-----------------------------------------------------------------------------
(* The bytes that a client sends.                                          *)

LEMMA MessageBytes ==
    ASSUME NEW c \in 1..MaxConns, NEW k \in 1..MaxStream, NEW m \in Messages
    PROVE  /\ m.head \in Nat \ {0} /\ m.body \in Nat
           /\ BytesOf(c, k, m) \in Seq(Byte)
           /\ Len(BytesOf(c, k, m)) = m.head + m.body
           /\ \A i \in 1..(m.head + m.body) :
                 BytesOf(c, k, m)[i] = [conn |-> c, nth |-> k, at |-> i, of |-> m]
<1>1. m.head \in Nat \ {0} /\ m.body \in Nat
    BY FramingAssumption DEF Message
<1> DEFINE L == m.head + m.body
           b == BytesOf(c, k, m)
<1>2. L \in Nat
    BY <1>1
<1>3. b = [i \in 1..L |-> [conn |-> c, nth |-> k, at |-> i, of |-> m]]
    BY DEF BytesOf
<1> HIDE DEF b, L
<1>4. \A i \in 1..L : b[i] = [conn |-> c, nth |-> k, at |-> i, of |-> m]
    BY <1>3
<1>5. \A i \in 1..L : [conn |-> c, nth |-> k, at |-> i, of |-> m] \in Byte
    BY <1>2 DEF Byte
<1>6. b \in [1..L -> Byte]
    BY <1>3, <1>5
<1>7. b \in Seq(Byte) /\ Len(b) = L
    BY <1>2, <1>6, SeqDef
<1> QED BY <1>1, <1>4, <1>7 DEF b, L

(* The recursive function that the bytes of a stream are defined by.       *)
IsFrom(f, c, s) ==
    f = [i \in 1..(Len(s) + 1) |->
            IF i > Len(s) THEN <<>> ELSE BytesOf(c, i, s[i]) \o f[i + 1]]

(* It exists.                                                              *)
LEMMA FromExists ==
    ASSUME NEW c \in 1..MaxConns, NEW s \in Seq(Messages), Len(s) <= MaxStream
    PROVE  \E f : IsFrom(f, c, s)
<1> DEFINE N == Len(s)
           Step(g, j) == g[j] = IF j > N THEN <<>> ELSE BytesOf(c, j, s[j]) \o g[j + 1]
           Has(i) == \E g \in [i..(N + 1) -> Seq(Byte)] : \A j \in i..(N + 1) : Step(g, j)
           T == {i \in 1..(N + 1) : Has(i)}
<1>1. N \in Nat
    BY LenProperties
<1>2. <<>> \in Seq(Byte)
    BY EmptySeq
<1>3. N + 1 \in T
    <2> DEFINE g == [j \in (N + 1)..(N + 1) |-> <<>>]
    <2>1. g \in [(N + 1)..(N + 1) -> Seq(Byte)]
        BY <1>2
    <2>2. ASSUME NEW j \in (N + 1)..(N + 1) PROVE Step(g, j)
        <3>1. j > N
            BY <1>1
        <3>2. g[j] = <<>>
            OBVIOUS
        <3> HIDE DEF g
        <3> QED BY <3>1, <3>2
    <2>3. Has(N + 1)
        BY <2>1, <2>2
    <2> QED BY <1>1, <2>3
<1>4. ASSUME NEW i \in 1..N, i + 1 \in T PROVE i \in T
    <2>1. PICK g \in [(i + 1)..(N + 1) -> Seq(Byte)] : \A j \in (i + 1)..(N + 1) : Step(g, j)
        BY <1>4
    <2> DEFINE b == BytesOf(c, i, s[i])
               h == [j \in i..(N + 1) |-> IF j = i THEN b \o g[i + 1] ELSE g[j]]
    <2>2. b \in Seq(Byte)
        <3>1. s[i] \in Messages /\ i \in 1..MaxStream
            BY <1>1, ElementOfSeq, FramingAssumption
        <3> QED BY <3>1, MessageBytes
    <2>3. i + 1 \in (i + 1)..(N + 1)
        BY <1>1
    <2>4. g[i + 1] \in Seq(Byte)
        BY <2>1, <2>3
    <2> HIDE DEF b
    <2>5. b \o g[i + 1] \in Seq(Byte)
        BY <2>2, <2>4, ConcatProperties
    <2>6. h \in [i..(N + 1) -> Seq(Byte)]
        <3> SUFFICES ASSUME NEW j \in i..(N + 1)
                     PROVE  (IF j = i THEN b \o g[i + 1] ELSE g[j]) \in Seq(Byte)
            OBVIOUS
        <3>1. CASE j = i  BY <2>5, <3>1
        <3>2. CASE j # i
            <4>1. j \in (i + 1)..(N + 1)  BY <1>1, <3>2
            <4> QED BY <2>1, <3>2, <4>1
        <3> QED BY <3>1, <3>2
    <2>7. ASSUME NEW j \in i..(N + 1) PROVE Step(h, j)
        <3>1. CASE j = i
            <4>1. h[j] = b \o g[i + 1] /\ ~(j > N)
                BY <1>1, <3>1
            <4>2. i + 1 \in i..(N + 1) /\ i + 1 # i
                BY <1>1
            <4>3. h[j + 1] = g[i + 1]
                BY <3>1, <4>2
            <4> QED BY <3>1, <4>1, <4>3 DEF b
        <3>2. CASE j # i
            <4>1. j \in (i + 1)..(N + 1)
                BY <1>1, <3>2
            <4>2. h[j] = g[j] /\ Step(g, j)
                BY <2>1, <3>2, <4>1
            <4>3. CASE j > N
                BY <4>2, <4>3
            <4>4. CASE ~(j > N)
                <5>1. j + 1 \in i..(N + 1) /\ j + 1 # i
                    BY <1>1, <4>1, <4>4
                <5>2. h[j + 1] = g[j + 1]
                    BY <5>1
                <5> QED BY <4>2, <4>4, <5>2
            <4> QED BY <4>3, <4>4
        <3> QED BY <3>1, <3>2
    <2> HIDE DEF h
    <2>8. Has(i)
        BY <2>6, <2>7
    <2>9. i \in 1..(N + 1)
        BY <1>1
    <2> QED BY <2>8, <2>9
<1>5. T \in SUBSET (1..(N + 1))
    OBVIOUS
<1> HIDE DEF T
<1>6. T = 1..(N + 1)
    BY <1>1, <1>3, <1>4, <1>5, Descend
<1>7. 1 \in T
    BY <1>1, <1>6
<1>8. PICK f \in [1..(N + 1) -> Seq(Byte)] : \A j \in 1..(N + 1) : Step(f, j)
    BY <1>7 DEF T
<1>9. f = [i \in 1..(N + 1) |-> f[i]]
    BY <1>8
<1>10. f = [i \in 1..(N + 1) |-> IF i > N THEN <<>> ELSE BytesOf(c, i, s[i]) \o f[i + 1]]
    BY <1>8, <1>9
<1> QED BY <1>10 DEF IsFrom

(* And so the bytes from a message on are its own and those that follow.   *)
LEMMA BytesFromSteps ==
    ASSUME NEW c \in 1..MaxConns, NEW s \in Seq(Messages), Len(s) <= MaxStream,
           NEW k \in 1..(Len(s) + 1)
    PROVE  /\ BytesFrom(c, s, k) \in Seq(Byte)
           /\ k > Len(s) => BytesFrom(c, s, k) = <<>>
           /\ k <= Len(s) => BytesFrom(c, s, k) = BytesOf(c, k, s[k]) \o BytesFrom(c, s, k + 1)
<1> DEFINE N == Len(s)
           f == CHOOSE f : IsFrom(f, c, s)
           T == {i \in 1..(N + 1) : f[i] \in Seq(Byte)}
<1>1. N \in Nat
    BY LenProperties
<1>2. IsFrom(f, c, s)
    BY FromExists
<1>3. \A i : BytesFrom(c, s, i) = f[i]
    BY DEF BytesFrom, IsFrom
<1> HIDE DEF f
<1>4. \A i \in 1..(N + 1) :
         f[i] = IF i > N THEN <<>> ELSE BytesOf(c, i, s[i]) \o f[i + 1]
    BY <1>2 DEF IsFrom
<1>a. ASSUME NEW i \in 1..(N + 1), i > N PROVE f[i] = <<>>
    BY <1>4, <1>a
<1>b. ASSUME NEW i \in 1..(N + 1), ~(i > N) PROVE f[i] = BytesOf(c, i, s[i]) \o f[i + 1]
    BY <1>4, <1>b
<1>5. N + 1 \in T
    <2>1. f[N + 1] = <<>>
        <3>1. N + 1 \in 1..(N + 1) /\ N + 1 > N
            BY <1>1
        <3> QED BY <1>a, <3>1
    <2>2. <<>> \in Seq(Byte)
        BY EmptySeq
    <2>3. f[N + 1] \in Seq(Byte) /\ N + 1 \in 1..(N + 1)
        BY <1>1, <2>1, <2>2
    <2> QED BY <2>3
<1>6. ASSUME NEW i \in 1..N, i + 1 \in T PROVE i \in T
    <2>1. f[i] = BytesOf(c, i, s[i]) \o f[i + 1]
        <3>1. i \in 1..(N + 1) /\ ~(i > N)
            BY <1>1
        <3> QED BY <1>b, <3>1
    <2>2. s[i] \in Messages /\ i \in 1..MaxStream
        BY <1>1, ElementOfSeq, FramingAssumption
    <2>3. BytesOf(c, i, s[i]) \in Seq(Byte)
        BY <2>2, MessageBytes
    <2>4. f[i + 1] \in Seq(Byte)
        BY <1>6
    <2>5. f[i] \in Seq(Byte)
        BY <2>1, <2>3, <2>4, ConcatProperties
    <2> QED BY <1>1, <2>5
<1>7. T \in SUBSET (1..(N + 1))
    OBVIOUS
<1> HIDE DEF T
<1>8. T = 1..(N + 1)
    BY <1>1, <1>5, <1>6, <1>7, Descend
<1>9. f[k] \in Seq(Byte)
    BY <1>8 DEF T
<1>10. k > N => f[k] = <<>>
    BY <1>a
<1>11. k <= N => f[k] = BytesOf(c, k, s[k]) \o f[k + 1]
    <2>1. k <= N => ~(k > N)
        BY <1>1
    <2> QED BY <1>b, <2>1
<1> QED BY <1>3, <1>9, <1>10, <1>11

-----------------------------------------------------------------------------
(* What the worker has of the message it reads.                            *)

(* The bytes in the buffer and on the wire are those of the messages that  *)
(* were not consumed.                                                      *)
InStep ==
    /\ conn \in 1..MaxConns /\ served <= Len(stream)
    /\ buf \o wire = BytesFrom(conn, stream, served + 1)

Current == stream[served + 1]

LEMMA BufferHolds ==
    ASSUME TypeOK, Len(stream) <= MaxStream, InStep, buf # <<>>
    PROVE  /\ served < Len(stream) /\ Current \in Messages
           /\ Current.head \in Nat \ {0} /\ Current.body \in Nat
           /\ buf[1].at = 1 /\ buf[1].of = Current
           /\ Len(buf) < Current.head => HeaderEnd = 0
           /\ Len(buf) >= Current.head => HeaderEnd = Current.head
           /\ Len(buf) >= Current.head + Current.body =>
                 /\ SubSeq(buf, 1, Current.head + Current.body)
                        = BytesOf(conn, served + 1, Current)
                 /\ SubSeq(buf, Current.head + Current.body + 1, Len(buf)) \o wire
                        = BytesFrom(conn, stream, served + 2)
<1> DEFINE k == served + 1
           m == Current
           L == m.head + m.body
           own == BytesOf(conn, k, m)
           rest == BytesFrom(conn, stream, k + 1)
           n == Len(buf)
<1>1. buf \in Seq(Byte) /\ wire \in Seq(Byte) /\ stream \in Seq(Messages)
      /\ served \in Nat /\ MaxStream \in Nat /\ conn \in 1..MaxConns
    BY FramingAssumption DEF TypeOK, InStep
<1>2. n \in Nat /\ n # 0 /\ Len(wire) \in Nat /\ Len(stream) \in Nat
    BY <1>1, LenProperties, EmptySeq
<1>3. k \in 1..(Len(stream) + 1) /\ k \in Nat /\ served <= Len(stream)
    BY <1>1, <1>2 DEF InStep
<1>4. buf \o wire = BytesFrom(conn, stream, k)
    BY DEF InStep
<1>5. k + 1 = served + 2
    BY <1>1
<1> HIDE DEF k
<1>6. k <= Len(stream)
    <2>1. SUFFICES ASSUME k > Len(stream) PROVE FALSE
        BY <1>2, <1>3
    <2>2. BytesFrom(conn, stream, k) = <<>>
        BY <1>1, <1>3, <2>1, BytesFromSteps
    <2>3. buf = <<>>
        BY <1>1, <1>4, <2>2, ConcatEqualIffEmpty
    <2> QED BY <2>3
<1>7. m \in Messages /\ k \in 1..MaxStream /\ served < Len(stream)
    <2>1. k \in 1..Len(stream) /\ k \in 1..MaxStream /\ served < Len(stream)
        BY <1>1, <1>2, <1>3, <1>6 DEF k
    <2>2. stream[k] \in Messages
        BY <1>1, <2>1, ElementOfSeq
    <2> QED BY <2>1, <2>2 DEF Current, k
<1>8. m = stream[k]
    BY DEF Current, k
<1> HIDE DEF m
<1>9. /\ m.head \in Nat \ {0} /\ m.body \in Nat
      /\ own \in Seq(Byte) /\ Len(own) = L
      /\ \A i \in 1..L : own[i] = [conn |-> conn, nth |-> k, at |-> i, of |-> m]
    BY <1>1, <1>7, MessageBytes
<1>10. L \in Nat /\ L # 0 /\ m.head <= L
    BY <1>9
<1>11. rest \in Seq(Byte) /\ BytesFrom(conn, stream, k) = own \o rest
    <2>1. k + 1 \in 1..(Len(stream) + 1)
        BY <1>2, <1>3, <1>6
    <2>2. rest \in Seq(Byte)
        BY <1>1, <2>1, BytesFromSteps
    <2>3. BytesFrom(conn, stream, k) = own \o rest
        BY <1>1, <1>3, <1>6, <1>8, BytesFromSteps
    <2> QED BY <2>2, <2>3
<1> HIDE DEF own, rest, L, n
<1>12. buf \o wire = own \o rest
    BY Zenon, <1>4, <1>11
<1>13. /\ \A i \in 1..Len(buf) : i <= Len(own) => buf[i] = own[i]
       /\ Len(buf) >= Len(own) => /\ SubSeq(buf, 1, Len(own)) = own
                                  /\ SubSeq(buf, Len(own) + 1, Len(buf)) \o wire = rest
    BY Zenon, <1>1, <1>9, <1>11, <1>12, TwoCuts
<1>14. ASSUME NEW i \in 1..n, i <= L
       PROVE  buf[i].at = i /\ buf[i].of = m
    <2>1. i \in 1..L
        BY <1>2, <1>10, <1>14
    <2>2. buf[i] = own[i]
        BY <1>9, <1>13, <1>14 DEF n
    <2>3. buf[i] = [conn |-> conn, nth |-> k, at |-> i, of |-> m]
        BY <1>9, <2>1, <2>2
    <2> QED BY <2>3
<1>15. buf[1].at = 1 /\ buf[1].of = m
    <2>1. 1 \in 1..n /\ 1 <= L
        BY <1>2, <1>10
    <2> QED BY <1>14, <2>1
<1> DEFINE ends == {i \in DOMAIN buf : buf[i].at = buf[i].of.head}
<1>16. DOMAIN buf = 1..n
    BY <1>1, LenProperties DEF n
<1>17. HeaderEnd = IF ends = {} THEN 0 ELSE Min(ends)
    BY DEF HeaderEnd
<1>18. ASSUME NEW i \in ends PROVE i \in 1..n /\ i >= m.head
    <2>1. i \in 1..n /\ buf[i].at = buf[i].of.head
        BY <1>16
    <2>2. CASE i <= L
        BY <1>2, <1>9, <1>14, <2>1, <2>2
    <2>3. CASE ~(i <= L)
        BY <1>2, <1>9, <1>10, <2>1, <2>3
    <2> QED BY <2>2, <2>3
<1>19. ASSUME n < m.head PROVE HeaderEnd = 0
    <2>1. ends = {}
        <3> SUFFICES ASSUME NEW i \in ends PROVE FALSE
            OBVIOUS
        <3> HIDE DEF ends
        <3> QED BY <1>2, <1>9, <1>18, <1>19
    <2> QED BY <1>17, <2>1
<1>20. ASSUME n >= m.head PROVE HeaderEnd = m.head
    <2>1. m.head \in ends
        <3>1. m.head \in 1..n
            BY <1>2, <1>9, <1>20
        <3>2. buf[m.head].at = m.head /\ buf[m.head].of = m
            BY <1>10, <1>14, <3>1
        <3> QED BY <1>16, <3>1, <3>2
    <2> HIDE DEF ends
    <2>2. ends \in SUBSET Nat /\ ends # {}
        BY <1>2, <1>18, <2>1
    <2>3. Min(ends) \in ends /\ Min(ends) <= m.head
        BY <2>1, <2>2, MinIsLeast
    <2>4. Min(ends) >= m.head /\ Min(ends) \in Nat
        BY <1>18, <2>2, <2>3
    <2>5. Min(ends) = m.head
        BY <1>9, <2>3, <2>4
    <2> QED BY <1>17, <2>2, <2>5
<1>21. Len(own) = m.head + m.body
    BY <1>9 DEF L
<1> QED BY <1>5, <1>7, <1>9, <1>13, <1>15, <1>19, <1>20, <1>21 DEF own, rest, L, n, m, k

-----------------------------------------------------------------------------
(* What the parser says of it.                                             *)

LEMMA LengthsOfMessages ==
    ASSUME NEW m \in Messages
    PROVE  /\ BodyLen(m) \in Nat
           /\ Len(m.lengths) <= 1 /\ ~m.chunked => BodyLen(m) = m.body
<1> DEFINE ls == m.lengths
<1>1. ls \in Seq(Nat) /\ Honest(m)
    BY FramingAssumption DEF Message
<1>2. BodyLen(m) = IF ls = <<>> THEN 0 ELSE ls[Len(ls)]
    BY DEF BodyLen
<1>3. \/ m.chunked
      \/ ls = <<>> /\ m.body = 0
      \/ \E i \in DOMAIN ls : m.body = ls[i]
    BY <1>1 DEF Honest
<1> HIDE DEF ls
<1>4. Len(ls) \in Nat /\ DOMAIN ls = 1..Len(ls)
    BY <1>1, LenProperties
<1>5. CASE ls = <<>>
    <2>1. BodyLen(m) = 0
        BY <1>2, <1>5
    <2>2. Len(ls) = 0
        BY <1>5, EmptySeq
    <2>3. DOMAIN ls = {}
        BY <1>4, <2>2
    <2> QED BY <1>3, <2>1, <2>3 DEF ls
<1>6. CASE ls # <<>>
    <2>1. BodyLen(m) = ls[Len(ls)]
        BY <1>2, <1>6
    <2>2. Len(ls) # 0
        BY <1>1, <1>6, EmptySeq
    <2>3. Len(ls) \in 1..Len(ls)
        BY <1>4, <2>2
    <2>4. BodyLen(m) \in Nat
        BY <1>1, <2>1, <2>3, ElementOfSeq
    <2>5. ASSUME Len(ls) <= 1, ~m.chunked PROVE BodyLen(m) = m.body
        <3>1. PICK i \in DOMAIN ls : m.body = ls[i]
            BY <1>3, <1>6, <2>5
        <3>2. i = Len(ls)
            BY <1>4, <2>5, <3>1
        <3> QED BY <2>1, <3>1, <3>2
    <2> QED BY <2>4, <2>5 DEF ls
<1> QED BY <1>5, <1>6

(* What is wrong with a message that is refused as a bad request.          *)
Faulty(m) ==
    m.head > HeadMax \/ ~m.syntax \/ m.chunked
    \/ Len(m.lengths) > 1 \/ m.hosts > 1 \/ m.hosts < m.minor

LEMMA BadHeads ==
    ASSUME NEW m \in Messages, ~HeadOK(m), buf[1].at = 1
    PROVE  Faulty(m)
<1>1. m.lengths \in Seq(Nat) /\ m.hosts \in Nat /\ m.minor \in {0, 1} /\ m.head \in Nat
      /\ m.syntax \in BOOLEAN /\ m.chunked \in BOOLEAN
    BY FramingAssumption DEF Message
<1>2. Len(m.lengths) \in Nat
    BY <1>1, LenProperties
<1> QED BY <1>1, <1>2 DEF HeadOK, Faulty

LEMMA ParserSays ==
    ASSUME TypeOK, Len(stream) <= MaxStream, InStep
    PROVE  /\ Parsed \in {"more", "error", "body", "ok"}
           /\ Parsed = "more" /\ buf # <<>> => Len(buf) < Current.head
           /\ Parsed = "error" => buf # <<>> /\ Faulty(Current)
           /\ Parsed \in {"body", "ok"} =>
                 /\ buf # <<>> /\ Len(buf) >= Current.head
                 /\ HeaderEnd = Current.head
                 /\ BodyLen(Current) = Current.body
           /\ Parsed = "body" => Current.body > Len(buf) - Current.head
           /\ Parsed = "ok" => Current.body <= Len(buf) - Current.head
<1>1. Len(buf) \in Nat /\ HeadMax \in Nat
    <2>1. buf \in Seq(Byte)
        BY DEF TypeOK
    <2> QED BY <2>1, LenProperties, FramingAssumption
<1>2. CASE buf = <<>>
    <2>1. Parsed = "more"
        BY <1>2 DEF Parsed
    <2> QED BY <1>2, <2>1
<1>3. CASE buf # <<>>
    <2> DEFINE m == Current
    <2>1. /\ m \in Messages /\ m.head \in Nat \ {0} /\ m.body \in Nat
          /\ buf[1].at = 1 /\ buf[1].of = m
          /\ Len(buf) < m.head => HeaderEnd = 0
          /\ Len(buf) >= m.head => HeaderEnd = m.head
        BY <1>3, BufferHolds
    <2>2. Parsed = IF HeaderEnd = 0 THEN IF Len(buf) > HeadMax THEN "error" ELSE "more"
                   ELSE IF HeaderEnd > HeadMax \/ ~HeadOK(m) THEN "error"
                   ELSE IF BodyLen(m) > Len(buf) - HeaderEnd THEN "body"
                   ELSE "ok"
        BY <1>3, <2>1 DEF Parsed
    <2>3. BodyLen(m) \in Nat
        BY <2>1, LengthsOfMessages
    <2>4. HeadOK(m) => BodyLen(m) = m.body
        BY <2>1, LengthsOfMessages DEF HeadOK
    <2>5. ~HeadOK(m) => Faulty(m)
        BY <2>1, BadHeads
    <2>6. m.head > HeadMax => Faulty(m)
        BY DEF Faulty
    <2> HIDE DEF m
    <2>7. CASE Len(buf) < m.head
        BY <1>1, <1>3, <2>1, <2>2, <2>6, <2>7 DEF m
    <2>8. CASE Len(buf) >= m.head
        <3>1. HeaderEnd = m.head /\ HeaderEnd # 0
            BY <2>1, <2>8
        <3>2. CASE m.head > HeadMax \/ ~HeadOK(m)
            BY <1>3, <2>2, <2>5, <2>6, <3>1, <3>2 DEF m
        <3>3. CASE ~(m.head > HeadMax) /\ HeadOK(m)
            <4>1. Parsed = IF m.body > Len(buf) - m.head THEN "body" ELSE "ok"
                BY <2>2, <2>4, <3>1, <3>3
            <4> QED BY <1>1, <1>3, <2>1, <2>4, <2>8, <3>1, <3>3, <4>1 DEF m
        <3> QED BY <3>2, <3>3
    <2> QED BY <1>1, <2>1, <2>7, <2>8
<1> QED BY <1>2, <1>3

(* The limits, without what the assumption says of the messages.           *)
LEMMA Limits ==
    /\ MaxStream \in Nat /\ MaxConns \in Nat /\ ReadSteps \in Nat
    /\ Chunk \in Nat /\ ReqMax \in Nat /\ Chunk < ReqMax
BY FramingAssumption

(* The buffer can grow to what is needed, and not beyond its limit.        *)
LEMMA GrownFits ==
    ASSUME TypeOK, Need <= ReqMax
    PROVE  Grown \in 0..ReqMax /\ Need <= Grown /\ Need = Len(buf) + Chunk + 1
           /\ Len(buf) \in Nat /\ Need \in Nat /\ Chunk \in Nat
<1>1. Len(buf) \in Nat /\ Chunk \in Nat /\ ReqMax \in Nat /\ cap \in 0..ReqMax
    <2>1. buf \in Seq(Byte) /\ cap \in 0..ReqMax
        BY DEF TypeOK
    <2> QED BY <2>1, LenProperties, FramingAssumption
<1>2. Need = Len(buf) + Chunk + 1 /\ Need \in Nat
    BY <1>1 DEF Need
<1> DEFINE start == IF cap # 0 THEN cap ELSE Chunk
           sizes == {c \in Need..ReqMax : c = ReqMax \/ \E k \in 0..c : c = start * 2^k}
<1>3. Grown = IF Need <= cap THEN cap ELSE Min(sizes)
    BY DEF Grown
<1>4. sizes \in SUBSET (Need..ReqMax)
    OBVIOUS
<1>5. ReqMax \in sizes
    BY <1>1, <1>2
<1> HIDE DEF sizes
<1>6. sizes \in SUBSET Nat /\ sizes # {}
    BY <1>1, <1>2, <1>4, <1>5
<1>7. Min(sizes) \in sizes
    BY <1>6, MinIsLeast
<1>8. Min(sizes) \in Need..ReqMax
    BY <1>4, <1>7
<1>9. CASE Need <= cap
    BY <1>1, <1>2, <1>3, <1>9
<1>10. CASE ~(Need <= cap)
    BY <1>1, <1>2, <1>3, <1>8, <1>10
<1> QED BY <1>9, <1>10

LEMMA GrownGrows ==
    ASSUME TypeOK, Need <= ReqMax
    PROVE  cap <= Grown
<1>1. cap \in Nat /\ Need \in Nat /\ Need <= Grown /\ Grown \in Nat
    BY GrownFits, Limits DEF TypeOK
<1>2. Need <= cap => Grown = cap
    BY DEF Grown
<1> QED BY <1>1, <1>2

-----------------------------------------------------------------------------
(* The inductive invariant.                                                *)

(* While a connection is read or served its bytes are in step, and the     *)
(* worker stands where the parser's answer sent it.                        *)
Reading ==
    /\ Len(stream) <= MaxStream
    /\ pc \in {"read", "recv", "serve"} => InStep
    /\ pc = "idle" => buf = <<>>
    /\ pc = "recv" => Parsed \in {"more", "body"}
    /\ pc = "serve" => Parsed = "ok" /\ rc = 1

(* 100 Continue was sent at most once, to the client of the message whose  *)
(* head the buffer holds.                                                  *)
Interim ==
    /\ interims \in 0..1
    /\ interims = 1 => already
    /\ interims = 1 /\ pc # "idle" => buf # <<>> /\ buf[1].of.expect = "continue"

FramingInv == TypeOK /\ Reading /\ ZeroFits /\ Interim /\ RefusedForCause

LEMMA ParsedFollows ==
    ASSUME buf' = buf
    PROVE  Parsed' = Parsed
BY DEF Parsed, HeaderEnd, HeadOK, BodyLen

(* A step that moves no byte leaves the bytes in step.                     *)
LEMMA InStepFollows ==
    ASSUME InStep, UNCHANGED <<conn, stream, wire, buf, served>>
    PROVE  InStep'
BY DEF InStep

LEMMA FramingInvInit == Init => FramingInv
<1> SUFFICES ASSUME Init PROVE FramingInv
    OBVIOUS
<1>1. <<>> \in Seq(Byte) /\ <<>> \in Seq(Messages) /\ Len(<<>>) = 0
    BY EmptySeq
<1>2. TypeOK
    <2>1. conn \in 0..MaxConns /\ cap \in 0..ReqMax /\ steps \in 0..ReadSteps
          /\ served \in 0..MaxStream /\ interims \in Nat
        BY Limits DEF Init
    <2>2. already \in BOOLEAN /\ calm \in BOOLEAN /\ rc \in {-3, -2, -1, 0, 1, 2}
          /\ pc \in {"idle", "read", "recv", "serve", "close"}
        BY DEF Init
    <2>3. stream \in Seq(Messages) /\ wire \in Seq(Byte) /\ buf \in Seq(Byte)
        BY <1>1 DEF Init
    <2> QED BY <2>1, <2>2, <2>3 DEF TypeOK
<1>3. Reading
    BY <1>1, FramingAssumption DEF Init, Reading
<1>4. ZeroFits /\ Interim /\ RefusedForCause
    BY DEF Init, ZeroFits, Interim, RefusedForCause
<1> QED BY <1>2, <1>3, <1>4 DEF FramingInv

(* The streams of Connect.                                                 *)
LEMMA StreamsAreSequences ==
    ASSUME NEW s \in Streams
    PROVE  s \in Seq(Messages) /\ Len(s) <= MaxStream
<1>1. PICK n \in 0..MaxStream : s \in [1..n -> Messages]
    BY DEF Streams
<1>2. n \in Nat /\ MaxStream \in Nat
    BY FramingAssumption
<1>3. s \in Seq(Messages) /\ Len(s) = n
    BY <1>1, <1>2, SeqDef
<1> QED BY <1>1, <1>2, <1>3

LEMMA ConnectKeeps ==
    ASSUME FramingInv, NEW s \in Streams, Connect(s)
    PROVE  FramingInv'
<1>1. s \in Seq(Messages) /\ Len(s) <= MaxStream /\ Len(s) \in Nat
    BY StreamsAreSequences, LenProperties
<1>2. conn + 1 \in 1..MaxConns /\ conn' = conn + 1 /\ buf = <<>> /\ buf' = <<>>
    BY FramingAssumption DEF FramingInv, TypeOK, Reading, Connect
<1>3. wire' = BytesFrom(conn + 1, s, 1) /\ wire' \in Seq(Byte)
    <2>1. 1 \in 1..(Len(s) + 1)
        BY <1>1
    <2> QED BY <1>1, <1>2, <2>1, BytesFromSteps DEF Connect
<1>4. TypeOK'
    <2>1. /\ conn' \in 0..MaxConns /\ cap' \in 0..ReqMax /\ steps' \in 0..ReadSteps
          /\ served' \in 0..MaxStream /\ interims' \in Nat
        BY <1>2, Limits DEF FramingInv, TypeOK, Connect, StartRead
    <2>2. /\ already' \in BOOLEAN /\ calm' \in BOOLEAN /\ rc' \in {-3, -2, -1, 0, 1, 2}
          /\ pc' \in {"idle", "read", "recv", "serve", "close"}
        BY DEF Connect, StartRead
    <2>3. stream' \in Seq(Messages) /\ wire' \in Seq(Byte) /\ buf' \in Seq(Byte)
        <3>1. <<>> \in Seq(Byte)
            BY EmptySeq
        <3> QED BY <1>1, <1>2, <1>3, <3>1 DEF Connect
    <2> QED BY <2>1, <2>2, <2>3 DEF TypeOK
<1>5. Reading'
    <2>1. buf' \o wire' = wire'
        BY <1>2, <1>3, ConcatEmptySeq
    <2>2. served' = 0 /\ stream' = s /\ pc' = "read" /\ served' + 1 = 1
        BY DEF Connect, StartRead
    <2>3. buf' \o wire' = BytesFrom(conn', stream', served' + 1)
        BY Zenon, <1>2, <1>3, <2>1, <2>2
    <2>4. InStep'
        BY <1>1, <1>2, <2>2, <2>3 DEF InStep
    <2> QED BY <1>1, <2>2, <2>4 DEF Reading
<1>6. ZeroFits'
    BY <1>2 DEF ZeroFits
<1>7. Interim' /\ RefusedForCause'
    BY DEF Connect, StartRead, Interim, RefusedForCause
<1> QED BY <1>4, <1>5, <1>6, <1>7 DEF FramingInv

(* ParseRound, by its answers.                                             *)
LEMMA ParseRoundKeeps ==
    ASSUME FramingInv, ParseRound
    PROVE  FramingInv'
<1> DEFINE m == Current
           known == Parsed \in {"body", "ok"}
<1>1. TypeOK /\ Len(stream) <= MaxStream /\ InStep /\ pc = "read"
    BY DEF FramingInv, Reading, ParseRound
<1>2. UNCHANGED <<conn, stream, wire, buf, cap, calm, served>>
      /\ steps < ReadSteps /\ steps' = steps + 1
    BY DEF ParseRound
<1>3. /\ Parsed \in {"more", "error", "body", "ok"}
      /\ Parsed = "error" => Faulty(m)
      /\ known => buf # <<>> /\ buf[1].of = m
    BY <1>1, ParserSays, BufferHolds
<1>4. known => m \in Messages /\ BodyLen(m) \in Nat
    BY <1>1, <1>3, BufferHolds, LengthsOfMessages
<1>5. InStep' /\ Parsed' = Parsed
    BY <1>1, <1>2, InStepFollows, ParsedFollows
<1>6. \/ Parsed = "error" /\ Done(-1) /\ UNCHANGED <<already, interims>>
      \/ known /\ BodyLen(m) > BodyMax /\ Done(-2) /\ UNCHANGED <<already, interims>>
      \/ known /\ Unmet(m) /\ Done(-3) /\ UNCHANGED <<already, interims>>
      \/ /\ \/ Parsed = "body" /\ ~already /\ m.expect = "continue" /\ Continue(1)
            \/ Parsed = "ok" /\ ~already /\ m.expect = "continue" /\ Continue(0)
            \/ UNCHANGED <<already, interims>>
         /\ \/ Parsed = "ok" /\ Done(1)
            \/ Parsed \in {"more", "body"} /\ pc' = "recv" /\ UNCHANGED rc
    BY <1>3 DEF ParseRound
<1> HIDE DEF m
<1>7. TypeOK'
    <2>1. steps' \in 0..ReadSteps
        BY <1>1, <1>2, FramingAssumption DEF TypeOK
    <2>2. pc' \in {"idle", "read", "recv", "serve", "close"} /\ rc' \in {-3, -2, -1, 0, 1, 2}
        BY <1>1, <1>6 DEF TypeOK, Done
    <2>3. already' \in BOOLEAN /\ interims' \in Nat
        <3>1. already \in BOOLEAN /\ interims \in Nat /\ interims + 1 \in Nat
              /\ interims + 0 \in Nat
            BY <1>1 DEF TypeOK
        <3>2. \/ UNCHANGED <<already, interims>>
              \/ already' = TRUE /\ interims' \in {interims + 0, interims + 1}
            BY <1>6 DEF Continue
        <3> QED BY <3>1, <3>2
    <2> QED BY <1>1, <1>2, <2>1, <2>2, <2>3 DEF TypeOK
<1>8. Reading'
    <2>1. \/ pc' = "close"
          \/ pc' = "serve" /\ rc' = 1 /\ Parsed = "ok"
          \/ pc' = "recv" /\ Parsed \in {"more", "body"}
        BY <1>6 DEF Done
    <2> QED BY <1>1, <1>2, <1>5, <2>1 DEF Reading
<1>9. ZeroFits'
    BY <1>2 DEF FramingInv, ZeroFits
<1>10. Interim'
    <2>1. Interim
        BY DEF FramingInv
    <2>2. CASE UNCHANGED <<already, interims>>
        BY <1>1, <1>2, <2>1, <2>2 DEF Interim
    <2>3. CASE ~UNCHANGED <<already, interims>>
        BY <1>2, <1>3, <1>6, <2>1, <2>3 DEF Interim, Continue, m
    <2> QED BY <2>2, <2>3
<1>11. RefusedForCause'
    <2> SUFFICES ASSUME pc' = "close"
        PROVE  /\ rc' = -2 => BodyLen(m) > BodyMax
               /\ rc' = -3 => m.expect # "none" /\ (m.minor = 1 => m.expect = "other")
               /\ rc' = -1 => Faulty(m)
        BY <1>2 DEF RefusedForCause, Faulty, m, Current
    <2> QED BY <1>3, <1>6 DEF Done, Unmet
<1> QED BY <1>7, <1>8, <1>9, <1>10, <1>11 DEF FramingInv

(* The steps to "close" have in common that they move no byte.             *)
LEMMA Closing ==
    ASSUME FramingInv, pc # "idle", pc' = "close",
           UNCHANGED <<conn, stream, wire, buf, already, interims, served>>,
           cap' \in 0..ReqMax, cap' >= cap, steps' \in 0..ReadSteps,
           rc' \in {-3, -2, -1, 0, 1, 2}, calm' \in BOOLEAN, RefusedForCause'
    PROVE  FramingInv'
<1>1. TypeOK /\ Reading /\ ZeroFits /\ Interim
    BY DEF FramingInv
<1>2. TypeOK'
    <2>1. pc' \in {"idle", "read", "recv", "serve", "close"}
        OBVIOUS
    <2> QED BY <1>1, <2>1 DEF TypeOK
<1>3. Reading'
    BY <1>1 DEF Reading
<1>4. ZeroFits'
    <2>1. Len(buf) \in Nat /\ cap \in Nat /\ cap' \in Nat /\ ReqMax \in Nat
        <3>1. buf \in Seq(Byte) /\ cap \in 0..ReqMax
            BY <1>1 DEF TypeOK
        <3>2. Len(buf) \in Nat
            BY <3>1, LenProperties
        <3> QED BY <3>1, <3>2, Limits
    <2> QED BY <1>1, <2>1 DEF ZeroFits
<1>5. Interim'
    BY <1>1 DEF Interim
<1> QED BY <1>2, <1>3, <1>4, <1>5 DEF FramingInv

LEMMA FailingKeeps ==
    ASSUME FramingInv, InterimFails \/ StepsOver \/ RecvFails \/ Hangup
    PROVE  FramingInv'
<1>1. /\ cap \in 0..ReqMax /\ steps \in 0..ReadSteps /\ rc \in {-3, -2, -1, 0, 1, 2}
      /\ ReqMax \in Nat /\ ReadSteps \in Nat
    BY Limits DEF FramingInv, TypeOK
<1>2. calm \in BOOLEAN
    BY DEF FramingInv, TypeOK
<1>3. CASE InterimFails
    <2>1. /\ pc # "idle" /\ pc' = "close" /\ steps' \in 0..ReadSteps /\ rc' = -1
          /\ UNCHANGED <<conn, stream, wire, buf, cap, already, interims, served>>
        BY <1>1, <1>3 DEF InterimFails, Done
    <2>2. calm' = FALSE
        BY <1>3 DEF InterimFails
    <2>3. RefusedForCause'
        BY <2>1, <2>2 DEF RefusedForCause
    <2>4. cap' \in 0..ReqMax /\ cap' >= cap /\ rc' \in {-3, -2, -1, 0, 1, 2}
        BY <1>1, <2>1
    <2>5. calm' \in BOOLEAN
        BY <2>2
    <2> QED BY <2>1, <2>3, <2>4, <2>5, Closing
<1>4. CASE StepsOver
    <2>1. /\ pc # "idle" /\ pc' = "close" /\ rc' = -1 /\ steps' = steps /\ steps >= ReadSteps
          /\ UNCHANGED <<conn, stream, wire, buf, cap, already, interims, served>>
        BY <1>4 DEF StepsOver, Done
    <2>2. calm' = calm
        BY <1>4 DEF StepsOver
    <2>3. RefusedForCause'
        BY <1>1, <2>1 DEF RefusedForCause
    <2> QED BY <1>1, <1>2, <2>1, <2>2, <2>3, Closing
<1>5. CASE RecvFails
    <2>1. /\ pc # "idle" /\ pc' = "close" /\ rc' \in {-1, 0} /\ steps' = steps
          /\ UNCHANGED <<conn, stream, wire, buf, already, interims, served>>
        BY <1>5 DEF RecvFails, Done
    <2>2. calm' = FALSE
        BY <1>5 DEF RecvFails
    <2>3. cap' \in {cap, Grown} /\ Need <= ReqMax
        BY <1>5 DEF RecvFails
    <2>4. Grown \in 0..ReqMax /\ cap <= Grown
        BY <2>3, GrownFits, GrownGrows DEF FramingInv
    <2>5. cap' \in 0..ReqMax /\ cap' >= cap
        BY <1>1, <2>3, <2>4
    <2>6. RefusedForCause'
        BY <2>1, <2>2 DEF RefusedForCause
    <2> QED BY <1>1, <2>1, <2>2, <2>5, <2>6, Closing
<1>6. CASE Hangup
    <2>1. /\ pc # "idle" /\ pc' = "close" /\ rc' = 1 /\ steps' = steps
          /\ UNCHANGED <<conn, stream, wire, buf, cap, already, interims, served>>
        BY <1>6 DEF Hangup, FramingInv, Reading
    <2>2. calm' = calm
        BY <1>6 DEF Hangup
    <2>3. RefusedForCause'
        BY <2>1 DEF RefusedForCause
    <2> QED BY <1>1, <1>2, <2>1, <2>2, <2>3, Closing
<1> QED BY <1>3, <1>4, <1>5, <1>6

(* A request for which the buffer cannot be made large enough is too large. *)
LEMMA ReserveFailsKeeps ==
    ASSUME FramingInv, ReserveFails
    PROVE  FramingInv'
<1>1. /\ TypeOK /\ Len(stream) <= MaxStream /\ InStep /\ Parsed \in {"more", "body"}
      /\ cap \in 0..ReqMax /\ steps \in 0..ReadSteps /\ buf \in Seq(Byte)
    BY DEF FramingInv, Reading, ReserveFails, TypeOK
<1>2. calm \in BOOLEAN
    BY DEF FramingInv, TypeOK
<1>3. /\ pc # "idle" /\ pc' = "close" /\ rc' = -2 /\ steps' = steps
      /\ UNCHANGED <<conn, stream, wire, buf, cap, already, interims, served>>
      /\ Need > ReqMax
    BY DEF ReserveFails, Done
<1>4. calm' = calm
    BY DEF ReserveFails
<1>5. Len(buf) \in Nat /\ Len(buf) >= ReqMax - Chunk /\ Len(buf) > 0
    <2>1. Len(buf) \in Nat
        BY <1>1, LenProperties
    <2> QED BY <1>3, <2>1, Limits DEF Need
<1>6. buf # <<>>
    BY <1>5, EmptySeq
<1>7. /\ Current.head \in Nat /\ Current.body \in Nat
      /\ Parsed = "more" => Len(buf) < Current.head
      /\ Parsed = "body" => Current.body > Len(buf) - Current.head
    BY <1>1, <1>6, BufferHolds, ParserSays
<1>8. Current.head + Current.body > ReqMax - Chunk
    BY <1>1, <1>5, <1>7, Limits
<1>9. RefusedForCause'
    BY <1>3, <1>8 DEF RefusedForCause, Current
<1> QED BY <1>1, <1>2, <1>3, <1>4, <1>9, Limits, Closing

LEMMA InterruptedKeeps ==
    ASSUME FramingInv, Interrupted
    PROVE  FramingInv'
<1>1. TypeOK /\ Reading /\ ZeroFits /\ Interim
    BY DEF FramingInv
<1>2. /\ pc = "recv" /\ pc' = "read" /\ cap' = Grown /\ Need <= ReqMax
      /\ UNCHANGED <<conn, stream, wire, buf, steps, already, interims, rc, calm, served>>
    BY DEF Interrupted
<1>3. Grown \in 0..ReqMax /\ Len(buf) < Grown
    BY <1>1, <1>2, GrownFits
<1>4. TypeOK'
    <2>1. pc' \in {"idle", "read", "recv", "serve", "close"} /\ cap' \in 0..ReqMax
        BY <1>2, <1>3
    <2> QED BY <1>1, <1>2, <2>1 DEF TypeOK
<1>5. Reading'
    <2>1. InStep'
        BY <1>1, <1>2, InStepFollows DEF Reading
    <2> QED BY <1>1, <1>2, <2>1 DEF Reading
<1>6. ZeroFits'
    BY <1>2, <1>3, Limits DEF ZeroFits
<1>7. Interim'
    BY <1>1, <1>2 DEF Interim
<1>8. RefusedForCause'
    BY <1>2 DEF RefusedForCause
<1> QED BY <1>4, <1>5, <1>6, <1>7, <1>8 DEF FramingInv

(* What arrives goes from the wire to the end of the buffer.               *)
LEMMA ReceiveKeeps ==
    ASSUME FramingInv, NEW n \in 1..ReqMax, Receive(n)
    PROVE  FramingInv'
<1>1. TypeOK /\ Reading /\ ZeroFits /\ Interim
    BY DEF FramingInv
<1>2. /\ pc = "recv" /\ pc' = "read" /\ cap' = Grown /\ Need <= ReqMax
      /\ n <= Room /\ n <= Len(wire)
      /\ UNCHANGED <<conn, stream, steps, already, interims, rc, calm, served>>
    BY DEF Receive
<1>3. buf' = buf \o SubSeq(wire, 1, n) /\ wire' = SubSeq(wire, n + 1, Len(wire))
    BY DEF Receive
<1>4. buf \in Seq(Byte) /\ wire \in Seq(Byte) /\ n \in Nat
    BY <1>1, Limits DEF TypeOK
<1>5. n \in 0..Len(wire)
    <2>1. Len(wire) \in Nat
        BY <1>4, LenProperties
    <2> QED BY <1>2, <1>4, <2>1
<1>6. /\ buf' \in Seq(Byte) /\ wire' \in Seq(Byte) /\ Len(buf') = Len(buf) + n
      /\ buf # <<>> => buf'[1] = buf[1]
    <2> DEFINE x == SubSeq(wire, 1, n)
    <2>1. x \in Seq(Byte) /\ Len(x) = n /\ wire' \in Seq(Byte)
        BY <1>3, <1>4, <1>5, MovedParts
    <2>2. buf' = buf \o x
        BY <1>3
    <2> HIDE DEF x
    <2> QED BY <1>4, <2>1, <2>2, Longer
<1>7. buf' \o wire' = buf \o wire
    <2>1. CutAt(buf, wire, n) = buf \o wire
        BY <1>4, <1>5, Moved
    <2>2. CutAt(buf, wire, n) = buf' \o wire'
        BY Zenon, <1>3 DEF CutAt
    <2> QED BY Zenon, <2>1, <2>2
<1>8. Grown \in 0..ReqMax /\ Len(buf) \in Nat
    BY <1>1, <1>2, GrownFits
<1>9. TypeOK'
    <2>1. pc' \in {"idle", "read", "recv", "serve", "close"} /\ cap' \in 0..ReqMax
        BY <1>2, <1>8
    <2> QED BY <1>1, <1>2, <1>6, <2>1 DEF TypeOK
<1>10. Reading'
    <2>1. InStep
        BY <1>1, <1>2 DEF Reading
    <2>2. buf' \o wire' = BytesFrom(conn', stream', served' + 1)
        <3>1. buf \o wire = BytesFrom(conn, stream, served + 1)
            BY <2>1 DEF InStep
        <3>2. conn' = conn /\ stream' = stream /\ served' = served
            BY <1>2
        <3> QED BY Zenon, <1>7, <3>1, <3>2
    <2>3. conn' \in 1..MaxConns /\ served' <= Len(stream')
        BY <1>2, <2>1 DEF InStep
    <2>4. InStep'
        BY Zenon, <2>2, <2>3 DEF InStep
    <2> QED BY <1>1, <1>2, <2>4 DEF Reading
<1>11. ZeroFits'
    <2>1. Len(buf') < Grown /\ Grown <= ReqMax
        BY <1>2, <1>4, <1>6, <1>8, Limits DEF Room
    <2> QED BY <1>2, <2>1 DEF ZeroFits
<1>12. Interim'
    <2>1. interims' \in 0..1 /\ (interims' = 1 => already')
        BY <1>1, <1>2 DEF Interim
    <2>2. ASSUME interims' = 1 PROVE buf' # <<>> /\ buf'[1].of.expect = "continue"
        <3>1. buf # <<>> /\ buf[1].of.expect = "continue"
            BY <1>1, <1>2, <2>2 DEF Interim
        <3>2. Len(buf') # 0
            BY <1>4, <1>6, <1>8
        <3>3. buf' # <<>>
            BY <3>2, EmptySeq
        <3> QED BY <1>6, <3>1, <3>3
    <2> QED BY <2>1, <2>2 DEF Interim
<1>13. RefusedForCause'
    BY <1>2 DEF RefusedForCause
<1> QED BY <1>9, <1>10, <1>11, <1>12, <1>13 DEF FramingInv

(* The message that is served, and what consume_message leaves.            *)
LEMMA ServedMessage ==
    ASSUME FramingInv, pc = "serve"
    PROVE  /\ served < Len(stream)
           /\ MessageLen = Current.head + Current.body /\ MessageLen \in Nat
           /\ MessageLen <= Len(buf)
           /\ SubSeq(buf, 1, MessageLen) = BytesOf(conn, served + 1, Current)
           /\ SubSeq(buf, MessageLen + 1, Len(buf)) \o wire
                  = BytesFrom(conn, stream, served + 2)
<1>1. /\ TypeOK /\ Len(stream) <= MaxStream /\ InStep /\ Parsed = "ok"
      /\ buf \in Seq(Byte)
    BY DEF FramingInv, Reading, TypeOK
<1>2. Len(buf) \in Nat
    BY <1>1, LenProperties
<1>3. /\ buf # <<>> /\ Len(buf) >= Current.head
      /\ HeaderEnd = Current.head /\ BodyLen(Current) = Current.body
      /\ Current.body <= Len(buf) - Current.head
    BY <1>1, ParserSays
<1>4. /\ served < Len(stream) /\ buf[1].of = Current
      /\ Current.head \in Nat /\ Current.body \in Nat
    BY <1>1, <1>3, BufferHolds
<1>5. MessageLen = Current.head + Current.body
    BY <1>3, <1>4 DEF MessageLen
<1>6. Len(buf) >= Current.head + Current.body
    BY <1>2, <1>3, <1>4
<1>7. /\ SubSeq(buf, 1, Current.head + Current.body) = BytesOf(conn, served + 1, Current)
      /\ SubSeq(buf, Current.head + Current.body + 1, Len(buf)) \o wire
             = BytesFrom(conn, stream, served + 2)
    BY <1>1, <1>3, <1>6, BufferHolds
<1>8. MessageLen \in Nat /\ MessageLen <= Len(buf)
    BY <1>2, <1>4, <1>5, <1>6
<1> QED BY <1>4, <1>5, <1>7, <1>8

LEMMA ConsumeKeeps ==
    ASSUME FramingInv, Consume
    PROVE  FramingInv'
<1>1. TypeOK /\ Reading /\ ZeroFits /\ pc = "serve" /\ served < MaxStream
    BY DEF FramingInv, Consume
<1>2. /\ buf' = SubSeq(buf, MessageLen + 1, Len(buf)) /\ served' = served + 1
      /\ UNCHANGED <<conn, stream, wire, cap>>
    BY DEF Consume
<1>3. /\ pc' = "read" /\ steps' = 0 /\ interims' = 0 /\ rc' = 2
      /\ already' = FALSE /\ calm' = TRUE
    BY DEF Consume, StartRead
<1>4. buf \in Seq(Byte) /\ stream \in Seq(Messages) /\ served \in Nat
    BY <1>1, Limits DEF TypeOK
<1>5. Len(buf) \in Nat /\ Len(stream) \in Nat
    BY <1>4, LenProperties
<1>6. served < Len(stream) /\ MessageLen \in Nat /\ MessageLen <= Len(buf)
    BY <1>1, ServedMessage
<1>7. buf' \in Seq(Byte) /\ Len(buf') <= Len(buf) /\ Len(buf') \in Nat
    <2>1. \A i \in 1..Len(buf) : buf[i] \in Byte
        BY <1>4, ElementOfSeq
    <2>2. \A i \in (MessageLen + 1)..Len(buf) : buf[i] \in Byte
        BY <1>5, <1>6, <2>1
    <2>3. MessageLen + 1 \in Int /\ Len(buf) \in Int
        BY <1>5, <1>6
    <2>4. /\ buf' \in Seq(Byte)
          /\ Len(buf') = IF MessageLen + 1 <= Len(buf) THEN Len(buf) - (MessageLen + 1) + 1 ELSE 0
        BY <1>2, <2>2, <2>3, SubSeqProperties
    <2> QED BY <1>5, <1>6, <2>4
<1>8. TypeOK'
    <2>1. served' \in 0..MaxStream /\ steps' \in 0..ReadSteps /\ interims' \in Nat
        BY <1>1, <1>2, <1>3, <1>4, Limits
    <2>2. /\ already' \in BOOLEAN /\ calm' \in BOOLEAN /\ rc' \in {-3, -2, -1, 0, 1, 2}
          /\ pc' \in {"idle", "read", "recv", "serve", "close"}
        BY <1>3
    <2> QED BY <1>1, <1>2, <1>7, <2>1, <2>2 DEF TypeOK
<1>9. Reading'
    <2>1. SubSeq(buf, MessageLen + 1, Len(buf)) \o wire = BytesFrom(conn, stream, served + 2)
        BY <1>1, ServedMessage
    <2>2. served' + 1 = served + 2 /\ served' <= Len(stream')
        BY <1>2, <1>4, <1>5, <1>6
    <2>3. buf' \o wire' = BytesFrom(conn', stream', served' + 1)
        <3>1. wire' = wire /\ conn' = conn /\ stream' = stream
            BY <1>2
        <3>2. buf' \o wire' = SubSeq(buf, MessageLen + 1, Len(buf)) \o wire
            BY Zenon, <1>2, <3>1
        <3>3. BytesFrom(conn', stream', served' + 1) = BytesFrom(conn, stream, served + 2)
            BY Zenon, <2>2, <3>1
        <3> QED BY Zenon, <2>1, <3>2, <3>3
    <2>4. conn' \in 1..MaxConns
        BY <1>1, <1>2 DEF Reading, InStep
    <2>5. InStep'
        BY Zenon, <2>2, <2>3, <2>4 DEF InStep
    <2> QED BY <1>1, <1>2, <1>3, <2>5 DEF Reading
<1>10. ZeroFits'
    <2>1. cap \in Nat
        BY <1>1, Limits DEF TypeOK
    <2>2. ASSUME buf' # <<>> PROVE Len(buf') < cap' /\ cap' <= ReqMax
        <3>1. Len(buf') # 0
            BY <1>7, <2>2, EmptySeq
        <3>2. buf # <<>>
            <4>1. Len(buf) # 0
                BY <1>5, <1>7, <3>1
            <4> QED BY <4>1, EmptySeq
        <3> QED BY <1>1, <1>2, <1>5, <1>7, <2>1, <3>2 DEF ZeroFits
    <2> QED BY <2>2 DEF ZeroFits
<1>11. Interim' /\ RefusedForCause'
    BY <1>3 DEF Interim, RefusedForCause
<1> QED BY <1>8, <1>9, <1>10, <1>11 DEF FramingInv

LEMMA CloseKeeps ==
    ASSUME FramingInv, Close
    PROVE  FramingInv'
<1>1. TypeOK /\ Interim
    BY DEF FramingInv
<1>2. /\ pc' = "idle" /\ stream' = <<>> /\ wire' = <<>> /\ buf' = <<>> /\ cap' = 0
      /\ UNCHANGED <<conn, steps, already, interims, rc, calm, served>>
    BY DEF Close
<1>3. <<>> \in Seq(Byte) /\ <<>> \in Seq(Messages) /\ Len(<<>>) = 0
    BY EmptySeq
<1>4. TypeOK'
    <2>1. /\ pc' \in {"idle", "read", "recv", "serve", "close"} /\ cap' \in 0..ReqMax
          /\ stream' \in Seq(Messages) /\ wire' \in Seq(Byte) /\ buf' \in Seq(Byte)
        BY <1>2, <1>3, Limits
    <2> QED BY <1>1, <1>2, <2>1 DEF TypeOK
<1>5. Reading'
    BY <1>2, <1>3, Limits DEF Reading
<1>6. ZeroFits' /\ RefusedForCause'
    BY <1>2 DEF ZeroFits, RefusedForCause
<1>7. Interim'
    BY <1>1, <1>2 DEF Interim
<1> QED BY <1>4, <1>5, <1>6, <1>7 DEF FramingInv

LEMMA StutterKeeps ==
    ASSUME FramingInv, UNCHANGED vars
    PROVE  FramingInv'
<1>1. /\ UNCHANGED <<conn, stream, wire, buf, cap, pc>>
      /\ UNCHANGED <<steps, already, interims, rc, calm, served>>
    BY DEF vars
<1>2. Parsed' = Parsed /\ (InStep => InStep')
    BY <1>1, ParsedFollows, InStepFollows
<1>3. TypeOK'
    BY <1>1 DEF FramingInv, TypeOK
<1>4. Reading'
    BY <1>1, <1>2 DEF FramingInv, Reading
<1>5. ZeroFits' /\ Interim'
    BY <1>1 DEF FramingInv, ZeroFits, Interim
<1>6. RefusedForCause'
    BY <1>1 DEF FramingInv, RefusedForCause
<1> QED BY <1>3, <1>4, <1>5, <1>6 DEF FramingInv

-----------------------------------------------------------------------------
(* The theorems.                                                           *)

LEMMA StepKeeps ==
    ASSUME FramingInv, [Next]_vars
    PROVE  FramingInv'
<1>1. CASE \E s \in Streams : Connect(s)
    BY <1>1, ConnectKeeps
<1>2. CASE ParseRound
    BY <1>2, ParseRoundKeeps
<1>3. CASE InterimFails \/ StepsOver \/ RecvFails \/ Hangup
    BY <1>3, FailingKeeps
<1>4. CASE ReserveFails
    BY <1>4, ReserveFailsKeeps
<1>5. CASE \E n \in 1..ReqMax : Receive(n)
    BY <1>5, ReceiveKeeps
<1>6. CASE Interrupted
    BY <1>6, InterruptedKeeps
<1>7. CASE Consume
    BY <1>7, ConsumeKeeps
<1>8. CASE Close
    BY <1>8, CloseKeeps
<1>9. CASE UNCHANGED vars
    BY <1>9, StutterKeeps
<1> QED BY <1>1, <1>2, <1>3, <1>4, <1>5, <1>6, <1>7, <1>8, <1>9 DEF Next, Worker, Over

(* The invariant holds in every state: no read, parse, consume or close    *)
(* puts the buffer out of step with its client's stream.                   *)
THEOREM FramingInvariant == Spec => []FramingInv
<1>1. FramingInv /\ [Next]_vars => FramingInv'
    BY StepKeeps
<1> QED BY FramingInvInit, <1>1, PTL DEF Spec

(* The state of a worker's read has its type: the buffer holds bytes that  *)
(* a client sent and is never larger than SERVER_REQ_MAX, and no read      *)
(* takes more than SERVER_READ_STEPS rounds.                               *)
THEOREM FramingTypeCorrect == Spec => []TypeOK
<1>1. FramingInv => TypeOK
    BY DEF FramingInv
<1> QED BY FramingInvariant, <1>1, PTL

(* Client and server stay in step (Framed): what is served is the next     *)
(* message that the client sent, from its first byte to its last, for any  *)
(* messages, any way of cutting the stream into reads and any bytes that   *)
(* were read ahead.                                                        *)
THEOREM ClientAndServerInStep == Spec => []Framed
<1>1. FramingInv => Framed
    <2> SUFFICES ASSUME FramingInv PROVE Framed
        OBVIOUS
    <2>1. pc = "serve" =>
            /\ MessageLen = stream[served + 1].head + stream[served + 1].body
            /\ SubSeq(buf, 1, MessageLen) = BytesOf(conn, served + 1, stream[served + 1])
        BY ServedMessage DEF Current
    <2>2. pc \in {"read", "recv", "serve"} =>
            buf \o wire = BytesFrom(conn, stream, served + 1)
        BY DEF FramingInv, Reading, InStep
    <2>3. interims <= 1 /\ (interims = 1 /\ pc # "idle" => buf[1].of.expect = "continue")
        BY DEF FramingInv, Interim
    <2> QED BY <2>1, <2>2, <2>3 DEF Framed
<1> QED BY FramingInvariant, <1>1, PTL

(* The terminating zero that read_request and consume_message write is     *)
(* inside the buffer (ZeroFits), for any limits with ReqMax > Chunk.       *)
THEOREM TerminatorFits == Spec => []ZeroFits
<1>1. FramingInv => ZeroFits
    BY DEF FramingInv
<1> QED BY FramingInvariant, <1>1, PTL

(* 400, 413 and 417 are only for messages that deserve them                *)
(* (RefusedForCause), for any messages and limits.                         *)
THEOREM RefusalsHaveCause == Spec => []RefusedForCause
<1>1. FramingInv => RefusedForCause
    BY DEF FramingInv
<1> QED BY FramingInvariant, <1>1, PTL
=============================================================================
