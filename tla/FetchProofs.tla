---------------------------- MODULE FetchProofs -----------------------------
(* That the outbound client accepts a framed reply whole or not at all,    *)
(* refuses a good one only for a reason and leaves no socket behind, for   *)
(* any replies, requests and limits.                                       *)
EXTENDS Fetch, TLAPS, SequenceTheorems, WellFoundedInduction

-----------------------------------------------------------------------------
(* The replies.                                                            *)

Header == [k : HeaderKinds, v : Nat]

LEMMA LeastOfNat ==
    ASSUME NEW T \in SUBSET Nat, T # {}
    PROVE  \E x \in T : \A y \in T : x <= y
<1>1. PICK x \in T : \A y \in T : ~(<<y, x>> \in OpToRel(<, Nat))
    BY NatLessThanWellFounded, WFMin
<1>2. \A y \in T : ~(y < x)
    BY <1>1 DEF OpToRel
<1> QED BY <1>2

LEMMA ReplyType ==
    ASSUME NEW r \in Replies
    PROVE  /\ r.headers \in Seq(Header) /\ Len(r.headers) \in Nat
           /\ DOMAIN r.headers = 1..Len(r.headers)
           /\ \A i \in 1..Len(r.headers) :
                 r.headers[i] \in Header /\ r.headers[i].k \in HeaderKinds
                 /\ r.headers[i].v \in Nat
           /\ r.ends \in Seq(Nat \ {0}) /\ Len(r.ends) \in Nat
           /\ DOMAIN r.ends = 1..Len(r.ends)
<1>1. r \in Reply
    BY FetchAssumption
<1>2. r.headers \in Seq(Header) /\ r.ends \in Seq(Nat \ {0})
    BY <1>1 DEF Reply, Header
<1>3. /\ Len(r.headers) \in Nat /\ DOMAIN r.headers = 1..Len(r.headers)
      /\ Len(r.ends) \in Nat /\ DOMAIN r.ends = 1..Len(r.ends)
    BY <1>2, LenProperties
<1>4. ASSUME NEW i \in 1..Len(r.headers)
      PROVE  r.headers[i] \in Header /\ r.headers[i].k \in HeaderKinds /\ r.headers[i].v \in Nat
    <2>1. r.headers[i] \in Header
        BY <1>2, ElementOfSeq
    <2> QED BY <2>1 DEF Header
<1> QED BY <1>2, <1>3, <1>4

(* Where the chunks of the body end.                                       *)
LEMMA Ends ==
    ASSUME NEW r \in Replies
    PROVE  /\ \A i \in 0..(Len(r.ends) + 1) : End(r, i) \in Nat /\ Behind(r, i) \in Nat
                                              /\ Behind(r, i) = End(r, i) + 2 * i
           /\ End(r, 0) = 0 /\ Behind(r, 0) = 0
           /\ End(r, Len(r.ends)) = Total(r) /\ End(r, Len(r.ends) + 1) = Total(r)
           /\ \A i, j \in 0..Len(r.ends) : i < j => End(r, i) < End(r, j)
           /\ \A i, j \in 0..(Len(r.ends) + 1) : i < j => End(r, i) <= End(r, j)
<1> DEFINE N == Len(r.ends)
           e == r.ends
<1>1. e \in Seq(Nat \ {0}) /\ N \in Nat /\ DOMAIN e = 1..N
    BY ReplyType
<1>2. Increasing(e)
    BY FetchAssumption
<1>3. \A i \in 1..N : e[i] \in Nat \ {0}
    BY <1>1, ElementOfSeq
<1>4. \A i, j \in 1..N : i < j => e[i] < e[j]
    BY <1>1, <1>2 DEF Increasing
<1>5. Total(r) = IF N = 0 THEN 0 ELSE e[N]
    <2>1. N = 0 <=> e = <<>>
        BY <1>1, EmptySeq
    <2>2. Last(e) = e[N]
        BY DEF Last
    <2> QED BY <2>1, <2>2 DEF Total
<1>6. \A i : End(r, i) = IF i \in 1..N THEN e[i] ELSE IF i = 0 THEN 0 ELSE Total(r)
    BY <1>1 DEF End
<1>7. \A i : Behind(r, i) = End(r, i) + 2 * i
    BY DEF Behind
<1> HIDE DEF N, e
<1>8. End(r, 0) = 0 /\ End(r, N) = Total(r) /\ End(r, N + 1) = Total(r)
    BY <1>1, <1>5, <1>6
<1>9. Total(r) \in Nat
    BY <1>1, <1>3, <1>5
<1>10. \A i \in 0..(N + 1) : End(r, i) \in Nat
    BY <1>1, <1>3, <1>6, <1>9
<1>11. ASSUME NEW i \in 0..(N + 1) PROVE Behind(r, i) \in Nat
    <2>1. End(r, i) \in Nat /\ i \in Nat
        BY <1>1, <1>10
    <2> QED BY <1>7, <2>1
<1>12. ASSUME NEW i \in 0..N, NEW j \in 0..N, i < j PROVE End(r, i) < End(r, j)
    <2>1. j \in 1..N /\ End(r, j) = e[j]
        BY <1>1, <1>6, <1>12
    <2>2. CASE i = 0
        BY <1>3, <1>8, <2>1, <2>2
    <2>3. CASE i # 0
        <3>1. i \in 1..N /\ End(r, i) = e[i]
            BY <1>1, <1>6, <2>3
        <3> QED BY <1>4, <1>12, <2>1, <3>1
    <2> QED BY <2>2, <2>3
<1>13. ASSUME NEW i \in 0..(N + 1), NEW j \in 0..(N + 1), i < j PROVE End(r, i) <= End(r, j)
    <2>1. i \in 0..N
        BY <1>1, <1>13
    <2>2. CASE j \in 0..N
        BY <1>10, <1>12, <1>13, <2>1, <2>2
    <2>3. CASE j = N + 1
        <3>1. i = N \/ End(r, i) < End(r, N)
            BY <1>1, <1>12, <2>1
        <3> QED BY <1>1, <1>8, <1>10, <2>1, <2>3, <3>1
    <2> QED BY <1>1, <2>2, <2>3
<1>14. Behind(r, 0) = 0
    BY <1>7, <1>8
<1> QED BY <1>7, <1>8, <1>10, <1>11, <1>12, <1>13, <1>14 DEF N

(* The chunk that an item belongs to.                                      *)
LEMMA ChunkFound ==
    ASSUME NEW r \in Replies, NEW i \in ChunkNumbers(r),
           NEW p \in (Behind(r, i - 1) + 1)..Behind(r, i)
    PROVE  ChunkOf(r, p) = i
<1> DEFINE N == Len(r.ends)
<1>1. N \in Nat /\ ChunkNumbers(r) = 1..(N + 1)
    BY ReplyType DEF ChunkNumbers
<1>a. \A k \in 0..(N + 1) : Behind(r, k) \in Nat
    BY Ends
<1>b. \A j, k \in 0..(N + 1) : j < k => End(r, j) <= End(r, k)
    BY Ends
<1>2. \A k \in 0..(N + 1) : End(r, k) \in Nat /\ Behind(r, k) = End(r, k) + 2 * k
    BY Ends
<1> HIDE DEF N
<1>3. ASSUME NEW j \in 0..(N + 1), NEW k \in 0..(N + 1), j < k
      PROVE  Behind(r, j) <= Behind(r, k)
    <2>1. End(r, j) \in Nat /\ Behind(r, j) = End(r, j) + 2 * j
        BY <1>2
    <2>2. End(r, k) \in Nat /\ Behind(r, k) = End(r, k) + 2 * k
        BY <1>2
    <2>3. End(r, j) <= End(r, k)
        BY <1>b, <1>3
    <2>4. j \in Nat /\ k \in Nat
        BY <1>1
    <2> QED BY <1>3, <2>1, <2>2, <2>3, <2>4
<1>4. p \in Nat
    <2>1. i \in 0..(N + 1) /\ i - 1 \in 0..(N + 1)
        BY <1>1
    <2>2. End(r, i) \in Nat /\ End(r, i - 1) \in Nat /\ i \in Nat /\ i - 1 \in Nat
        BY <1>1, <1>2, <2>1
    <2>3. Behind(r, i) \in Nat /\ Behind(r, i - 1) \in Nat
        BY <1>2, <2>1, <2>2
    <2> QED BY <2>3
<1>5. ASSUME NEW k \in 1..(N + 1), p \in (Behind(r, k - 1) + 1)..Behind(r, k)
      PROVE  k = i
    <2>1. i - 1 \in 0..(N + 1) /\ k - 1 \in 0..(N + 1) /\ i \in 1..(N + 1)
        BY <1>1, <1>5
    <2>2. /\ Behind(r, i - 1) \in Nat /\ Behind(r, k - 1) \in Nat
          /\ Behind(r, i) \in Nat /\ Behind(r, k) \in Nat
        BY <1>1, <1>a, <2>1
    <2>3. ~(i < k)
        <3>1. SUFFICES ASSUME i < k PROVE FALSE
            OBVIOUS
        <3>2. i = k - 1 \/ i < k - 1
            BY <1>1, <2>1, <3>1
        <3>3. Behind(r, i) <= Behind(r, k - 1)
            BY <1>1, <1>3, <2>1, <2>2, <3>2
        <3> QED BY <1>4, <1>5, <2>2, <3>3
    <2>4. ~(k < i)
        <3>1. SUFFICES ASSUME k < i PROVE FALSE
            OBVIOUS
        <3>2. k = i - 1 \/ k < i - 1
            BY <1>1, <2>1, <3>1
        <3>3. Behind(r, k) <= Behind(r, i - 1)
            BY <1>1, <1>3, <2>1, <2>2, <3>2
        <3> QED BY <1>4, <1>5, <2>2, <3>3
    <2> QED BY <1>1, <2>1, <2>3, <2>4
<1>6. i \in 1..(N + 1)
    BY <1>1
<1> QED BY <1>1, <1>5, <1>6 DEF ChunkOf
(* The items of a chunked body, by chunks.                                 *)
LEMMA ChunkItems ==
    ASSUME NEW r \in Replies, r.chunked, NEW i \in ChunkNumbers(r)
    PROVE  /\ Behind(r, i - 1) \in Nat /\ Behind(r, i) \in Nat
           /\ End(r, i - 1) \in Nat /\ End(r, i) \in Nat /\ End(r, i - 1) <= End(r, i)
           /\ Behind(r, i) = Behind(r, i - 1) + (End(r, i) - End(r, i - 1)) + 2
           /\ Behind(r, i - 1) = End(r, i - 1) + 2 * (i - 1)
           /\ Behind(r, i) <= Behind(r, Len(r.ends) + 1)
           /\ Payload(r)[Behind(r, i - 1) + 1] = Item("size", End(r, i) - End(r, i - 1))
           /\ Payload(r)[Behind(r, i)] = Item("eol", 0)
           /\ \A d \in 1..(End(r, i) - End(r, i - 1)) :
                 Payload(r)[Behind(r, i - 1) + 1 + d] = Item("data", End(r, i - 1) + d)
<1> DEFINE N == Len(r.ends)
           b == Behind(r, i - 1)
           c == Behind(r, i)
           e == End(r, i - 1)
           f == End(r, i)
           L == Behind(r, Len(r.ends) + 1)
<1>1. N \in Nat /\ i \in 1..(N + 1)
    BY ReplyType DEF ChunkNumbers
<1>2. i \in 0..(N + 1) /\ i - 1 \in 0..(N + 1) /\ N + 1 \in 0..(N + 1) /\ i - 1 < i
    BY <1>1
<1>3. b \in Nat /\ c \in Nat /\ e \in Nat /\ f \in Nat /\ L \in Nat
    BY <1>2, Ends
<1>4. b = e + 2 * (i - 1) /\ c = f + 2 * i /\ L = End(r, N + 1) + 2 * (N + 1)
    BY <1>2, Ends
<1>5. e <= f /\ (i = N + 1 \/ f <= End(r, N + 1))
    <2>1. i = N + 1 \/ i < N + 1
        BY <1>1
    <2>2. \A j, k \in 0..(N + 1) : j < k => End(r, j) <= End(r, k)
        BY Ends
    <2> QED BY <1>2, <2>1, <2>2
<1>6. Payload(r) = [p \in 1..L |-> ChunkItem(r, ChunkOf(r, p), p)]
    BY DEF Payload
<1> HIDE DEF N, b, c, e, f, L
<1>7. c = b + (f - e) + 2
    BY <1>1, <1>3, <1>4
<1>8. c <= L
    <2>1. CASE i = N + 1
        BY <1>3, <2>1 DEF c, L, N
    <2>2. CASE i # N + 1
        <3>1. End(r, N + 1) \in Nat
            BY <1>2, Ends DEF N
        <3> QED BY <1>1, <1>3, <1>4, <1>5, <2>2, <3>1
    <2> QED BY <2>1, <2>2
<1>9. ASSUME NEW p \in (b + 1)..c
      PROVE  Payload(r)[p] = IF p = b + 1 THEN Item("size", f - e)
                             ELSE IF p = c THEN Item("eol", 0)
                             ELSE Item("data", p - 2 * i + 1)
    <2>1. p \in 1..L
        BY <1>3, <1>8
    <2>2. ChunkOf(r, p) = i
        BY <1>9, ChunkFound DEF b, c
    <2>3. Payload(r)[p] = ChunkItem(r, i, p)
        BY <1>6, <2>1, <2>2
    <2> QED BY <2>3 DEF ChunkItem, b, c, e, f
<1>10. Payload(r)[b + 1] = Item("size", f - e)
    <2>1. b + 1 \in (b + 1)..c
        BY <1>3, <1>5, <1>7
    <2> QED BY <1>9, <2>1
<1>11. Payload(r)[c] = Item("eol", 0)
    <2>1. c \in (b + 1)..c /\ c # b + 1
        BY <1>3, <1>5, <1>7
    <2> QED BY <1>9, <2>1
<1>12. ASSUME NEW d \in 1..(f - e) PROVE Payload(r)[b + 1 + d] = Item("data", e + d)
    <2>1. b + 1 + d \in (b + 1)..c /\ b + 1 + d # b + 1 /\ b + 1 + d # c
        BY <1>3, <1>5, <1>7
    <2>2. (b + 1 + d) - 2 * i + 1 = e + d
        BY <1>1, <1>3, <1>4
    <2> QED BY <1>9, <2>1, <2>2
<1> QED BY <1>3, <1>4, <1>5, <1>7, <1>8, <1>10, <1>11, <1>12 DEF b, c, e, f, L

(* The payload is a sequence of items.                                     *)
LEMMA BytesType ==
    ASSUME NEW n \in Nat
    PROVE  /\ Bytes(0, n) \in Seq(Items) /\ Len(Bytes(0, n)) = n
           /\ \A i \in 1..n : Bytes(0, n)[i] = Item("data", i)
<1> DEFINE b == Bytes(0, n)
<1>1. b = [i \in 1..n |-> Item("data", 0 + i)]
    BY DEF Bytes
<1>2. \A i \in 1..n : 0 + i = i /\ i \in Nat
    OBVIOUS
<1>3. \A i \in 1..n : b[i] = Item("data", i)
    BY <1>1, <1>2
<1>4. \A i \in 1..n : Item("data", 0 + i) \in Items
    BY <1>2 DEF Item, Items
<1>5. b \in [1..n -> Items]
    BY <1>1, <1>4
<1> HIDE DEF b
<1>6. b \in Seq(Items) /\ Len(b) = n
    BY <1>5, SeqDef
<1> QED BY <1>3, <1>6 DEF b

LEMMA ChunkExists ==
    ASSUME NEW r \in Replies, NEW p \in 1..Behind(r, Len(r.ends) + 1)
    PROVE  \E i \in ChunkNumbers(r) : p \in (Behind(r, i - 1) + 1)..Behind(r, i)
<1> DEFINE N == Len(r.ends)
           T == {i \in 1..(N + 1) : p <= Behind(r, i)}
<1>1. N \in Nat /\ ChunkNumbers(r) = 1..(N + 1)
    BY ReplyType DEF ChunkNumbers
<1>2. /\ \A k \in 0..(N + 1) : Behind(r, k) \in Nat
      /\ Behind(r, 0) = 0
    BY Ends
<1>3. Behind(r, N + 1) \in Nat /\ p \in Nat /\ p >= 1 /\ p <= Behind(r, N + 1)
    BY <1>1, <1>2
<1> HIDE DEF N
<1>4. N + 1 \in T /\ T \in SUBSET Nat
    BY <1>1, <1>3
<1>5. PICK i \in T : \A y \in T : i <= y
    BY <1>4, LeastOfNat
<1>6. i \in 1..(N + 1) /\ p <= Behind(r, i) /\ i - 1 \in 0..(N + 1)
    BY <1>1, <1>5
<1>7. i - 1 \notin T
    BY <1>1, <1>5, <1>6
<1>8. p > Behind(r, i - 1)
    <2>1. CASE i = 1
        BY <1>2, <1>3, <2>1
    <2>2. CASE i # 1
        <3>1. i - 1 \in 1..(N + 1)
            BY <1>1, <1>6, <2>2
        <3>2. Behind(r, i - 1) \in Nat
            BY <1>2, <1>6
        <3> QED BY <1>3, <1>7, <3>1, <3>2
    <2> QED BY <2>1, <2>2
<1>9. Behind(r, i - 1) \in Nat /\ Behind(r, i) \in Nat
    BY <1>1, <1>2, <1>6
<1>10. p \in (Behind(r, i - 1) + 1)..Behind(r, i)
    BY <1>3, <1>6, <1>8, <1>9
<1> QED BY <1>1, <1>6, <1>10

LEMMA PayloadType ==
    ASSUME NEW r \in Replies
    PROVE  /\ Payload(r) \in Seq(Items) /\ Total(r) \in Nat
           /\ Len(Payload(r)) = IF r.chunked THEN Behind(r, Len(r.ends) + 1) ELSE Total(r)
<1>1. Len(r.ends) \in Nat
    BY ReplyType
<1>2. /\ Len(r.ends) + 1 \in 0..(Len(r.ends) + 1)
    BY <1>1
<1>3. Total(r) \in Nat /\ Behind(r, Len(r.ends) + 1) \in Nat
    BY <1>2, Ends
<1>4. CASE ~r.chunked
    <2>1. Payload(r) = Bytes(0, Total(r))
        BY <1>4 DEF Payload
    <2> QED BY <1>3, <1>4, <2>1, BytesType
<1>5. CASE r.chunked
    <2> DEFINE L == Behind(r, Len(r.ends) + 1)
               s == Payload(r)
    <2>1. s = [p \in 1..L |-> ChunkItem(r, ChunkOf(r, p), p)]
        BY <1>5 DEF Payload
    <2>2. ASSUME NEW p \in 1..L PROVE s[p] \in Items
        <3>1. PICK i \in ChunkNumbers(r) : p \in (Behind(r, i - 1) + 1)..Behind(r, i)
            BY ChunkExists
        <3> DEFINE b == Behind(r, i - 1)
                   c == Behind(r, i)
                   e == End(r, i - 1)
                   f == End(r, i)
        <3>2. /\ b \in Nat /\ c \in Nat /\ e \in Nat /\ f \in Nat /\ e <= f
              /\ c = b + (f - e) + 2
              /\ Payload(r)[b + 1] = Item("size", f - e)
              /\ Payload(r)[c] = Item("eol", 0)
              /\ \A d \in 1..(f - e) : Payload(r)[b + 1 + d] = Item("data", e + d)
            BY <1>5, ChunkItems
        <3>3. \A v \in Nat : /\ Item("size", v) \in Items /\ Item("eol", v) \in Items
                             /\ Item("data", v) \in Items
            BY DEF Item, Items
        <3>4. p \in (b + 1)..c
            BY <3>1
        <3> HIDE DEF b, c, e, f, s
        <3>5. CASE p = b + 1
            BY <3>2, <3>3, <3>5 DEF s
        <3>6. CASE p = c
            BY <3>2, <3>3, <3>6 DEF s
        <3>7. CASE p # b + 1 /\ p # c
            <4>1. p - b - 1 \in 1..(f - e) /\ b + 1 + (p - b - 1) = p /\ e + (p - b - 1) \in Nat
                BY <3>2, <3>4, <3>7
            <4>2. s[b + 1 + (p - b - 1)] = Item("data", e + (p - b - 1))
                BY <3>2, <4>1 DEF s
            <4> QED BY <3>3, <4>1, <4>2
        <3> QED BY <3>5, <3>6, <3>7
    <2>3. L \in Nat
        BY <1>3
    <2> HIDE DEF L, s
    <2>4. s \in [1..L -> Items]
        BY <2>1, <2>2
    <2>5. s \in Seq(Items) /\ Len(s) = L
        BY <2>3, <2>4, SeqDef
    <2> QED BY <1>3, <1>5, <2>5 DEF s, L
<1> QED BY <1>4, <1>5

(* The elements of a concatenation.                                        *)
Join(u, v) == u \o v

IsJoin(w, u, v) ==
    /\ w \in Seq(Items) /\ Len(w) = Len(u) + Len(v)
    /\ \A i \in 1..Len(u) : w[i] = u[i]
    /\ \A i \in 1..Len(v) : w[Len(u) + i] = v[i]

LEMMA Joined ==
    ASSUME NEW u \in Seq(Items), NEW v \in Seq(Items)
    PROVE  IsJoin(Join(u, v), u, v)
<1> DEFINE w == u \o v
<1>0. Join(u, v) = w
    BY DEF Join
<1>1. Len(u) \in Nat /\ Len(v) \in Nat
    BY LenProperties
<1>2. \A i \in 1..(Len(u) + Len(v)) : w[i] = IF i <= Len(u) THEN u[i] ELSE v[i - Len(u)]
    BY ConcatProperties
<1>3. w \in Seq(Items) /\ Len(w) = Len(u) + Len(v)
    BY ConcatProperties
<1> HIDE DEF w
<1>4. \A i \in 1..Len(u) : w[i] = u[i]
    BY <1>1, <1>2
<1>5. ASSUME NEW i \in 1..Len(v) PROVE w[Len(u) + i] = v[i]
    <2>1. Len(u) + i \in 1..(Len(u) + Len(v)) /\ ~(Len(u) + i <= Len(u))
          /\ (Len(u) + i) - Len(u) = i
        BY <1>1
    <2> QED BY <1>2, <2>1
<1> QED BY <1>0, <1>3, <1>4, <1>5 DEF IsJoin

(* A sequence put together as Encoded is.                                  *)
FourOf(a, h, b, p) == <<a>> \o h \o <<b>> \o p

AreParts(x, a, h, b, p) ==
    /\ x \in Seq(Items)
    /\ Len(x) = Len(h) + 2 + Len(p)
    /\ x[1] = a /\ x[Len(h) + 2] = b
    /\ \A i \in 1..Len(h) : x[i + 1] = h[i]
    /\ \A i \in 1..Len(p) : x[Len(h) + 2 + i] = p[i]

LEMMA FourParts ==
    ASSUME NEW a \in Items, NEW h \in Seq(Items), NEW b \in Items, NEW p \in Seq(Items)
    PROVE  AreParts(FourOf(a, h, b, p), a, h, b, p)
<1> DEFINE x == FourOf(a, h, b, p)
           s1 == <<a>>
           s2 == Join(s1, h)
           s3 == <<b>>
           s4 == Join(s2, s3)
<1>1. Len(h) \in Nat /\ Len(p) \in Nat
    BY LenProperties
<1>2. s1 \in Seq(Items) /\ Len(s1) = 1 /\ s1[1] = a
    OBVIOUS
<1>3. s3 \in Seq(Items) /\ Len(s3) = 1 /\ s3[1] = b
    OBVIOUS
<1>4. x = Join(s4, p)
    BY Zenon DEF FourOf, Join
<1> HIDE DEF s1, s3, x
<1>a. s1 \in Seq(Items)
    BY <1>2
<1>b. s3 \in Seq(Items)
    BY <1>3
<1>5. /\ s2 \in Seq(Items) /\ Len(s2) = Len(s1) + Len(h)
      /\ \A i \in 1..Len(s1) : s2[i] = s1[i]
      /\ \A i \in 1..Len(h) : s2[Len(s1) + i] = h[i]
    <2>1. IsJoin(s2, s1, h)
        BY <1>a, Joined
    <2> QED BY <2>1 DEF IsJoin
<1> HIDE DEF s2
<1>c. s2 \in Seq(Items)
    BY <1>5
<1>6. /\ s4 \in Seq(Items) /\ Len(s4) = Len(s2) + Len(s3)
      /\ \A i \in 1..Len(s2) : s4[i] = s2[i]
      /\ \A i \in 1..Len(s3) : s4[Len(s2) + i] = s3[i]
    <2>1. IsJoin(s4, s2, s3)
        BY <1>b, <1>c, Joined
    <2> QED BY <2>1 DEF IsJoin
<1> HIDE DEF s4
<1>d. s4 \in Seq(Items)
    BY <1>6
<1>7. /\ x \in Seq(Items) /\ Len(x) = Len(s4) + Len(p)
      /\ \A i \in 1..Len(s4) : x[i] = s4[i]
      /\ \A i \in 1..Len(p) : x[Len(s4) + i] = p[i]
    <2>1. IsJoin(x, s4, p)
        BY <1>4, <1>d, Joined
    <2> QED BY <2>1 DEF IsJoin
<1>8. Len(s2) = Len(h) + 1 /\ Len(s4) = Len(h) + 2 /\ Len(x) = Len(h) + 2 + Len(p)
    BY <1>1, <1>2, <1>3, <1>5, <1>6, <1>7
<1>9. x[1] = a
    <2>1. 1 \in 1..Len(s4) /\ 1 \in 1..Len(s2) /\ 1 \in 1..Len(s1)
        BY <1>1, <1>2, <1>8
    <2>2. x[1] = s4[1] /\ s4[1] = s2[1] /\ s2[1] = s1[1]
        BY Zenon, <1>5, <1>6, <1>7, <2>1
    <2> QED BY Zenon, <1>2, <2>2
<1>10. x[Len(h) + 2] = b
    <2>1. Len(h) + 2 \in 1..Len(s4) /\ 1 \in 1..Len(s3) /\ Len(s2) + 1 = Len(h) + 2
        BY <1>1, <1>3, <1>8
    <2>2. x[Len(h) + 2] = s4[Len(h) + 2] /\ s4[Len(s2) + 1] = s3[1]
        BY Zenon, <1>6, <1>7, <2>1
    <2> QED BY Zenon, <1>3, <2>1, <2>2
<1>11. ASSUME NEW i \in 1..Len(h) PROVE x[i + 1] = h[i]
    <2>1. i + 1 \in 1..Len(s4) /\ i + 1 \in 1..Len(s2) /\ Len(s1) + i = i + 1
        BY <1>1, <1>2, <1>8
    <2>2. x[i + 1] = s4[i + 1] /\ s4[i + 1] = s2[i + 1] /\ s2[Len(s1) + i] = h[i]
        BY Zenon, <1>5, <1>6, <1>7, <2>1
    <2> QED BY Zenon, <2>1, <2>2
<1>12. \A i \in 1..Len(p) : x[Len(h) + 2 + i] = p[i]
    BY Zenon, <1>7, <1>8
<1> QED BY <1>7, <1>8, <1>9, <1>10, <1>11, <1>12 DEF x, AreParts

HeadLen(r) == Len(r.headers) + 2

(* What is where in an encoded reply.                                      *)
LEMMA EncodedShape ==
    ASSUME NEW r \in Replies
    PROVE  /\ Encoded(r) \in Seq(Items) /\ HeadLen(r) \in Nat
           /\ Len(Payload(r)) \in Nat
           /\ Len(Encoded(r)) = HeadLen(r) + Len(Payload(r))
           /\ Encoded(r)[1].v = (IF r.status THEN 1 ELSE 0)
           /\ \A i \in 1..Len(r.headers) : Encoded(r)[i + 1] = r.headers[i]
           /\ Encoded(r)[HeadLen(r)].k = "blank"
           /\ \A i \in 1..Len(Payload(r)) : Encoded(r)[HeadLen(r) + i] = Payload(r)[i]
<1> DEFINE a == Item("status", IF r.status THEN 1 ELSE 0)
           b == Item("blank", 0)
           x == Encoded(r)
           h == r.headers
           p == Payload(r)
<1>1. p \in Seq(Items)
    BY PayloadType
<1>2. h \in Seq(Header) /\ Len(h) \in Nat
    BY ReplyType
<1>3. h \in Seq(Items)
    <2>1. Header \subseteq Items
        BY DEF Header, Items
    <2>2. \A i \in 1..Len(h) : h[i] \in Items
        BY <1>2, <2>1, ElementOfSeq
    <2>3. h \in [1..Len(h) -> Items]
        BY <1>2, <2>2, LenProperties, SeqDef
    <2> QED BY <1>2, <2>3, SeqDef
<1>4. a \in Items /\ b \in Items
    BY DEF Item, Items
<1>5. x = FourOf(a, h, b, p)
    BY Zenon DEF Encoded, FourOf
<1>6. a.v = (IF r.status THEN 1 ELSE 0) /\ b.k = "blank"
    BY DEF Item
<1>7. Len(p) \in Nat
    BY <1>1, LenProperties
<1> HIDE DEF a, b, x, h, p
<1>8. /\ x \in Seq(Items) /\ Len(x) = Len(h) + 2 + Len(p)
      /\ x[1] = a /\ x[Len(h) + 2] = b
      /\ \A i \in 1..Len(h) : x[i + 1] = h[i]
      /\ \A i \in 1..Len(p) : x[Len(h) + 2 + i] = p[i]
    <2>1. AreParts(x, a, h, b, p)
        BY <1>1, <1>3, <1>4, <1>5, FourParts
    <2> QED BY <2>1 DEF AreParts
<1>9. HeadLen(r) = Len(h) + 2 /\ HeadLen(r) \in Nat
    BY <1>2 DEF HeadLen, h
<1>10. /\ Len(x) = HeadLen(r) + Len(p)
       /\ x[1].v = (IF r.status THEN 1 ELSE 0)
       /\ x[HeadLen(r)].k = "blank"
       /\ \A i \in 1..Len(p) : x[HeadLen(r) + i] = p[i]
    BY <1>6, <1>8, <1>9
<1> QED BY <1>7, <1>8, <1>9, <1>10 DEF x, h, p

-----------------------------------------------------------------------------
(* The inductive invariant.                                                *)

(* The socket is open while it is used and TLS is for those who asked.     *)
Channel ==
    /\ pc \notin {"connecting", "tls", "send", "read"} => fds = {} /\ ~ssl
    /\ pc = "connecting" => fds = {tried} /\ ~ssl
    /\ pc \in {"tls", "send", "read"} => fds = {tried}
    /\ ssl \/ pc = "tls" => req.secure

Parsing == {"status", "lines", "chunks", "take"}
Early == {"start", "resolve", "address", "connecting", "tls", "send", "read"}

(* A reply is parsed after the peer has ended the stream; the whole of it  *)
(* is there when nothing went wrong.                                       *)
Ended ==
    /\ pc \in Parsing => ended = "closed" \/ req.secure
    /\ pc \in Parsing /\ calm => Len(wire) = Len(Stream)
    /\ pc # "done" => result.code = None

(* w is the beginning of s.                                                *)
Begins(w, s) == Len(w) <= Len(s) /\ \A i \in 1..Len(w) : w[i] = s[i]

(* What parse_reply knows after the first n header lines.                  *)
HeadRead(r, n, d, c) ==
    /\ r.status
    /\ \A i \in 1..n : r.headers[i].k \notin {"badLength", "badEncoding"}
    /\ d = -1 => \A i \in 1..n : r.headers[i].k # "length"
    /\ d # -1 => \E i \in 1..n : /\ r.headers[i].k = "length" /\ r.headers[i].v = d
                                 /\ \A j \in 1..n : r.headers[j].k = "length" => j = i
    /\ c <=> \E i \in 1..n : r.headers[i].k = "chunked"

(* The body is at its place, up to n bytes.                                *)
Decoded(w, b, n) ==
    /\ b + n <= Len(w)
    /\ \A i \in 1..n : w[b + i] = Item("data", i)

(* What is behind p is still as it was received.                           *)
Untouched(w, s, p) == Len(w) <= Len(s) /\ \A i \in (p + 1)..Len(w) : w[i] = s[i]

(* Where the parser is in the reply, and what it has found so far.         *)
Reading ==
    /\ pc \in Early \cup {"status"} =>
          Begins(wire, Stream) /\ declared = -1 /\ ~chunked
    /\ pc = "lines" =>
          /\ Begins(wire, Stream)
          /\ at \in 1..(Len(reply.headers) + 1) /\ steps = at - 1
          /\ HeadRead(reply, steps, declared, chunked)
    /\ pc \in {"chunks", "take"} =>
          /\ HeadRead(reply, Len(reply.headers), declared, chunked)
          /\ base = HeadLen(reply) /\ Decoded(wire, base, put)
    /\ pc = "chunks" =>
          /\ chunked /\ declared = -1
          /\ steps \in 0..Len(reply.ends)
          /\ put = End(reply, steps) /\ at = base + Behind(reply, steps)
          /\ Untouched(wire, Stream, at)
    /\ pc = "take" =>
          /\ chunked => declared = -1 /\ put = Total(reply)
          /\ ~chunked => IF declared # -1 THEN put = declared ELSE put <= Total(reply)

FetchInv == TypeOK /\ Channel /\ Ended /\ Reading /\ Intact /\ RefusedForCause

-----------------------------------------------------------------------------
(* Steps that only wait or move on, and steps that fail.                   *)

Promise == Ended /\ Reading /\ Intact /\ RefusedForCause

LEMMA NoneIsNoCode == None # "OK" /\ None \notin Codes
BY FetchAssumption DEF Codes

Quiet ==
    /\ pc \in Early /\ pc' \in Early
    /\ UNCHANGED <<inputs, ended, wire, parseVars, result>>

LEMMA QuietKeeps ==
    ASSUME FetchInv, Quiet
    PROVE  Promise'
<1>1. pc # "done" /\ pc' # "done" /\ pc' \notin Parsing
    BY DEF Quiet, Early, Parsing
<1>2. result.code = None /\ result' = result
    BY <1>1 DEF FetchInv, Ended, Quiet
<1>3. Ended'
    BY <1>1, <1>2 DEF Ended
<1>4. Reading'
    <2>1. pc' \notin {"status", "lines", "chunks", "take"}
        BY <1>1 DEF Parsing
    <2>2. Begins(wire, Stream) /\ declared = -1 /\ ~chunked
        BY DEF FetchInv, Reading, Quiet
    <2>3. wire' = wire /\ Stream' = Stream /\ declared' = declared /\ chunked' = chunked
        BY DEF Quiet, inputs, parseVars, Stream
    <2>4. Begins(wire', Stream') /\ declared' = -1 /\ ~chunked'
        BY <2>2, <2>3
    <2> QED BY <2>1, <2>4 DEF Reading
<1>5. Intact'
    BY <1>2, NoneIsNoCode DEF Intact
<1>6. RefusedForCause'
    BY <1>1 DEF RefusedForCause
<1> QED BY <1>3, <1>4, <1>5, <1>6 DEF Promise

(* The reasons to refuse a reply.                                          *)
Cause ==
    \/ Rejection # None
    \/ ~WellFormed(reply) \/ ~WithinLimits(reply)
    \/ Len(Meant(reply)) > Total(reply)

LEMMA CauseKept ==
    ASSUME UNCHANGED inputs, Cause
    PROVE  Cause'
<1>1. /\ req' = req /\ allow' = allow /\ denyLocal' = denyLocal /\ tls' = tls
      /\ reply' = reply
    BY DEF inputs
<1>2. Rejection' = Rejection
    BY <1>1 DEF Rejection, HostAllowed
<1> QED BY <1>1, <1>2 DEF Cause

LEMMA FailKeeps ==
    ASSUME FetchInv, NEW code \in Codes \ {"OK"}, Fail(code), UNCHANGED inputs,
           ~calm' \/ Cause
    PROVE  Promise'
<1>1. pc' = "done" /\ result'.code = code /\ result'.code # "OK"
    BY DEF Fail
<1>2. Ended'
    BY <1>1 DEF Ended, Parsing
<1>3. Reading'
    BY <1>1 DEF Reading, Early
<1>4. Intact'
    BY <1>1 DEF Intact
<1>5. RefusedForCause'
    BY CauseKept DEF RefusedForCause, Cause
<1> QED BY <1>2, <1>3, <1>4, <1>5 DEF Promise

LEMMA Limits ==
    /\ MaxAddrs \in Nat /\ Budget \in Nat /\ TlsRounds \in Nat /\ SendSteps \in Nat
    /\ ReadSteps \in Nat /\ MaxBody \in Nat /\ MaxLines \in Nat /\ MaxChunks \in Nat
    /\ MaxWire \in Nat /\ MaxWire > 0
    /\ \A h \in Hosts : h \in Seq(AddressKinds)
    /\ \A q \in Requests : q.head \in Nat /\ q.body \in Nat
BY FetchAssumption DEF Request

(* Rejection is a code that is not OK, or None.                            *)
LEMMA RejectionType == Rejection \in (Codes \cup {None}) \ {"OK"}
BY NoneIsNoCode DEF Rejection, Codes

(* Every failing step leaves the variables in their types.                 *)
LEMMA FailTypes ==
    ASSUME TypeOK, NEW code \in Codes, Fail(code), calm' \in BOOLEAN,
           fds' \subseteq fds, ssl' \in BOOLEAN, ended' \in {"open", "closed", "cut"},
           UNCHANGED <<inputs, addrs, tried, blocked, left, steps, sent, wire, parseVars>>
    PROVE  TypeOK'
<1>1. result' \in [code : Codes \cup {None}, body : Seq(Items)]
    <2>1. <<>> \in Seq(Items)
        OBVIOUS
    <2> QED BY <2>1 DEF Fail
<1>2. fds' \subseteq 1..MaxAddrs
    BY DEF TypeOK
<1>3. pc' = "done"
    BY DEF Fail
<1> QED BY <1>1, <1>2, <1>3 DEF TypeOK, inputs, parseVars

LEMMA FailCloses ==
    ASSUME Channel, NEW code, Fail(code), UNCHANGED inputs,
           Close \/ (UNCHANGED <<fds, ssl>> /\ pc \notin {"connecting", "tls", "send", "read"})
    PROVE  Channel'
<1>1. fds' = {} /\ ~ssl'
    BY DEF Channel, Close
<1> QED BY <1>1 DEF Channel, Fail

LEMMA RejectKeeps ==
    ASSUME FetchInv, Reject PROVE FetchInv'
<1>1. Rejection \in Codes \ {"OK"} /\ Fail(Rejection) /\ Rejection # None
    BY RejectionType DEF Reject
<1>2. TypeOK'
    <2>1. /\ calm' \in BOOLEAN /\ fds' \subseteq fds /\ ssl' \in BOOLEAN
          /\ ended' \in {"open", "closed", "cut"}
          /\ UNCHANGED <<inputs, addrs, tried, blocked, left, steps, sent, wire, parseVars>>
        BY DEF Reject, chanVars, FetchInv, TypeOK
    <2> QED BY <1>1, <2>1, FailTypes DEF FetchInv
<1>3. Channel'
    <2>1. UNCHANGED <<fds, ssl>> /\ pc = "start" /\ UNCHANGED inputs
        BY DEF Reject, chanVars
    <2> QED BY <1>1, <2>1, FailCloses DEF FetchInv
<1>4. Promise'
    <2>1. UNCHANGED inputs /\ Cause
        BY <1>1 DEF Reject, Cause
    <2> QED BY <1>1, <2>1, FailKeeps
<1> QED BY <1>2, <1>3, <1>4 DEF FetchInv, Promise

(* Failures with no cause in the request or the reply.                     *)
Trouble ==
    /\ calm' = FALSE
    /\ \E code \in Codes \ {"OK"} : Fail(code)
    /\ UNCHANGED <<inputs, left, steps, sent, wire, parseVars>>
    /\ UNCHANGED <<addrs, tried, blocked>> /\ ended' \in {"open", "closed", "cut"}
    /\ Close \/ (UNCHANGED <<fds, ssl>> /\ pc \notin {"connecting", "tls", "send", "read"})

LEMMA TroubleKeeps ==
    ASSUME FetchInv, Trouble PROVE FetchInv'
<1>1. PICK code \in Codes \ {"OK"} : Fail(code)
    BY DEF Trouble
<1>2. TypeOK'
    <2>1. /\ calm' \in BOOLEAN /\ ended' \in {"open", "closed", "cut"}
          /\ UNCHANGED <<inputs, addrs, tried, blocked, left, steps, sent, wire, parseVars>>
        BY DEF Trouble, FetchInv, TypeOK
    <2>2. fds' \subseteq fds /\ ssl' \in BOOLEAN
        BY DEF Trouble, FetchInv, TypeOK, Close
    <2> QED BY <1>1, <2>1, <2>2, FailTypes DEF FetchInv
<1>3. Channel'
    BY <1>1, FailCloses DEF FetchInv, Trouble
<1>4. Promise'
    BY <1>1, FailKeeps DEF Trouble
<1> QED BY <1>2, <1>3, <1>4 DEF FetchInv, Promise

LEMMA TroubleSteps ==
    ASSUME FetchInv,
           ClockFails \/ NoHost \/ NoAddress \/ TlsFails \/ SendFails \/ ReadFails \/ TakeFails
    PROVE  Trouble
<1>0. ended \in {"open", "closed", "cut"}
    BY DEF FetchInv, TypeOK
<1>1. {"TIMEOUT", "NO_HOST", "BLOCKED", "NO_CONNECT", "NO_TLS", "TLS_FAILED", "TOO_LARGE"}
        \subseteq Codes \ {"OK"}
    BY DEF Codes
<1>2. CASE ClockFails
    BY <1>0, <1>1, <1>2 DEF ClockFails, Trouble, chanVars
<1>3. CASE NoHost
    BY <1>0, <1>1, <1>3 DEF NoHost, Trouble, chanVars
<1>4. CASE NoAddress
    BY <1>0, <1>1, <1>4 DEF NoAddress, Trouble, chanVars
<1>5. CASE TlsFails
    BY <1>0, <1>1, <1>5 DEF TlsFails, Trouble, Close
<1>6. CASE SendFails
    BY <1>0, <1>1, <1>6 DEF SendFails, Trouble, Close
<1>7. CASE ReadFails
    BY <1>0, <1>1, <1>7 DEF ReadFails, Trouble, Close
<1>8. CASE TakeFails
    BY <1>0, <1>1, <1>8 DEF TakeFails, Trouble, idleVars, chanVars
<1> QED BY <1>2, <1>3, <1>4, <1>5, <1>6, <1>7, <1>8

-----------------------------------------------------------------------------
(* The steps before a reply is parsed.                                     *)

QuietStep ==
    \/ Start \/ Tick \/ Resolve \/ SkipAddress \/ OpenSocket \/ Connected
    \/ ConnectFails \/ TlsRound \/ TlsDone \/ ReadAgain
    \/ \E n \in 0..(req.head + req.body) : Send(n)

LEMMA QuietSteps ==
    ASSUME FetchInv, QuietStep PROVE Quiet
<1>1. CASE Start
    BY <1>1 DEF Start, Quiet, Early
<1>2. CASE Tick
    BY <1>2 DEF Tick, Quiet, Early
<1>3. CASE Resolve
    BY <1>3 DEF Resolve, Quiet, Early
<1>4. CASE SkipAddress
    BY <1>4 DEF SkipAddress, Quiet, Early
<1>5. CASE OpenSocket
    BY <1>5 DEF OpenSocket, Quiet, Early
<1>6. CASE Connected
    BY <1>6 DEF Connected, Quiet, Early
<1>7. CASE ConnectFails
    BY <1>7 DEF ConnectFails, Quiet, Early
<1>8. CASE TlsRound
    BY <1>8 DEF TlsRound, Quiet, Early
<1>9. CASE TlsDone
    BY <1>9 DEF TlsDone, Quiet, Early
<1>10. CASE ReadAgain
    BY <1>10 DEF ReadAgain, CanRead, Quiet, Early
<1>11. ASSUME NEW n \in 0..(req.head + req.body), Send(n) PROVE Quiet
    BY <1>11 DEF Send, Quiet, Early
<1> QED BY <1>1, <1>2, <1>3, <1>4, <1>5, <1>6, <1>7, <1>8, <1>9, <1>10, <1>11 DEF QuietStep

(* The part of the type that only the quiet steps change.                  *)
EarlyTypes ==
    /\ addrs \in Seq(AddressKinds) /\ tried \in 0..MaxAddrs
    /\ blocked \in BOOLEAN /\ fds \subseteq 1..MaxAddrs /\ ssl \in BOOLEAN
    /\ left \in 0..Budget /\ steps \in Nat
    /\ sent \in 0..(req.head + req.body) /\ calm \in BOOLEAN

LEMMA EarlyTyped ==
    ASSUME TypeOK, Quiet, EarlyTypes' PROVE TypeOK'
<1>1. pc' \in {"start", "resolve", "address", "connecting", "tls", "send", "read"}
    BY DEF Quiet, Early
<1> QED BY <1>1 DEF TypeOK, EarlyTypes, Quiet, inputs, parseVars

LEMMA EarlyKept ==
    ASSUME TypeOK PROVE EarlyTypes /\ req.head \in Nat /\ req.body \in Nat
BY Limits DEF TypeOK, EarlyTypes

LEMMA QuietChannel ==
    ASSUME FetchInv, QuietStep PROVE EarlyTypes' /\ Channel'
<1>0. EarlyTypes /\ Channel /\ req.head \in Nat /\ req.body \in Nat
    BY EarlyKept DEF FetchInv
<1>1. CASE Start
    BY <1>0, <1>1 DEF Start, EarlyTypes, Channel, inputs, chanVars
<1>2. CASE Tick
    <2>1. left' \in 0..Budget
        BY <1>0, <1>2, Limits DEF Tick, EarlyTypes
    <2> QED BY <1>0, <1>2, <2>1 DEF Tick, EarlyTypes, Channel, inputs, chanVars
<1>3. CASE Resolve
    <2>1. addrs' \in Seq(AddressKinds)
        BY <1>3, Limits DEF Resolve
    <2> QED BY <1>0, <1>3, <2>1 DEF Resolve, EarlyTypes, Channel, inputs
<1>a. ASSUME MoreAddresses, NextAddress
      PROVE  addrs' \in Seq(AddressKinds) /\ tried' \in 1..MaxAddrs /\ tried' = tried + 1
    <2>1. tried + 1 \in 1..MaxAddrs
        BY <1>0, <1>a, Limits DEF MoreAddresses, EarlyTypes
    <2>2. Tail(addrs) \in Seq(AddressKinds)
        BY <1>0, <1>a, HeadTailProperties DEF MoreAddresses, EarlyTypes
    <2> QED BY <1>a, <2>1, <2>2 DEF NextAddress
<1>4. CASE SkipAddress
    <2>1. addrs' \in Seq(AddressKinds) /\ tried' \in 0..MaxAddrs
        BY <1>4, <1>a, Limits DEF SkipAddress
    <2>2. blocked' \in BOOLEAN /\ calm' \in BOOLEAN
        BY <1>0, <1>4 DEF SkipAddress, EarlyTypes
    <2> QED BY <1>0, <1>4, <2>1, <2>2 DEF SkipAddress, EarlyTypes, Channel, inputs
<1>5. CASE OpenSocket
    <2>1. addrs' \in Seq(AddressKinds) /\ tried' \in 0..MaxAddrs /\ tried' \in 1..MaxAddrs
          /\ tried' = tried + 1
        BY <1>5, <1>a, Limits DEF OpenSocket
    <2>2. fds = {} /\ ~ssl
        BY <1>0, <1>5 DEF OpenSocket, Channel
    <2>3. fds' = {tried'} /\ ~ssl'
        BY <1>5, <2>1, <2>2 DEF OpenSocket
    <2> QED BY <1>0, <1>5, <2>1, <2>3 DEF OpenSocket, EarlyTypes, Channel, inputs
<1>6. CASE Connected
    BY <1>0, <1>6 DEF Connected, EarlyTypes, Channel, inputs, chanVars
<1>7. CASE ConnectFails
    BY <1>0, <1>7 DEF ConnectFails, EarlyTypes, Channel, inputs
<1>8. CASE TlsRound
    BY <1>0, <1>8 DEF TlsRound, EarlyTypes, Channel, inputs
<1>9. CASE TlsDone
    BY <1>0, <1>9 DEF TlsDone, EarlyTypes, Channel, inputs
<1>10. CASE ReadAgain
    BY <1>0, <1>10 DEF ReadAgain, EarlyTypes, Channel, inputs, chanVars
<1>11. ASSUME NEW n \in 0..(req.head + req.body), Send(n) PROVE EarlyTypes' /\ Channel'
    <2>1. SendEnd \in Nat /\ SendEnd <= req.head + req.body
        BY <1>0 DEF SendEnd
    <2>2. sent' \in 0..(req.head + req.body) /\ steps' \in Nat
        BY <1>0, <1>11, <2>1 DEF Send, EarlyTypes
    <2>3. req' = req /\ UNCHANGED chanVars /\ left' = left /\ calm' = calm
        BY <1>11 DEF Send, inputs
    <2>4. EarlyTypes'
        BY <1>0, <2>2, <2>3 DEF EarlyTypes, chanVars
    <2>5. pc = "send" /\ pc' \in {"read", "send"}
        BY <1>11 DEF Send
    <2>6. Channel'
        BY <1>0, <2>3, <2>5 DEF Channel, chanVars
    <2> QED BY <2>4, <2>6
<1> QED BY <1>1, <1>2, <1>3, <1>4, <1>5, <1>6, <1>7, <1>8, <1>9, <1>10, <1>11 DEF QuietStep

LEMMA QuietInv ==
    ASSUME FetchInv, QuietStep PROVE FetchInv'
<1>1. Quiet
    BY QuietSteps
<1>2. TypeOK' /\ Channel'
    BY <1>1, QuietChannel, EarlyTyped DEF FetchInv
<1> QED BY <1>1, <1>2, QuietKeeps DEF FetchInv, Promise

LEMMA StreamType ==
    ASSUME TypeOK
    PROVE  /\ Stream \in Seq(Items) /\ Len(Stream) \in Nat
           /\ wire \in Seq(Items) /\ Len(wire) \in Nat /\ DOMAIN wire = 1..Len(wire)
           /\ \A i \in 1..Len(wire) : wire[i] \in Items /\ wire[i].v \in Nat
           /\ reply \in Replies
<1>1. reply \in Replies /\ wire \in Seq(Items)
    BY DEF TypeOK
<1>2. Stream \in Seq(Items)
    BY <1>1, EncodedShape DEF Stream
<1>3. Len(Stream) \in Nat /\ Len(wire) \in Nat /\ DOMAIN wire = 1..Len(wire)
    BY <1>1, <1>2, LenProperties
<1>4. ASSUME NEW i \in 1..Len(wire) PROVE wire[i] \in Items /\ wire[i].v \in Nat
    <2>1. wire[i] \in Items
        BY <1>1, ElementOfSeq
    <2> QED BY <2>1 DEF Items
<1> QED BY <1>1, <1>2, <1>3, <1>4

LEMMA Cut ==
    ASSUME NEW s \in Seq(Items), NEW n \in 0..Len(s)
    PROVE  /\ SubSeq(s, 1, n) \in Seq(Items) /\ Len(SubSeq(s, 1, n)) = n
           /\ Begins(SubSeq(s, 1, n), s)
<1>1. Len(s) \in Nat
    BY LenProperties
<1>2. 1 \in 1..(Len(s) + 1) /\ n \in 0..Len(s) /\ 1 \in Int /\ n \in Int
    BY <1>1
<1> DEFINE w == SubSeq(s, 1, n)
<1>3. /\ w \in Seq(Items)
      /\ Len(w) = (IF 1 <= n THEN n - 1 + 1 ELSE 0)
      /\ \A i \in 1..(n - 1 + 1) : w[i] = s[1 + i - 1]
    BY <1>1, <1>2, SubSeqProperties
<1> HIDE DEF w
<1>4. Len(w) = n
    BY <1>1, <1>3
<1>5. \A i \in 1..n : w[i] = s[i]
    BY <1>1, <1>3
<1>6. Begins(w, s)
    BY <1>1, <1>4, <1>5 DEF Begins
<1> QED BY <1>3, <1>4, <1>6 DEF w

LEMMA ReadSomeKeeps ==
    ASSUME FetchInv, NEW n \in 1..Len(Stream), ReadSome(n) PROVE FetchInv'
<1> DEFINE m == Len(wire) + n
<1>1. /\ Stream \in Seq(Items) /\ Len(Stream) \in Nat /\ Len(wire) \in Nat
    BY StreamType DEF FetchInv
<1>2. /\ pc = "read" /\ pc' = "read" /\ wire' = SubSeq(Stream, 1, m)
      /\ n <= MaxWire - Len(wire) - 1 /\ m <= Len(Stream) /\ steps' = steps + 1
      /\ UNCHANGED <<inputs, chanVars, ended, left, sent, parseVars, result, calm>>
    BY DEF ReadSome, CanRead
<1>3. m \in 0..Len(Stream) /\ m < MaxWire /\ Len(wire) <= m /\ m \in Nat
    BY <1>1, <1>2, Limits
<1>4. wire' \in Seq(Items) /\ Len(wire') = m /\ Begins(wire', Stream)
    BY <1>1, <1>2, <1>3, Cut
<1>5. TypeOK'
    <2>1. at' \in 0..Len(wire') /\ base' \in 0..Len(wire')
        BY <1>1, <1>2, <1>3, <1>4 DEF FetchInv, TypeOK, parseVars
    <2>2. steps' \in Nat
        BY <1>2 DEF FetchInv, TypeOK
    <2> QED BY <1>2, <1>3, <1>4, <2>1, <2>2 DEF FetchInv, TypeOK, inputs, chanVars, parseVars
<1>6. Channel'
    BY <1>2 DEF FetchInv, Channel, chanVars, inputs
<1>7. result.code = None /\ result' = result
    BY <1>2 DEF FetchInv, Ended
<1>8. Ended'
    BY <1>2, <1>7 DEF Ended, Parsing
<1>9. Reading'
    <2>1. declared = -1 /\ ~chunked /\ declared' = declared /\ chunked' = chunked
        BY <1>2 DEF FetchInv, Reading, Early, parseVars
    <2>2. Stream' = Stream
        BY <1>2 DEF Stream, inputs
    <2> QED BY <1>2, <1>4, <2>1, <2>2 DEF Reading
<1>10. Intact'
    BY <1>7, NoneIsNoCode DEF Intact
<1>11. RefusedForCause'
    BY <1>2 DEF RefusedForCause
<1> QED BY <1>5, <1>6, <1>8, <1>9, <1>10, <1>11 DEF FetchInv

LEMMA ReadEndKeeps ==
    ASSUME FetchInv, ReadEnd PROVE FetchInv'
<1>1. /\ pc = "read" /\ pc' = "status" /\ Close
      /\ ended' \in {"closed", "cut"} /\ (ended' = "closed" \/ ssl)
      /\ calm' = (calm /\ Len(wire) = Len(Stream) /\ ended' = "closed")
      /\ UNCHANGED <<inputs, left, steps, sent, wire, parseVars, result>>
    BY DEF ReadEnd, CanRead
<1>2. UNCHANGED <<addrs, tried, blocked>> /\ fds' = {} /\ ssl' = FALSE
    BY <1>1 DEF Close
<1>3. TypeOK'
    <2>1. calm' \in BOOLEAN
        BY <1>1
    <2>2. fds' \subseteq 1..MaxAddrs /\ ssl' \in BOOLEAN
        BY <1>2
    <2> QED BY <1>1, <1>2, <2>1, <2>2 DEF FetchInv, TypeOK, inputs, parseVars
<1>4. Channel'
    BY <1>1, <1>2 DEF Channel
<1>5. result.code = None /\ result' = result
    BY <1>1 DEF FetchInv, Ended
<1>6. Stream' = Stream /\ req' = req /\ wire' = wire
    BY <1>1 DEF Stream, inputs
<1>7. Ended'
    <2>1. ended' = "closed" \/ req'.secure
        BY <1>1, <1>6 DEF FetchInv, Channel
    <2>2. calm' => Len(wire') = Len(Stream')
        BY <1>1, <1>6
    <2> QED BY <1>5, <2>1, <2>2 DEF Ended
<1>8. Reading'
    <2>1. Begins(wire, Stream) /\ declared = -1 /\ ~chunked
        BY <1>1 DEF FetchInv, Reading, Early
    <2>2. declared' = declared /\ chunked' = chunked
        BY <1>1 DEF parseVars
    <2> QED BY <1>1, <1>6, <2>1, <2>2 DEF Reading
<1>9. Intact'
    BY <1>5, NoneIsNoCode DEF Intact
<1>10. RefusedForCause'
    BY <1>1 DEF RefusedForCause
<1> QED BY <1>3, <1>4, <1>7, <1>8, <1>9, <1>10 DEF FetchInv

LEMMA ReadTooLargeKeeps ==
    ASSUME FetchInv, ReadTooLarge PROVE FetchInv'
<1>1. /\ Len(Stream) \in Nat /\ Len(wire) \in Nat
    BY StreamType DEF FetchInv
<1>2. /\ pc = "read" /\ Len(wire) + 1 >= MaxWire /\ Close /\ Fail("TOO_LARGE")
      /\ UNCHANGED <<inputs, ended, left, steps, sent, wire, parseVars, calm>>
    BY DEF ReadTooLarge
<1>3. Len(wire) <= Len(Stream)
    BY <1>2 DEF FetchInv, Reading, Early, Begins
<1>4. Cause
    <2>1. ~(Len(Stream) < MaxWire - 1)
        BY <1>1, <1>2, <1>3, Limits
    <2> QED BY <2>1 DEF Cause, WithinLimits, Stream
<1>5. "TOO_LARGE" \in Codes \ {"OK"}
    BY DEF Codes
<1>6. TypeOK'
    <2>1. /\ calm' \in BOOLEAN /\ fds' \subseteq fds /\ ssl' \in BOOLEAN
          /\ ended' \in {"open", "closed", "cut"}
          /\ UNCHANGED <<inputs, addrs, tried, blocked, left, steps, sent, wire, parseVars>>
        BY <1>2 DEF Close, FetchInv, TypeOK
    <2> QED BY <1>2, <1>5, <2>1, FailTypes DEF FetchInv
<1>7. Channel'
    BY <1>2, FailCloses DEF FetchInv
<1>8. Promise'
    BY <1>2, <1>4, <1>5, FailKeeps
<1> QED BY <1>6, <1>7, <1>8 DEF FetchInv, Promise

-----------------------------------------------------------------------------
(* The steps of the parser.                                                *)

LEMMA ParseFails ==
    ASSUME FetchInv, pc \in Parsing, NEW code \in Codes \ {"OK"}, Fail(code),
           UNCHANGED <<idleVars, steps, wire, parseVars, calm>>, calm => Cause
    PROVE  FetchInv'
<1>1. UNCHANGED <<inputs, chanVars, ended, left, sent>>
    BY DEF idleVars
<1>2. TypeOK'
    <2>1. /\ calm' \in BOOLEAN /\ fds' \subseteq fds /\ ssl' \in BOOLEAN
          /\ ended' \in {"open", "closed", "cut"}
          /\ UNCHANGED <<inputs, addrs, tried, blocked, left, steps, sent, wire, parseVars>>
        BY <1>1 DEF chanVars, FetchInv, TypeOK
    <2> QED BY <2>1, FailTypes DEF FetchInv
<1>3. Channel'
    <2>1. UNCHANGED <<fds, ssl>> /\ pc \notin {"connecting", "tls", "send", "read"}
        BY <1>1 DEF chanVars, Parsing
    <2> QED BY <1>1, <2>1, FailCloses DEF FetchInv
<1>4. Promise'
    <2>1. ~calm' \/ Cause
        OBVIOUS
    <2> QED BY <1>1, <2>1, FailKeeps
<1> QED BY <1>2, <1>3, <1>4 DEF FetchInv, Promise

(* A step from one place of the parser to another.                         *)
ParseOn ==
    /\ pc \in Parsing /\ pc' \in Parsing
    /\ UNCHANGED <<idleVars, result, calm>>
    /\ wire' \in Seq(Items) /\ Len(wire') = Len(wire)
    /\ at' \in 0..Len(wire) /\ base' \in 0..Len(wire) /\ put' \in 0..MaxBody
    /\ declared' \in {-1} \cup Nat /\ chunked' \in BOOLEAN /\ steps' \in Nat

LEMMA ParseGoesOn ==
    ASSUME FetchInv, ParseOn, Reading' PROVE FetchInv'
<1>1. UNCHANGED <<inputs, chanVars, ended, left, sent, result, calm>> /\ Len(wire') = Len(wire)
    BY DEF ParseOn, idleVars
<1>2. pc' \in Parsing /\ pc \in Parsing /\ pc' # "done" /\ pc # "done"
    BY DEF ParseOn, Parsing
<1>3. TypeOK'
    BY <1>1 DEF FetchInv, TypeOK, ParseOn, Parsing, inputs, chanVars
<1>4. Channel'
    BY <1>1, <1>2 DEF FetchInv, Channel, Parsing, inputs, chanVars
<1>5. Stream' = Stream /\ req' = req
    BY <1>1 DEF Stream, inputs
<1>6. result.code = None /\ result' = result
    BY <1>1, <1>2 DEF FetchInv, Ended
<1>7. Ended'
    BY <1>1, <1>2, <1>5, <1>6 DEF FetchInv, Ended
<1>8. Intact'
    BY <1>6, NoneIsNoCode DEF Intact
<1>9. RefusedForCause'
    BY <1>2 DEF RefusedForCause
<1> QED BY <1>3, <1>4, <1>7, <1>8, <1>9 DEF FetchInv

LEMMA StatusKeeps ==
    ASSUME FetchInv, StatusLine PROVE FetchInv'
<1>1. /\ Stream \in Seq(Items) /\ Len(Stream) \in Nat /\ Len(wire) \in Nat
      /\ wire \in Seq(Items) /\ reply \in Replies
    BY StreamType DEF FetchInv
<1>2. pc = "status" /\ pc \in Parsing
    BY DEF StatusLine, Parsing
<1>3. Begins(wire, Stream) /\ declared = -1 /\ ~chunked
    BY <1>2 DEF FetchInv, Reading
<1>4. /\ Len(Stream) >= 2 /\ Stream[1].v = (IF reply.status THEN 1 ELSE 0)
      /\ Len(reply.headers) \in Nat
    <2>1. /\ Len(Stream) = HeadLen(reply) + Len(Payload(reply)) /\ Len(Payload(reply)) \in Nat
          /\ Stream[1].v = (IF reply.status THEN 1 ELSE 0)
        BY <1>1, EncodedShape DEF Stream
    <2>2. Len(reply.headers) \in Nat
        BY <1>1, ReplyType
    <2> QED BY <2>1, <2>2 DEF HeadLen
<1>5. CASE wire # <<>> /\ wire[1].v = 1
    <2>1. /\ pc' = "lines" /\ at' = 1 /\ steps' = 0
          /\ UNCHANGED <<idleVars, wire, put, base, declared, chunked, result, calm>>
        BY <1>5 DEF StatusLine
    <2>2. Len(wire) >= 1
        BY <1>1, <1>5, EmptySeq
    <2>3. wire[1] = Stream[1]
        BY <1>1, <1>3, <2>2 DEF Begins
    <2>4. reply.status
        BY <1>4, <1>5, <2>3
    <2>5. ParseOn
        <3>1. /\ put \in 0..MaxBody /\ base \in 0..Len(wire) /\ chunked \in BOOLEAN
            BY DEF FetchInv, TypeOK
        <3> QED BY <1>1, <1>2, <1>3, <2>1, <2>2, <3>1 DEF ParseOn, Parsing
    <2>6. Reading'
        <3>1. HeadRead(reply, 0, -1, FALSE)
            BY <2>4 DEF HeadRead
        <3>2. reply' = reply /\ Stream' = Stream
            BY <2>1 DEF idleVars, inputs, Stream
        <3>3. HeadRead(reply', steps', declared', chunked')
            <4>1. chunked' = FALSE
                BY <1>3, <2>1 DEF FetchInv, TypeOK
            <4> QED BY <1>3, <2>1, <3>1, <3>2, <4>1
        <3>4. Begins(wire', Stream')
            BY <1>3, <2>1, <3>2
        <3>5. at' \in 1..(Len(reply'.headers) + 1) /\ steps' = at' - 1
            BY <1>4, <2>1, <3>2
        <3> QED BY <2>1, <3>3, <3>4, <3>5 DEF Reading, Early
    <2> QED BY <2>5, <2>6, ParseGoesOn
<1>6. CASE ~(wire # <<>> /\ wire[1].v = 1)
    <2>1. BadReply
        BY <1>6 DEF StatusLine
    <2>2. "BAD_REPLY" \in Codes \ {"OK"}
        BY DEF Codes
    <2>3. ASSUME calm PROVE Cause
        <3>1. Len(wire) = Len(Stream)
            BY <1>2, <2>3 DEF FetchInv, Ended
        <3>2. wire # <<>>
            BY <1>1, <1>4, <3>1, EmptySeq
        <3>3. wire[1] = Stream[1]
            BY <1>1, <1>3, <1>4, <3>1 DEF Begins
        <3>4. ~reply.status
            BY <1>4, <1>6, <3>2, <3>3
        <3> QED BY <3>4 DEF Cause, WellFormed
    <2> QED BY <1>2, <2>1, <2>2, <2>3, ParseFails DEF BadReply
<1> QED BY <1>5, <1>6

(* Where the parser is in the head, and what the next line is.             *)
LEMMA InTheHead ==
    ASSUME FetchInv, pc = "lines"
    PROVE  /\ Len(wire) \in Nat /\ Len(Stream) \in Nat /\ Len(reply.headers) \in Nat
           /\ at \in 1..(Len(reply.headers) + 1) /\ steps = at - 1 /\ at \in Nat
           /\ Begins(wire, Stream) /\ Len(wire) <= Len(Stream)
           /\ HeadRead(reply, steps, declared, chunked)
           /\ reply \in Replies /\ pc \in Parsing
           /\ Len(Stream) = HeadLen(reply) + Len(Payload(reply))
           /\ Len(Payload(reply)) \in Nat
           /\ calm => Len(wire) = Len(Stream) /\ at < Len(wire)
<1>1. /\ Len(wire) \in Nat /\ Len(Stream) \in Nat /\ reply \in Replies
    BY StreamType DEF FetchInv
<1>2. Len(reply.headers) \in Nat
    BY <1>1, ReplyType
<1>3. /\ at \in 1..(Len(reply.headers) + 1) /\ steps = at - 1
      /\ Begins(wire, Stream) /\ HeadRead(reply, steps, declared, chunked)
    BY DEF FetchInv, Reading
<1>4. Len(Stream) = HeadLen(reply) + Len(Payload(reply)) /\ Len(Payload(reply)) \in Nat
    BY <1>1, EncodedShape DEF Stream
<1>5. pc \in Parsing
    BY DEF Parsing
<1>6. calm => Len(wire) = Len(Stream) /\ at < Len(wire)
    <2>1. calm => Len(wire) = Len(Stream)
        BY <1>5 DEF FetchInv, Ended
    <2>2. at < Len(Stream)
        BY <1>2, <1>3, <1>4 DEF HeadLen
    <2> QED BY <2>1, <2>2
<1> QED BY <1>1, <1>2, <1>3, <1>4, <1>5, <1>6 DEF Begins

LEMMA NextLine ==
    ASSUME FetchInv, pc = "lines", at < Len(wire)
    PROVE  /\ Line \in Items /\ Line.v \in Nat
           /\ Line.k = "blank" => at = Len(reply.headers) + 1
           /\ Line.k # "blank" => at \in 1..Len(reply.headers) /\ Line = reply.headers[at]
<1>1. /\ Len(wire) \in Nat /\ Len(Stream) \in Nat /\ Len(reply.headers) \in Nat
      /\ at \in 1..(Len(reply.headers) + 1) /\ at \in Nat /\ reply \in Replies
      /\ Begins(wire, Stream)
    BY InTheHead
<1>2. at + 1 \in 1..Len(wire)
    BY <1>1
<1>3. Line \in Items /\ Line.v \in Nat
    BY <1>2, StreamType DEF FetchInv, Line
<1>4. Line = Stream[at + 1]
    BY <1>1, <1>2 DEF Begins, Line
<1>5. /\ \A i \in 1..Len(reply.headers) : Stream[i + 1] = reply.headers[i]
      /\ Stream[HeadLen(reply)].k = "blank"
    BY <1>1, EncodedShape DEF Stream
<1>6. CASE at = Len(reply.headers) + 1
    <2>1. HeadLen(reply) = at + 1
        BY <1>1, <1>6 DEF HeadLen
    <2> QED BY <1>3, <1>4, <1>5, <1>6, <2>1
<1>7. CASE at \in 1..Len(reply.headers)
    <2>1. Line = reply.headers[at]
        BY <1>4, <1>5, <1>7
    <2>2. reply.headers[at].k \in HeaderKinds
        BY <1>1, <1>7, ReplyType
    <2>3. Line.k # "blank"
        BY <2>1, <2>2 DEF HeaderKinds
    <2> QED BY <1>3, <1>7, <2>1, <2>3
<1> QED BY <1>1, <1>6, <1>7

LEMMA OneMoreHeader ==
    ASSUME NEW r \in Replies, NEW n \in Nat, n < Len(r.headers),
           NEW d \in {-1} \cup Nat, NEW c \in BOOLEAN, HeadRead(r, n, d, c),
           r.headers[n + 1].k \notin {"badLength", "badEncoding"},
           r.headers[n + 1].k = "length" => d = -1
    PROVE  HeadRead(r, n + 1, IF r.headers[n + 1].k = "length" THEN r.headers[n + 1].v ELSE d,
                    c \/ r.headers[n + 1].k = "chunked")
<1> DEFINE h == r.headers
           l == h[n + 1]
           e == IF l.k = "length" THEN l.v ELSE d
           f == (c \/ l.k = "chunked")
<1>1. l.v \in Nat /\ n + 1 \in 1..Len(h)
    <2>1. Len(h) \in Nat
        BY ReplyType
    <2>2. n + 1 \in 1..Len(h)
        BY <2>1
    <2> QED BY <2>2, ReplyType
<1>2. \A i \in 1..(n + 1) : i \in 1..n \/ i = n + 1
    OBVIOUS
<1>3. \A i \in 1..n : i \in 1..(n + 1) /\ i # n + 1
    OBVIOUS
<1>4. n + 1 \in 1..(n + 1)
    OBVIOUS
<1>5. /\ r.status
      /\ \A i \in 1..n : h[i].k \notin {"badLength", "badEncoding"}
      /\ d = -1 => \A i \in 1..n : h[i].k # "length"
      /\ d # -1 => \E i \in 1..n : /\ h[i].k = "length" /\ h[i].v = d
                                   /\ \A j \in 1..n : h[j].k = "length" => j = i
      /\ c <=> \E i \in 1..n : h[i].k = "chunked"
    BY DEF HeadRead
<1>a. l.k \notin {"badLength", "badEncoding"} /\ (l.k = "length" => d = -1) /\ l = h[n + 1]
    OBVIOUS
<1> HIDE DEF h, l
<1>6. \A i \in 1..(n + 1) : h[i].k \notin {"badLength", "badEncoding"}
    BY <1>2, <1>5, <1>a
<1>7. e = -1 => \A i \in 1..(n + 1) : h[i].k # "length"
    BY <1>1, <1>2, <1>5, <1>a
<1>8. ASSUME e # -1
      PROVE  \E i \in 1..(n + 1) : /\ h[i].k = "length" /\ h[i].v = e
                                   /\ \A j \in 1..(n + 1) : h[j].k = "length" => j = i
    <2>1. CASE l.k = "length"
        <3>1. d = -1 /\ e = l.v
            BY <1>a, <2>1
        <3>2. \A j \in 1..(n + 1) : h[j].k = "length" => j = n + 1
            BY <1>2, <1>5, <3>1
        <3> QED BY <1>4, <1>a, <2>1, <3>1, <3>2
    <2>2. CASE l.k # "length"
        <3>1. e = d
            BY <2>2
        <3>2. PICK i \in 1..n : /\ h[i].k = "length" /\ h[i].v = d
                                /\ \A j \in 1..n : h[j].k = "length" => j = i
            BY <1>5, <1>8, <3>1
        <3>3. \A j \in 1..(n + 1) : h[j].k = "length" => j = i
            BY <1>2, <1>a, <2>2, <3>2
        <3> QED BY <1>3, <3>1, <3>2, <3>3
    <2> QED BY <2>1, <2>2
<1>9. f <=> \E i \in 1..(n + 1) : h[i].k = "chunked"
    BY <1>2, <1>3, <1>4, <1>5, <1>a
<1> HIDE DEF e, f
<1>10. HeadRead(r, n + 1, e, f)
    BY <1>5, <1>6, <1>7, <1>8, <1>9 DEF HeadRead, h
<1> QED BY <1>10 DEF e, f, l, h

LEMMA HeaderKeeps ==
    ASSUME FetchInv, HeaderLine PROVE FetchInv'
<1>1. /\ pc = "lines" /\ HasLine /\ Line.k # "blank" /\ HeaderFits(Line)
      /\ declared' = (IF Line.k = "length" THEN Line.v ELSE declared)
      /\ chunked' = (chunked \/ Line.k = "chunked")
      /\ at' = at + 1 /\ steps' = steps + 1
      /\ UNCHANGED <<pc, idleVars, wire, put, base, result, calm>>
    BY DEF HeaderLine
<1>2. /\ Len(wire) \in Nat /\ Len(reply.headers) \in Nat /\ steps = at - 1 /\ at \in Nat
      /\ reply \in Replies /\ pc \in Parsing /\ Begins(wire, Stream)
      /\ HeadRead(reply, steps, declared, chunked)
    BY <1>1, InTheHead
<1>3. at < Len(wire)
    BY <1>1 DEF HasLine
<1>4. Line.v \in Nat /\ at \in 1..Len(reply.headers) /\ Line = reply.headers[at]
    BY <1>1, <1>3, NextLine
<1>5. /\ declared \in {-1} \cup Nat /\ chunked \in BOOLEAN /\ wire \in Seq(Items)
      /\ put \in 0..MaxBody /\ base \in 0..Len(wire)
    BY DEF FetchInv, TypeOK
<1>6. steps \in Nat /\ steps < Len(reply.headers) /\ at = steps + 1 /\ at' = steps' + 1
      /\ at' \in 1..(Len(reply.headers) + 1) /\ at' \in 0..Len(wire) /\ steps' \in Nat
    BY <1>1, <1>2, <1>3, <1>4
<1>7. HeadRead(reply, steps', declared', chunked')
    <2>1. /\ Line.k \notin {"badLength", "badEncoding"} /\ (Line.k = "length" => declared = -1)
        BY <1>1 DEF HeaderFits
    <2>2. Line = reply.headers[steps + 1]
        BY <1>4, <1>6
    <2>3. HeadRead(reply, steps + 1, IF Line.k = "length" THEN Line.v ELSE declared,
                   chunked \/ Line.k = "chunked")
        BY <1>2, <1>5, <1>6, <2>1, <2>2, OneMoreHeader
    <2> QED BY <1>1, <2>3
<1>8. ParseOn
    <2>1. declared' \in {-1} \cup Nat /\ chunked' \in BOOLEAN
        BY <1>1, <1>4, <1>5
    <2> QED BY <1>1, <1>2, <1>5, <1>6, <2>1 DEF ParseOn
<1>9. Reading'
    <2>1. reply' = reply /\ Stream' = Stream /\ pc' = "lines" /\ wire' = wire
        BY <1>1 DEF idleVars, inputs, Stream
    <2>a. steps' = at' - 1
        BY <1>1, <1>2
    <2>b. at' \in 1..(Len(reply'.headers) + 1)
        BY Zenon, <1>6, <2>1
    <2>2. at' \in 1..(Len(reply'.headers) + 1) /\ steps' = at' - 1
        BY <2>a, <2>b
    <2>3. Begins(wire', Stream') /\ HeadRead(reply', steps', declared', chunked')
        BY <1>2, <1>7, <2>1
    <2> QED BY <2>1, <2>2, <2>3 DEF Reading, Early
<1> QED BY <1>8, <1>9, ParseGoesOn

LEMMA BadLineKeeps ==
    ASSUME FetchInv, BadLine PROVE FetchInv'
<1>1. pc = "lines" /\ BadReply /\ (HasLine => Line.k # "blank" /\ ~HeaderFits(Line))
    BY DEF BadLine
<1>2. /\ Len(wire) \in Nat /\ Len(reply.headers) \in Nat /\ steps = at - 1 /\ at \in Nat
      /\ at \in 1..(Len(reply.headers) + 1)
      /\ reply \in Replies /\ pc \in Parsing
      /\ HeadRead(reply, steps, declared, chunked)
      /\ calm => Len(wire) = Len(Stream) /\ at < Len(wire)
    BY <1>1, InTheHead
<1>3. ASSUME calm PROVE Cause
    <2>1. CASE ~HasLine
        <3>1. steps >= MaxLines
            BY <1>2, <1>3, <2>1, Limits DEF HasLine
        <3>2. ~(Len(reply.headers) < MaxLines)
            BY <1>2, <3>1, Limits
        <3> QED BY <3>2 DEF Cause, WithinLimits
    <2>2. CASE HasLine
        <3>1. Line.k # "blank" /\ ~HeaderFits(Line) /\ at < Len(wire)
            BY <1>1, <2>2 DEF HasLine
        <3>2. at \in 1..Len(reply.headers) /\ Line = reply.headers[at]
            BY <1>1, <3>1, NextLine
        <3>3. DOMAIN reply.headers = 1..Len(reply.headers)
            BY <1>2, ReplyType
        <3>4. CASE Line.k \in {"badLength", "badEncoding"}
            <4>1. Has(reply, "badLength") \/ Has(reply, "badEncoding")
                BY <3>2, <3>3, <3>4 DEF Has
            <4> QED BY <4>1 DEF Cause, WellFormed
        <3>5. CASE Line.k = "length" /\ declared # -1
            <4>1. PICK i \in 1..steps : reply.headers[i].k = "length"
                BY <1>2, <3>5 DEF HeadRead
            <4>2. i \in 1..Len(reply.headers) /\ i # at
                BY <1>2, <3>2
            <4>3. i \in Lengths(reply) /\ at \in Lengths(reply)
                BY <3>2, <3>3, <3>5, <4>1, <4>2 DEF Lengths
            <4> QED BY <4>2, <4>3 DEF Cause, WellFormed
        <3> QED BY <3>1, <3>4, <3>5 DEF HeaderFits
    <2> QED BY <2>1, <2>2
<1>4. "BAD_REPLY" \in Codes \ {"OK"}
    BY DEF Codes
<1> QED BY <1>1, <1>2, <1>3, <1>4, ParseFails DEF BadReply

(* What the head says, once all of it is read.                             *)
LEMMA HeadSays ==
    ASSUME NEW r \in Replies, NEW d \in {-1} \cup Nat, NEW c \in BOOLEAN,
           HeadRead(r, Len(r.headers), d, c)
    PROVE  /\ c <=> r.chunked
           /\ Total(r) \in Nat
           /\ d = -1 => Lengths(r) = {} /\ Meant(r) = Bytes(0, Total(r))
                        /\ Len(Meant(r)) = Total(r)
           /\ d # -1 => Lengths(r) # {} /\ Meant(r) = Bytes(0, d) /\ Len(Meant(r)) = d
           /\ c /\ d # -1 => ~WellFormed(r)
           /\ c /\ d = -1 => WellFormed(r)
           /\ ~c => WellFormed(r)
<1> DEFINE h == r.headers
           N == Len(r.headers)
<1>1. DOMAIN h = 1..N /\ N \in Nat
    BY ReplyType
<1>2. /\ r.status
      /\ \A i \in 1..N : h[i].k \notin {"badLength", "badEncoding"}
      /\ d = -1 => \A i \in 1..N : h[i].k # "length"
      /\ d # -1 => \E i \in 1..N : /\ h[i].k = "length" /\ h[i].v = d
                                   /\ \A j \in 1..N : h[j].k = "length" => j = i
      /\ c <=> \E i \in 1..N : h[i].k = "chunked"
    BY DEF HeadRead
<1>3. Lengths(r) = {i \in 1..N : h[i].k = "length"}
    BY <1>1 DEF Lengths
<1>4. r.chunked <=> \E i \in 1..N : h[i].k = "chunked"
    BY <1>1, FetchAssumption DEF Has
<1>5. Total(r) \in Nat
    BY PayloadType
<1>6. ~Has(r, "badLength") /\ ~Has(r, "badEncoding")
    BY <1>1, <1>2 DEF Has
<1>7. Meant(r) = Bytes(0, IF Lengths(r) # {} THEN h[CHOOSE i \in Lengths(r) : TRUE].v
                          ELSE Total(r))
    BY DEF Meant
<1> HIDE DEF h, N
<1>8. c <=> r.chunked
    BY <1>2, <1>4
<1>9. ASSUME d = -1
      PROVE  Lengths(r) = {} /\ Meant(r) = Bytes(0, Total(r)) /\ Len(Meant(r)) = Total(r)
    <2>1. Lengths(r) = {}
        BY <1>2, <1>3, <1>9
    <2>2. Meant(r) = Bytes(0, Total(r))
        BY <1>7, <2>1
    <2> QED BY <1>5, <2>1, <2>2, BytesType
<1>10. ASSUME d # -1
       PROVE  /\ Lengths(r) # {} /\ Meant(r) = Bytes(0, d) /\ Len(Meant(r)) = d
              /\ \A i, j \in Lengths(r) : i = j
    <2>1. PICK i \in 1..N : /\ h[i].k = "length" /\ h[i].v = d
                            /\ \A j \in 1..N : h[j].k = "length" => j = i
        BY <1>2, <1>10
    <2>2. Lengths(r) = {i}
        BY <1>3, <2>1
    <2>3. (CHOOSE j \in Lengths(r) : TRUE) = i
        BY <2>2
    <2>4. Lengths(r) # {}
        BY <2>2
    <2>5. Meant(r) = Bytes(0, h[CHOOSE j \in Lengths(r) : TRUE].v)
        BY Zenon, <1>7, <2>4
    <2>6. Meant(r) = Bytes(0, d)
        BY Zenon, <2>1, <2>3, <2>5
    <2>7. d \in Nat
        BY <1>10
    <2>8. \A j, k \in Lengths(r) : j = k
        BY <2>2
    <2> QED BY <2>4, <2>6, <2>7, <2>8, BytesType
<1>11. c /\ d # -1 => ~WellFormed(r)
    BY <1>8, <1>10 DEF WellFormed
<1>12. c /\ d = -1 => WellFormed(r)
    BY <1>2, <1>6, <1>9 DEF WellFormed
<1>13. ~c => WellFormed(r)
    <2>1. \A i, j \in Lengths(r) : i = j
        BY <1>9, <1>10
    <2> QED BY <1>2, <1>6, <1>8, <2>1 DEF WellFormed
<1> QED BY <1>5, <1>8, <1>9, <1>10, <1>11, <1>12, <1>13

(* The body of a reply that is not chunked.                                *)
LEMMA PlainPayload ==
    ASSUME NEW r \in Replies, ~r.chunked
    PROVE  /\ Total(r) \in Nat /\ Len(Payload(r)) = Total(r)
           /\ \A i \in 1..Total(r) : Payload(r)[i] = Item("data", i)
<1>1. Total(r) \in Nat /\ Len(Payload(r)) = Total(r)
    BY PayloadType
<1>2. Payload(r) = Bytes(0, Total(r))
    BY DEF Payload
<1> QED BY <1>1, <1>2, BytesType

(* The empty line, with the whole head read.                               *)
LEMMA AtBlank ==
    ASSUME FetchInv, pc = "lines", HasLine, Line.k = "blank"
    PROVE  /\ at + 1 = HeadLen(reply) /\ at + 1 \in 0..Len(wire) /\ at < Len(wire)
           /\ HeadRead(reply, Len(reply.headers), declared, chunked)
           /\ Available - 1 \in Nat /\ Available - 1 <= Len(Payload(reply))
           /\ Available - 1 = Len(wire) - HeadLen(reply)
           /\ calm => Available - 1 = Len(Payload(reply))
           /\ \A i \in 1..(Available - 1) : wire[at + 1 + i] = Payload(reply)[i]
<1>1. /\ Len(wire) \in Nat /\ Len(Stream) \in Nat /\ Len(reply.headers) \in Nat
      /\ steps = at - 1 /\ at \in Nat /\ reply \in Replies
      /\ Begins(wire, Stream) /\ Len(wire) <= Len(Stream)
      /\ HeadRead(reply, steps, declared, chunked)
      /\ Len(Stream) = HeadLen(reply) + Len(Payload(reply))
      /\ Len(Payload(reply)) \in Nat
      /\ calm => Len(wire) = Len(Stream)
    BY InTheHead
<1>2. at < Len(wire)
    BY DEF HasLine
<1>3. at = Len(reply.headers) + 1
    BY <1>2, NextLine
<1>4. at + 1 = HeadLen(reply) /\ at + 1 \in 0..Len(wire) /\ HeadLen(reply) \in Nat
    BY <1>1, <1>2, <1>3 DEF HeadLen
<1>5. HeadRead(reply, Len(reply.headers), declared, chunked)
    <2>1. steps = Len(reply.headers)
        BY <1>1, <1>3
    <2> QED BY <1>1, <2>1
<1>6. Available - 1 = Len(wire) - HeadLen(reply)
    BY <1>1, <1>4 DEF Available
<1>7. /\ Available - 1 \in Nat /\ Available - 1 <= Len(Payload(reply))
      /\ calm => Available - 1 = Len(Payload(reply))
    BY <1>1, <1>2, <1>4, <1>6
<1>8. ASSUME NEW i \in 1..(Available - 1) PROVE wire[at + 1 + i] = Payload(reply)[i]
    <2>1. /\ HeadLen(reply) + i \in 1..Len(wire) /\ i \in 1..Len(Payload(reply))
          /\ at + 1 + i = HeadLen(reply) + i
        <3> DEFINE v == Available - 1
                   H == HeadLen(reply)
                   P == Len(Payload(reply))
                   W == Len(wire)
        <3>1. /\ v \in Nat /\ H \in Nat /\ P \in Nat /\ W \in Nat /\ at \in Nat
              /\ v = W - H /\ v <= P /\ at + 1 = H /\ i \in 1..v
            BY <1>1, <1>4, <1>6, <1>7
        <3> HIDE DEF v, H, P, W
        <3>2. H + i \in 1..W /\ i \in 1..P /\ at + 1 + i = H + i
            BY <3>1
        <3> QED BY <3>2 DEF H, P, W
    <2>2. Stream[HeadLen(reply) + i] = Payload(reply)[i]
        BY <1>1, <2>1, EncodedShape DEF Stream
    <2>3. wire[HeadLen(reply) + i] = Stream[HeadLen(reply) + i]
        BY <1>1, <2>1 DEF Begins
    <2> QED BY <2>1, <2>2, <2>3
<1> QED BY <1>2, <1>4, <1>5, <1>6, <1>7, <1>8

BlankLength == IF declared >= 0 THEN declared ELSE Available - 1

BlankRefused ==
    IF chunked THEN IF declared >= 0 THEN "BAD_REPLY" ELSE None
    ELSE PlainBody(BlankLength)

LEMMA BlankForCause ==
    ASSUME FetchInv, pc = "lines", HasLine, Line.k = "blank", BlankRefused # None, calm
    PROVE  Cause
<1>1. /\ HeadRead(reply, Len(reply.headers), declared, chunked)
      /\ Available - 1 \in Nat /\ Available - 1 = Len(Payload(reply))
    BY AtBlank
<1>2. declared \in {-1} \cup Nat /\ chunked \in BOOLEAN /\ reply \in Replies
    BY DEF FetchInv, TypeOK
<1>3. (declared >= 0) <=> (declared # -1)
    BY <1>2
<1>4. CASE chunked
    <2>1. declared # -1
        BY <1>3, <1>4 DEF BlankRefused
    <2>2. ~WellFormed(reply)
        BY <1>1, <1>2, <1>4, <2>1, HeadSays
    <2> QED BY <2>2 DEF Cause
<1>5. CASE ~chunked
    <2>1. ~reply.chunked
        BY <1>1, <1>2, <1>5, HeadSays
    <2>2. Total(reply) \in Nat /\ Len(Payload(reply)) = Total(reply)
        BY <1>2, <2>1, PlainPayload
    <2>3. PlainBody(BlankLength) # None
        BY <1>5 DEF BlankRefused
    <2>4. BlankLength > Available - 1 \/ BlankLength > MaxBody
        BY <2>3 DEF PlainBody
    <2>5. CASE declared # -1
        <3>1. BlankLength = declared /\ declared \in Nat
            BY <1>2, <1>3, <2>5 DEF BlankLength
        <3>2. Len(Meant(reply)) = declared
            BY <1>1, <1>2, <2>5, HeadSays
        <3>3. Len(Meant(reply)) > Total(reply) \/ ~(Len(Meant(reply)) <= MaxBody)
            BY <1>1, <2>2, <2>4, <3>1, <3>2, Limits
        <3> QED BY <3>3 DEF Cause, WithinLimits
    <2>6. CASE declared = -1
        <3>1. BlankLength = Available - 1
            BY <1>3, <2>6 DEF BlankLength
        <3>2. Len(Meant(reply)) = Total(reply)
            BY <1>1, <1>2, <2>6, HeadSays
        <3>3. ~(Len(Meant(reply)) <= MaxBody)
            BY <1>1, <2>2, <2>4, <3>1, <3>2, Limits
        <3> QED BY <3>3 DEF Cause, WithinLimits
    <2> QED BY <2>5, <2>6
<1> QED BY <1>4, <1>5

LEMMA BlankKeeps ==
    ASSUME FetchInv, Blank PROVE FetchInv'
<1>1. pc = "lines" /\ HasLine /\ Line.k = "blank" /\ pc \in Parsing
    BY DEF Blank, Parsing
<1>2. CASE BlankRefused # None
    <2>1. Fail(BlankRefused) /\ UNCHANGED <<idleVars, steps, wire, parseVars, calm>>
        BY <1>2 DEF Blank, BlankRefused, BlankLength
    <2>2. BlankRefused \in Codes \ {"OK"}
        BY <1>2 DEF BlankRefused, PlainBody, Codes
    <2>3. calm => Cause
        BY <1>1, <1>2, BlankForCause
    <2> QED BY <1>1, <2>1, <2>2, <2>3, ParseFails
<1>3. CASE BlankRefused = None
    <2>1. /\ at' = at + 1 /\ base' = at + 1 /\ steps' = 0
          /\ pc' = (IF chunked THEN "chunks" ELSE "take")
          /\ put' = (IF chunked THEN 0 ELSE BlankLength)
          /\ UNCHANGED <<idleVars, wire, declared, chunked, result, calm>>
        BY <1>3 DEF Blank, BlankRefused, BlankLength
    <2>2. /\ at + 1 = HeadLen(reply) /\ at + 1 \in 0..Len(wire)
          /\ HeadRead(reply, Len(reply.headers), declared, chunked)
          /\ Available - 1 \in Nat /\ Available - 1 <= Len(Payload(reply))
          /\ Available - 1 = Len(wire) - HeadLen(reply)
          /\ \A i \in 1..(Available - 1) : wire[at + 1 + i] = Payload(reply)[i]
        BY <1>1, AtBlank
    <2>3. /\ declared \in {-1} \cup Nat /\ chunked \in BOOLEAN /\ reply \in Replies
          /\ wire \in Seq(Items)
        BY DEF FetchInv, TypeOK
    <2>4. (declared >= 0) <=> (declared # -1)
        BY <2>3
    <2>5. reply' = reply /\ Stream' = Stream /\ wire' = wire /\ declared' = declared
          /\ chunked' = chunked
        BY <2>1 DEF idleVars, inputs, Stream
    <2>6. Len(wire) \in Nat /\ Begins(wire, Stream) /\ Len(wire) <= Len(Stream)
        BY <1>1, InTheHead
    <2>7. CASE chunked
        <3>1. declared = -1 /\ pc' = "chunks" /\ put' = 0
            BY <1>3, <2>1, <2>4, <2>7, NoneIsNoCode DEF BlankRefused, Codes
        <3>2. ParseOn
            <4>1. put' \in 0..MaxBody
                BY <3>1, Limits
            <4> QED BY <1>1, <2>1, <2>2, <2>3, <3>1, <4>1 DEF ParseOn, Parsing
        <3>3. Reading'
            <4>1. Len(reply.ends) \in Nat /\ End(reply, 0) = 0 /\ Behind(reply, 0) = 0
                BY <2>3, ReplyType, Ends
            <4>2. Decoded(wire, at + 1, 0)
                BY <2>2, <2>6 DEF Decoded
            <4>3. Untouched(wire, Stream, at + 1)
                BY <2>2, <2>6 DEF Untouched, Begins
            <4>4. base' = HeadLen(reply') /\ Decoded(wire', base', put')
                  /\ HeadRead(reply', Len(reply'.headers), declared', chunked')
                BY <2>1, <2>2, <2>5, <3>1, <4>2
            <4>5. /\ chunked' /\ declared' = -1 /\ steps' \in 0..Len(reply'.ends)
                BY <2>1, <2>5, <2>7, <3>1, <4>1
            <4>6. put' = End(reply', steps') /\ at' = base' + Behind(reply', steps')
                BY <2>1, <2>2, <2>5, <3>1, <4>1
            <4>7. Untouched(wire', Stream', at')
                BY <2>1, <2>5, <4>3
            <4> QED BY <3>1, <4>4, <4>5, <4>6, <4>7 DEF Reading, Early
        <3> QED BY <3>2, <3>3, ParseGoesOn
    <2>8. CASE ~chunked
        <3>1. PlainBody(BlankLength) = None
            BY <1>3, <2>8 DEF BlankRefused
        <3>2. ~(BlankLength > Available - 1) /\ ~(BlankLength > MaxBody)
            BY <3>1, NoneIsNoCode DEF PlainBody, Codes
        <3>3. BlankLength \in Nat
            BY <2>2, <2>3, <2>4 DEF BlankLength
        <3>4. pc' = "take" /\ put' = BlankLength
            BY <2>1, <2>8
        <3>5. ParseOn
            <4>1. put' \in 0..MaxBody
                BY <3>2, <3>3, <3>4, Limits
            <4> QED BY <1>1, <2>1, <2>2, <2>3, <3>4, <4>1 DEF ParseOn, Parsing
        <3>6. ~reply.chunked
            BY <2>2, <2>3, <2>8, HeadSays
        <3>7. /\ Total(reply) \in Nat /\ Len(Payload(reply)) = Total(reply)
              /\ \A i \in 1..Total(reply) : Payload(reply)[i] = Item("data", i)
            BY <2>3, <3>6, PlainPayload
        <3>8. Decoded(wire, at + 1, BlankLength)
            <4>1. at + 1 + BlankLength <= Len(wire)
                BY <2>2, <2>6, <3>2, <3>3
            <4>2. ASSUME NEW i \in 1..BlankLength PROVE wire[at + 1 + i] = Item("data", i)
                <5>1. i \in 1..(Available - 1) /\ i \in 1..Total(reply)
                    BY <2>2, <3>2, <3>3, <3>7
                <5> QED BY <2>2, <3>7, <5>1
            <4> QED BY <4>1, <4>2 DEF Decoded
        <3>9. Reading'
            <4>4. base' = HeadLen(reply') /\ Decoded(wire', base', put')
                  /\ HeadRead(reply', Len(reply'.headers), declared', chunked')
                BY <2>1, <2>2, <2>5, <3>4, <3>8
            <4>5. IF declared' # -1 THEN put' = declared' ELSE put' <= Total(reply')
                <5>1. declared # -1 => BlankLength = declared
                    BY <2>4 DEF BlankLength
                <5>2. declared = -1 => BlankLength <= Total(reply)
                    BY <2>2, <2>4, <3>7 DEF BlankLength
                <5> QED BY <2>5, <3>4, <5>1, <5>2
            <4>6. ~chunked'
                BY <2>5, <2>8
            <4> QED BY <3>4, <4>4, <4>5, <4>6 DEF Reading, Early
        <3> QED BY <3>5, <3>9, ParseGoesOn
    <2> QED BY <2>7, <2>8
<1> QED BY <1>2, <1>3

(* Where the decoder is in a chunked body, and what the next chunk is.     *)
LEMMA InTheBody ==
    ASSUME FetchInv, pc = "chunks"
    PROVE  /\ reply \in Replies /\ reply.chunked /\ pc \in Parsing
           /\ HeadRead(reply, Len(reply.headers), declared, chunked)
           /\ steps \in Nat /\ steps + 1 \in ChunkNumbers(reply)
           /\ Len(reply.ends) \in Nat /\ steps <= Len(reply.ends)
           /\ Len(wire) \in Nat /\ Len(Stream) \in Nat /\ Len(wire) <= Len(Stream)
           /\ base \in Nat /\ base = HeadLen(reply)
           /\ Len(Stream) = base + Behind(reply, Len(reply.ends) + 1)
           /\ at = base + Behind(reply, steps) /\ put = End(reply, steps)
           /\ Decoded(wire, base, put) /\ Untouched(wire, Stream, at)
           /\ calm => Len(wire) = Len(Stream)
<1>1. /\ Len(wire) \in Nat /\ Len(Stream) \in Nat /\ reply \in Replies
    BY StreamType DEF FetchInv
<1>2. /\ HeadRead(reply, Len(reply.headers), declared, chunked)
      /\ base = HeadLen(reply) /\ Decoded(wire, base, put)
      /\ chunked /\ declared = -1 /\ steps \in 0..Len(reply.ends)
      /\ put = End(reply, steps) /\ at = base + Behind(reply, steps)
      /\ Untouched(wire, Stream, at)
    BY DEF FetchInv, Reading
<1>3. Len(reply.ends) \in Nat
    BY <1>1, ReplyType
<1>4. steps \in Nat /\ steps + 1 \in ChunkNumbers(reply) /\ steps <= Len(reply.ends)
    BY <1>2, <1>3 DEF ChunkNumbers
<1>5. reply.chunked
    <2>1. declared \in {-1} \cup Nat /\ chunked \in BOOLEAN
        BY DEF FetchInv, TypeOK
    <2> QED BY <1>1, <1>2, <2>1, HeadSays
<1>6. Len(Payload(reply)) = Behind(reply, Len(reply.ends) + 1)
    BY <1>1, <1>5, PayloadType
<1>7. Len(Stream) = base + Behind(reply, Len(reply.ends) + 1) /\ base \in Nat
    BY <1>1, <1>2, <1>6, EncodedShape DEF Stream
<1>8. pc \in Parsing /\ (calm => Len(wire) = Len(Stream))
    BY DEF FetchInv, Ended, Parsing
<1>9. Len(wire) <= Len(Stream)
    BY <1>2 DEF Untouched
<1> QED BY <1>1, <1>2, <1>3, <1>4, <1>5, <1>7, <1>8, <1>9

(* z is the size of the next chunk, and b where it begins.                 *)
LEMMA NextChunk ==
    ASSUME FetchInv, pc = "chunks",
           NEW z, z = End(reply, steps + 1) - End(reply, steps)
    PROVE  /\ z \in Nat /\ put \in Nat /\ at \in Nat
           /\ z = 0 <=> steps = Len(reply.ends)
           /\ put + z = End(reply, steps + 1) /\ put + z <= Total(reply)
           /\ Total(reply) \in Nat
           /\ at + z + 2 = base + Behind(reply, steps + 1)
           /\ at + z + 2 <= Len(Stream) /\ base + put <= at
           /\ at < Len(wire) => Line = Item("size", z)
           /\ at + z + 2 <= Len(wire) => wire[at + z + 2] = Item("eol", 0)
           /\ at + z + 2 <= Len(wire) =>
                 \A d \in 1..z : wire[at + 1 + d] = Item("data", put + d)
<1> DEFINE N == Len(reply.ends)
           b == Behind(reply, steps)
           c == Behind(reply, steps + 1)
           e == End(reply, steps)
           f == End(reply, steps + 1)
           L == Behind(reply, Len(reply.ends) + 1)
           W == Len(wire)
           T == Total(reply)
           P == Payload(reply)
<1>1. /\ reply \in Replies /\ reply.chunked /\ steps \in Nat
      /\ steps + 1 \in ChunkNumbers(reply) /\ N \in Nat /\ steps <= N
      /\ W \in Nat /\ Len(Stream) \in Nat /\ W <= Len(Stream)
      /\ base \in Nat /\ base = HeadLen(reply)
      /\ Len(Stream) = base + L /\ at = base + b /\ put = e
      /\ Untouched(wire, Stream, at)
    BY InTheBody
<1>2. (steps + 1) - 1 = steps
    BY <1>1
<1>3. /\ b \in Nat /\ c \in Nat /\ e \in Nat /\ f \in Nat /\ e <= f
      /\ c = b + (f - e) + 2 /\ b = e + 2 * steps /\ c <= L
      /\ P[b + 1] = Item("size", f - e) /\ P[c] = Item("eol", 0)
      /\ \A d \in 1..(f - e) : P[b + 1 + d] = Item("data", e + d)
    BY <1>1, <1>2, ChunkItems
<1>4. L \in Nat /\ T \in Nat
    <2>1. N + 1 \in 0..(N + 1)
        BY <1>1
    <2> QED BY <1>1, <2>1, Ends, PayloadType
<1>5. z = 0 <=> steps = N
    <2>1. End(reply, N) = T /\ End(reply, N + 1) = T
        BY <1>1, Ends
    <2>2. CASE steps = N
        BY <1>3, <1>4, <2>1, <2>2
    <2>3. CASE steps # N
        <3>1. steps \in 0..N /\ steps + 1 \in 0..N /\ steps < steps + 1
            BY <1>1, <2>3
        <3>2. e < f
            BY <1>1, <3>1, Ends
        <3> QED BY <1>3, <2>3, <3>2
    <2> QED BY <2>2, <2>3
<1>6. f <= T
    <2>1. End(reply, N + 1) = T
        BY <1>1, Ends
    <2>2. CASE steps = N
        BY <1>4, <2>1, <2>2
    <2>3. CASE steps # N
        <3>1. steps + 1 \in 0..(N + 1) /\ N + 1 \in 0..(N + 1) /\ steps + 1 < N + 1
            BY <1>1, <2>3
        <3>2. f <= End(reply, N + 1)
            BY <1>1, <3>1, Ends
        <3> QED BY <2>1, <3>2
    <2> QED BY <2>2, <2>3
<1>7. ASSUME NEW q \in 1..L, base + q > at, base + q <= W PROVE wire[base + q] = P[q]
    <2>1. at \in Nat
        <3>1. base \in Nat /\ b \in Nat /\ at = base + b
            BY <1>1, <1>3
        <3> QED BY <3>1
    <2>2. base + q \in (at + 1)..W
        <3>1. base \in Nat /\ W \in Nat /\ q \in Nat
            BY <1>1, <1>4
        <3> HIDE DEF W
        <3> QED BY <1>7, <2>1, <3>1
    <2>3. wire[base + q] = Stream[base + q]
        BY <1>1, <2>2 DEF Untouched
    <2>4. q \in 1..Len(Payload(reply))
        BY <1>1, PayloadType
    <2>5. Stream[HeadLen(reply) + q] = P[q]
        BY <1>1, <2>4, EncodedShape DEF Stream
    <2> QED BY <1>1, <2>3, <2>5
<1> HIDE DEF N, b, c, e, f, L, W, T, P
<1>8. z = f - e
    BY DEF e, f
<1>a. /\ b \in Nat /\ c \in Nat /\ e \in Nat /\ f \in Nat /\ e <= f
      /\ c = b + (f - e) + 2 /\ b = e + 2 * steps /\ c <= L
    BY <1>3
<1>b. /\ steps \in Nat /\ W \in Nat /\ Len(Stream) \in Nat /\ base \in Nat
      /\ Len(Stream) = base + L /\ at = base + b /\ put = e
    BY <1>1
<1>9. z \in Nat /\ put \in Nat /\ at \in Nat /\ c = b + z + 2 /\ e = put
    <2>1. z \in Nat
        BY <1>8, <1>a
    <2>2. c = b + z + 2
        BY <1>8, <1>a
    <2>3. at \in Nat
        BY <1>a, <1>b
    <2> QED BY <1>a, <1>b, <2>1, <2>2, <2>3
<1>10. /\ put + z = f /\ put + z <= T /\ at + z + 2 = base + c /\ at + z + 2 <= Len(Stream)
       /\ base + put <= at
    <2>1. put + z = f
        BY <1>8, <1>9, <1>a
    <2>2. put + z <= T
        BY <1>6, <2>1
    <2>3. at + z + 2 = base + c
        <3>1. /\ base \in Nat /\ b \in Nat /\ z \in Nat
              /\ at = base + b /\ c = b + z + 2
            BY <1>9, <1>a, <1>b
        <3> QED BY <3>1
    <2>4. base + c <= Len(Stream)
        BY <1>4, <1>a, <1>b
    <2>5. base + put <= at
        BY <1>9, <1>a, <1>b
    <2> QED BY <2>1, <2>2, <2>3, <2>4, <2>5
<1>11. ASSUME at < W PROVE Line = Item("size", z)
    <2>1. b + 1 \in 1..L /\ base + (b + 1) > at /\ base + (b + 1) <= W /\ base + (b + 1) = at + 1
        BY <1>4, <1>9, <1>11, <1>a, <1>b
    <2>2. wire[base + (b + 1)] = P[b + 1]
        BY <1>7, <2>1
    <2> QED BY <1>3, <1>8, <2>1, <2>2 DEF Line
<1>12. ASSUME at + z + 2 <= W PROVE wire[at + z + 2] = Item("eol", 0)
    <2>1. c \in 1..L /\ base + c > at /\ base + c <= W /\ base + c = at + z + 2
        <3>1. at + z + 2 = base + c
            BY <1>10
        <3>2. base + c <= W
            BY <1>12, <3>1
        <3>3. c \in 1..L
            BY <1>4, <1>9, <1>a
        <3>4. base + c > at
            <4>1. at \in Nat /\ z \in Nat /\ at + z + 2 > at
                BY <1>9
            <4> QED BY <3>1, <4>1
        <3> QED BY <3>1, <3>2, <3>3, <3>4
    <2>2. wire[base + c] = P[c]
        BY <1>7, <2>1
    <2> QED BY <1>3, <2>1, <2>2
<1>13. ASSUME at + z + 2 <= W, NEW d \in 1..z PROVE wire[at + 1 + d] = Item("data", put + d)
    <2>1. /\ b + 1 + d \in 1..L /\ base + (b + 1 + d) > at /\ base + (b + 1 + d) <= W
          /\ base + (b + 1 + d) = at + 1 + d
        <3>1. d \in Nat /\ d >= 1 /\ d <= z
            BY <1>9
        <3>2. b + 1 + d \in 1..L
            BY <1>4, <1>9, <1>a, <3>1
        <3>3. base + (b + 1 + d) = at + 1 + d
            BY <1>a, <1>b, <3>1
        <3>4. at + 1 + d > at /\ at + 1 + d <= W
            <4>1. at \in Nat /\ z \in Nat /\ W \in Nat
                BY <1>9, <1>b
            <4> QED BY <1>13, <3>1, <4>1
        <3> QED BY <3>2, <3>3, <3>4
    <2>2. wire[base + (b + 1 + d)] = P[b + 1 + d]
        BY <1>7, <2>1
    <2>3. P[b + 1 + d] = Item("data", e + d)
        BY <1>3, <1>8
    <2> QED BY <1>9, <2>1, <2>2, <2>3
<1> QED BY <1>4, <1>5, <1>9, <1>10, <1>11, <1>12, <1>13 DEF N, c, f, T, W

(* The bytes n + 1 to n + z of the body are in w behind a + 1; one chunk   *)
(* moved from there to its place.                                          *)
BytesAt(w, a, n, z) == \A d \in 1..z : w[a + 1 + d] = Item("data", n + d)

MovedIn(w, b, n, a, z) ==
    [i \in DOMAIN w |->
        IF i \in (b + n + 1)..(b + n + z) THEN w[i - (b + n) + (a + 1)] ELSE w[i]]

Placed(x, w, s, b, n, a, z) ==
    /\ x \in Seq(Items) /\ Len(x) = Len(w)
    /\ Decoded(x, b, n + z) /\ Untouched(x, s, a + z + 2)

LEMMA ChunkMoves ==
    ASSUME NEW w \in Seq(Items), NEW s, NEW b \in Nat, NEW p \in Nat, NEW a \in Nat,
           NEW z \in Nat, b + p <= a, a + z + 2 <= Len(w),
           Decoded(w, b, p), Untouched(w, s, a), BytesAt(w, a, p, z),
           NEW x, x = MovedIn(w, b, p, a, z)
    PROVE  Placed(x, w, s, b, p, a, z)
<1>1. Len(w) \in Nat /\ DOMAIN w = 1..Len(w)
    BY LenProperties
<1> DEFINE L == Len(w)
<1>2. x = [i \in 1..L |-> IF i \in (b + p + 1)..(b + p + z) THEN w[i - (b + p) + (a + 1)]
                          ELSE w[i]]
    BY <1>1 DEF MovedIn
<1>3. \A i \in 1..L : w[i] \in Items
    BY ElementOfSeq
<1>4. L \in Nat /\ a + z + 2 <= L
    BY <1>1
<1>5. ASSUME NEW d \in 1..z PROVE x[b + p + d] = Item("data", p + d)
    <2>1. /\ b + p + d \in 1..L /\ b + p + d \in (b + p + 1)..(b + p + z)
          /\ (b + p + d) - (b + p) + (a + 1) = a + 1 + d
        BY <1>4
    <2>2. x[b + p + d] = w[(b + p + d) - (b + p) + (a + 1)]
        BY <1>2, <2>1
    <2>3. w[a + 1 + d] = Item("data", p + d)
        BY DEF BytesAt
    <2> QED BY <2>1, <2>2, <2>3
<1>6. ASSUME NEW i \in 1..L, i \notin (b + p + 1)..(b + p + z) PROVE x[i] = w[i]
    BY <1>2, <1>6
<1>7. ASSUME NEW i \in 1..L PROVE x[i] \in Items
    <2>1. CASE i \in (b + p + 1)..(b + p + z)
        <3>1. i - (b + p) \in 1..z /\ b + p + (i - (b + p)) = i /\ p + (i - (b + p)) \in Nat
            BY <2>1
        <3>2. x[b + p + (i - (b + p))] = Item("data", p + (i - (b + p)))
            BY <1>5, <3>1
        <3>3. Item("data", p + (i - (b + p))) \in Items
            BY <3>1 DEF Item, Items
        <3> QED BY <3>1, <3>2, <3>3
    <2>2. CASE i \notin (b + p + 1)..(b + p + z)
        BY <1>3, <1>6, <2>2
    <2> QED BY <2>1, <2>2
<1>8. x \in [1..L -> Items]
    BY <1>2, <1>7
<1> HIDE DEF L
<1>9. x \in Seq(Items) /\ Len(x) = L
    BY <1>4, <1>8, SeqDef
<1>10. Decoded(x, b, p + z)
    <2>1. b + (p + z) <= L
        BY <1>4
    <2>2. ASSUME NEW i \in 1..(p + z) PROVE x[b + i] = Item("data", i)
        <3>1. CASE i <= p
            <4>1. b + i \in 1..L /\ b + i \notin (b + p + 1)..(b + p + z) /\ i \in 1..p
                BY <1>4, <3>1
            <4>2. x[b + i] = w[b + i]
                BY <1>6, <4>1
            <4> QED BY <4>1, <4>2 DEF Decoded
        <3>2. CASE i > p
            <4>1. i - p \in 1..z /\ b + p + (i - p) = b + i /\ p + (i - p) = i
                BY <3>2
            <4>2. x[b + p + (i - p)] = Item("data", p + (i - p))
                BY <1>5, <4>1
            <4> QED BY <4>1, <4>2
        <3> QED BY <3>1, <3>2
    <2> QED BY <1>9, <2>1, <2>2 DEF Decoded
<1>11. Untouched(x, s, a + z + 2)
    <2>1. Len(x) <= Len(s)
        BY <1>9 DEF Untouched, L
    <2>2. ASSUME NEW i \in (a + z + 2 + 1)..Len(x) PROVE x[i] = s[i]
        <3>1. i \in 1..L /\ i \notin (b + p + 1)..(b + p + z) /\ i \in (a + 1)..L
            BY <1>4, <1>9
        <3>2. x[i] = w[i]
            BY <1>6, <3>1
        <3>3. w[i] = s[i]
            BY <3>1 DEF Untouched, L
        <3> QED BY <3>2, <3>3
    <2> QED BY <2>1, <2>2 DEF Untouched
<1> QED BY <1>9, <1>10, <1>11 DEF L, Placed

LEMMA ChunkKeeps ==
    ASSUME FetchInv, Chunk PROVE FetchInv'
<1> DEFINE z == End(reply, steps + 1) - End(reply, steps)
<1>1. /\ pc = "chunks" /\ HasSize /\ Size # 0 /\ ChunkFits /\ ChunkEnds
      /\ wire' = Moved(at + 1, base + put, Size)
      /\ put' = put + Size /\ at' = at + Size + 2 /\ steps' = steps + 1
      /\ UNCHANGED <<pc, idleVars, base, declared, chunked, result, calm>>
    BY DEF Chunk
<1>2. /\ reply \in Replies /\ pc \in Parsing
      /\ HeadRead(reply, Len(reply.headers), declared, chunked)
      /\ steps \in Nat /\ Len(reply.ends) \in Nat /\ steps <= Len(reply.ends)
      /\ base \in Nat /\ base = HeadLen(reply) /\ Len(wire) \in Nat
      /\ Decoded(wire, base, put) /\ Untouched(wire, Stream, at)
    BY <1>1, InTheBody
<1>3. /\ z \in Nat /\ put \in Nat /\ at \in Nat /\ base + put <= at
      /\ z = 0 <=> steps = Len(reply.ends)
      /\ put + z = End(reply, steps + 1)
      /\ at + z + 2 = base + Behind(reply, steps + 1)
      /\ at < Len(wire) => Line = Item("size", z)
      /\ at + z + 2 <= Len(wire) =>
            \A d \in 1..z : wire[at + 1 + d] = Item("data", put + d)
    BY <1>1, NextChunk
<1>4. /\ wire \in Seq(Items) /\ declared \in {-1} \cup Nat /\ chunked \in BOOLEAN
      /\ base \in 0..Len(wire)
    BY DEF FetchInv, TypeOK
<1>5. chunked /\ declared = -1
    BY <1>1 DEF FetchInv, Reading
<1> HIDE DEF z
<1>6. Size = z
    <2>1. at < Len(wire)
        BY <1>1 DEF HasSize
    <2> QED BY <1>3, <2>1 DEF Size, Item
<1>7. at + z + 2 <= Len(wire) /\ put + z <= MaxBody
    BY <1>1, <1>6 DEF ChunkFits, ChunkEnds
<1>8. /\ wire' \in Seq(Items) /\ Len(wire') = Len(wire)
      /\ Decoded(wire', base, put + z) /\ Untouched(wire', Stream, at + z + 2)
    <2>1. wire' = MovedIn(wire, base, put, at, z)
        BY <1>1, <1>6 DEF Moved, MovedIn
    <2>2. BytesAt(wire, at, put, z)
        BY <1>3, <1>7 DEF BytesAt
    <2>3. Placed(wire', wire, Stream, base, put, at, z)
        <3>1. /\ wire \in Seq(Items) /\ base \in Nat /\ put \in Nat /\ at \in Nat /\ z \in Nat
              /\ base + put <= at /\ at + z + 2 <= Len(wire)
              /\ Decoded(wire, base, put) /\ Untouched(wire, Stream, at)
            BY <1>2, <1>3, <1>4, <1>7
        <3> QED BY Zenon, <2>1, <2>2, <3>1, ChunkMoves
    <2> QED BY <2>3 DEF Placed
<1>9. ParseOn
    <2>1. at' \in 0..Len(wire)
        BY <1>1, <1>2, <1>3, <1>6, <1>7
    <2>2. put' \in 0..MaxBody
        BY <1>1, <1>3, <1>6, <1>7, Limits
    <2>3. steps' \in Nat
        BY <1>1, <1>2
    <2> QED BY <1>1, <1>2, <1>4, <1>8, <2>1, <2>2, <2>3 DEF ParseOn
<1>10. Reading'
    <2>1. reply' = reply /\ Stream' = Stream /\ pc' = "chunks" /\ base' = base
          /\ declared' = declared /\ chunked' = chunked
        BY <1>1 DEF idleVars, inputs, Stream
    <2>2. steps' \in 0..Len(reply.ends)
        BY <1>1, <1>2, <1>3, <1>6
    <2>3. put' = put + z /\ at' = at + z + 2 /\ steps' = steps + 1
        BY <1>1, <1>6
    <2>4. put' = End(reply, steps') /\ at' = base + Behind(reply, steps')
        BY <1>3, <2>3
    <2>5. /\ HeadRead(reply', Len(reply'.headers), declared', chunked')
          /\ base' = HeadLen(reply')
        BY <1>2, <2>1
    <2>6. Decoded(wire', base', put')
        BY <1>8, <2>1, <2>3
    <2>7. Untouched(wire', Stream', at')
        BY <1>8, <2>1, <2>3
    <2>8. chunked' /\ declared' = -1 /\ steps' \in 0..Len(reply'.ends)
        BY <1>5, <2>1, <2>2
    <2>9. put' = End(reply', steps') /\ at' = base' + Behind(reply', steps')
        BY <2>1, <2>4
    <2> QED BY <2>1, <2>5, <2>6, <2>7, <2>8, <2>9 DEF Reading, Early
<1> QED BY <1>9, <1>10, ParseGoesOn

LEMMA LastChunkKeeps ==
    ASSUME FetchInv, LastChunk PROVE FetchInv'
<1> DEFINE z == End(reply, steps + 1) - End(reply, steps)
<1>1. /\ pc = "chunks" /\ HasSize /\ Size = 0 /\ pc' = "take"
      /\ UNCHANGED <<idleVars, steps, wire, parseVars, result, calm>>
    BY DEF LastChunk
<1>2. /\ reply \in Replies /\ pc \in Parsing
      /\ HeadRead(reply, Len(reply.headers), declared, chunked)
      /\ steps \in Nat /\ base = HeadLen(reply) /\ put = End(reply, steps)
      /\ Decoded(wire, base, put)
    BY <1>1, InTheBody
<1>3. /\ z = 0 <=> steps = Len(reply.ends)
      /\ at < Len(wire) => Line = Item("size", z)
    BY <1>1, NextChunk
<1>4. Size = z
    <2>1. at < Len(wire)
        BY <1>1 DEF HasSize
    <2> HIDE DEF z
    <2> QED BY <1>3, <2>1 DEF Size, Item
<1>5. put = Total(reply)
    BY <1>1, <1>2, <1>3, <1>4, Ends
<1>6. chunked /\ declared = -1
    BY <1>1 DEF FetchInv, Reading
<1>7. ParseOn
    <2>1. /\ wire \in Seq(Items) /\ declared \in {-1} \cup Nat /\ chunked \in BOOLEAN
          /\ base \in 0..Len(wire) /\ at \in 0..Len(wire) /\ put \in 0..MaxBody
        BY DEF FetchInv, TypeOK
    <2> QED BY <1>1, <1>2, <2>1 DEF ParseOn, Parsing, parseVars
<1>8. Reading'
    <2>1. reply' = reply /\ wire' = wire /\ base' = base /\ put' = put
          /\ declared' = declared /\ chunked' = chunked
        BY <1>1 DEF idleVars, inputs, parseVars
    <2>2. /\ HeadRead(reply', Len(reply'.headers), declared', chunked')
          /\ base' = HeadLen(reply') /\ Decoded(wire', base', put')
        BY <1>2, <2>1
    <2>3. chunked' /\ declared' = -1 /\ put' = Total(reply')
        BY <1>5, <1>6, <2>1
    <2> QED BY <1>1, <2>2, <2>3 DEF Reading, Early
<1> QED BY <1>7, <1>8, ParseGoesOn

LEMMA BadChunkKeeps ==
    ASSUME FetchInv, BadChunk PROVE FetchInv'
<1> DEFINE z == End(reply, steps + 1) - End(reply, steps)
           code == IF HasSize /\ put + Size > MaxBody THEN "TOO_LARGE" ELSE "BAD_REPLY"
<1>1. /\ pc = "chunks" /\ (HasSize => Size # 0 /\ ~(ChunkFits /\ ChunkEnds))
      /\ Fail(code) /\ UNCHANGED <<idleVars, steps, wire, parseVars, calm>>
    BY DEF BadChunk
<1>2. /\ reply \in Replies /\ reply.chunked /\ pc \in Parsing
      /\ HeadRead(reply, Len(reply.headers), declared, chunked)
      /\ steps \in Nat /\ Len(reply.ends) \in Nat /\ steps <= Len(reply.ends)
      /\ Len(wire) \in Nat /\ Len(Stream) \in Nat
      /\ calm => Len(wire) = Len(Stream)
    BY <1>1, InTheBody
<1>3. /\ z \in Nat /\ put \in Nat /\ at \in Nat
      /\ put + z <= Total(reply) /\ Total(reply) \in Nat
      /\ at + z + 2 <= Len(Stream)
      /\ at < Len(wire) => Line = Item("size", z)
      /\ at + z + 2 <= Len(wire) => wire[at + z + 2] = Item("eol", 0)
    BY <1>1, NextChunk
<1>4. code \in Codes \ {"OK"}
    BY DEF Codes
<1> HIDE DEF code, z
<1>5. ASSUME calm PROVE Cause
    <2>1. at + z + 2 <= Len(wire) /\ at < Len(wire)
        BY <1>2, <1>3, <1>5
    <2>2. Line = Item("size", z) /\ wire[at + z + 2] = Item("eol", 0)
        BY <1>3, <2>1
    <2>3. Line.k = "size" /\ Size = z /\ wire[at + z + 2].k = "eol"
        BY <2>2 DEF Item, Size
    <2>4. ChunkEnds
        BY <2>1, <2>3 DEF ChunkEnds
    <2>5. CASE HasSize
        <3>1. z <= Available - 1
            BY <1>2, <1>3, <2>1 DEF Available
        <3>2. ~(put + z <= MaxBody)
            BY <1>1, <2>3, <2>4, <2>5, <3>1 DEF ChunkFits
        <3>3. Len(Meant(reply)) = Total(reply)
            <4>1. declared \in {-1} \cup Nat /\ chunked \in BOOLEAN /\ declared = -1
                BY <1>1 DEF FetchInv, TypeOK, Reading
            <4> QED BY <1>2, <4>1, HeadSays
        <3>4. ~(Len(Meant(reply)) <= MaxBody)
            BY <1>3, <3>2, <3>3, Limits
        <3> QED BY <3>4 DEF Cause, WithinLimits
    <2>6. CASE ~HasSize
        <3>1. ~(steps < MaxChunks)
            BY <2>1, <2>3, <2>6 DEF HasSize
        <3>2. ~(Len(reply.ends) < MaxChunks)
            BY <1>2, <3>1, Limits
        <3> QED BY <1>2, <3>2 DEF Cause, WithinLimits
    <2> QED BY <2>5, <2>6
<1> QED BY <1>1, <1>2, <1>4, <1>5, ParseFails

(* The body that take_reply copies.                                        *)
LEMMA Taken ==
    ASSUME NEW w \in Seq(Items), NEW b \in Nat, NEW n \in Nat, Decoded(w, b, n)
    PROVE  SubSeq(w, b + 1, b + n) = Bytes(0, n)
<1> DEFINE x == SubSeq(w, b + 1, b + n)
           y == Bytes(0, n)
<1>1. y \in Seq(Items) /\ Len(y) = n /\ \A i \in 1..n : y[i] = Item("data", i)
    BY BytesType
<1>2. Len(w) \in Nat /\ b + n <= Len(w)
    BY LenProperties DEF Decoded
<1>3. \A i \in (b + 1)..(b + n) : w[i] \in Items
    <2>1. \A i \in (b + 1)..(b + n) : i \in 1..Len(w)
        BY <1>2
    <2> QED BY <2>1, ElementOfSeq
<1>4. b + 1 \in Int /\ b + n \in Int
    OBVIOUS
<1>5. /\ x \in Seq(Items)
      /\ Len(x) = (IF b + 1 <= b + n THEN (b + n) - (b + 1) + 1 ELSE 0)
      /\ \A i \in 1..((b + n) - (b + 1) + 1) : x[i] = w[(b + 1) + i - 1]
    BY <1>3, <1>4, SubSeqProperties
<1> HIDE DEF x, y
<1>6. Len(x) = n
    BY <1>5
<1>7. ASSUME NEW i \in 1..n PROVE x[i] = y[i]
    <2>1. i \in 1..((b + n) - (b + 1) + 1) /\ (b + 1) + i - 1 = b + i
        OBVIOUS
    <2>2. x[i] = w[b + i]
        BY <1>5, <2>1
    <2>3. w[b + i] = Item("data", i)
        BY DEF Decoded
    <2> QED BY <1>1, <2>2, <2>3
<1>8. x = y
    <2>1. \A i \in 1..Len(x) : x[i] = y[i]
        BY <1>6, <1>7
    <2> QED BY <1>1, <1>5, <1>6, <2>1, SeqEqual
<1> QED BY <1>8 DEF x, y

(* The first bytes of a body are its beginning.                            *)
LEMMA FirstBytes ==
    ASSUME NEW n \in Nat, NEW m \in Nat, n <= m
    PROVE  IsPrefix(Bytes(0, n), Bytes(0, m))
<1> DEFINE x == Bytes(0, n)
           y == Bytes(0, m)
<1>1. /\ x \in Seq(Items) /\ Len(x) = n /\ \A i \in 1..n : x[i] = Item("data", i)
      /\ y \in Seq(Items) /\ Len(y) = m /\ \A i \in 1..m : y[i] = Item("data", i)
    BY BytesType
<1>2. Decoded(x, 0, n) /\ Decoded(y, 0, n)
    <2> HIDE DEF x, y
    <2>1. \A i \in 1..n : 0 + i = i /\ i \in 1..m
        OBVIOUS
    <2>2. 0 + n <= Len(x) /\ 0 + n <= Len(y)
        BY <1>1
    <2> QED BY <1>1, <2>1, <2>2 DEF Decoded
<1> HIDE DEF x, y
<1>3. SubSeq(x, 0 + 1, 0 + n) = Bytes(0, n) /\ SubSeq(y, 0 + 1, 0 + n) = Bytes(0, n)
    BY <1>1, <1>2, Taken
<1>4. 0 + 1 = 1 /\ 0 + n = n
    OBVIOUS
<1>5. SubSeq(x, 1, n) = SubSeq(y, 1, n)
    BY Zenon, <1>3, <1>4
<1>6. Len(x) <= Len(y) /\ SubSeq(x, 1, Len(x)) = SubSeq(y, 1, Len(x))
    BY <1>1, <1>5
<1> QED BY <1>6 DEF IsPrefix, x, y

LEMMA TakeKeeps ==
    ASSUME FetchInv, Take PROVE FetchInv'
<1>1. /\ pc = "take" /\ pc' = "done"
      /\ result' = [code |-> "OK", body |-> SubSeq(wire, base + 1, base + put)]
      /\ UNCHANGED <<idleVars, steps, wire, parseVars, calm>>
    BY DEF Take
<1>2. UNCHANGED <<inputs, chanVars, ended, left, sent>>
    BY <1>1 DEF idleVars
<1>3. /\ HeadRead(reply, Len(reply.headers), declared, chunked)
      /\ base = HeadLen(reply) /\ Decoded(wire, base, put)
      /\ chunked => declared = -1 /\ put = Total(reply)
      /\ ~chunked => IF declared # -1 THEN put = declared ELSE put <= Total(reply)
      /\ ended = "closed" \/ req.secure
    BY <1>1 DEF FetchInv, Reading, Ended, Parsing
<1>4. /\ wire \in Seq(Items) /\ declared \in {-1} \cup Nat /\ chunked \in BOOLEAN
      /\ base \in Nat /\ put \in Nat /\ reply \in Replies
    <2>1. Len(wire) \in Nat
        BY StreamType DEF FetchInv
    <2> QED BY <2>1, Limits DEF FetchInv, TypeOK
<1>5. result'.body = Bytes(0, put) /\ result'.code = "OK"
    BY <1>1, <1>3, <1>4, Taken
<1>6. TypeOK'
    <2>1. result' \in [code : Codes \cup {None}, body : Seq(Items)]
        <3>1. Bytes(0, put) \in Seq(Items)
            BY <1>4, BytesType
        <3>2. result' = [code |-> "OK", body |-> Bytes(0, put)]
            BY <1>1, <1>3, <1>4, Taken
        <3> QED BY <3>1, <3>2 DEF Codes
    <2> QED BY <1>1, <1>2, <2>1 DEF FetchInv, TypeOK, inputs, chanVars, parseVars
<1>7. Channel'
    BY <1>1, <1>2 DEF FetchInv, Channel, inputs, chanVars
<1>8. Ended' /\ Reading' /\ RefusedForCause'
    BY <1>1, <1>5 DEF Ended, Reading, RefusedForCause, Parsing, Early
<1>9. /\ chunked <=> reply.chunked
      /\ Total(reply) \in Nat
      /\ declared = -1 => Lengths(reply) = {} /\ Meant(reply) = Bytes(0, Total(reply))
      /\ declared # -1 => Lengths(reply) # {} /\ Meant(reply) = Bytes(0, declared)
      /\ WellFormed(reply)
    BY <1>3, <1>4, HeadSays
<1>10. Intact'
    <2>1. /\ reply' = reply /\ req' = req /\ ended' = ended
        BY <1>2 DEF inputs
    <2>2. ASSUME IsFramed(reply) PROVE result'.body = Meant(reply)
        <3>1. CASE chunked
            BY <1>3, <1>5, <1>9, <3>1
        <3>2. CASE ~chunked
            <4>1. declared # -1
                BY <1>9, <2>2, <3>2 DEF IsFramed
            <4> QED BY <1>3, <1>5, <1>9, <3>2, <4>1
        <3> QED BY <3>1, <3>2
    <2>3. ASSUME ~IsFramed(reply) PROVE IsPrefix(result'.body, Meant(reply))
        <3>1. ~chunked /\ declared = -1
            BY <1>9, <2>3 DEF IsFramed
        <3>2. put <= Total(reply) /\ Meant(reply) = Bytes(0, Total(reply))
            BY <1>3, <1>9, <3>1
        <3>3. IsPrefix(Bytes(0, put), Bytes(0, Total(reply)))
            BY <1>4, <1>9, <3>2, FirstBytes
        <3> QED BY Zenon, <1>5, <3>2, <3>3
    <2> QED BY <1>3, <1>9, <2>1, <2>2, <2>3 DEF Intact
<1> QED BY <1>6, <1>7, <1>8, <1>10 DEF FetchInv

-----------------------------------------------------------------------------
(* The theorems.                                                           *)

LEMMA FetchInit ==
    ASSUME Init PROVE FetchInv
<1>1. TypeOK
    <2>1. <<>> \in Seq(AddressKinds) /\ <<>> \in Seq(Items) /\ Len(<<>>) = 0
        OBVIOUS
    <2>2. result \in [code : Codes \cup {None}, body : Seq(Items)]
        BY <2>1 DEF Init
    <2>3. req.head \in Nat /\ req.body \in Nat
        BY Limits DEF Init
    <2>4. /\ wire \in Seq(Items) /\ Len(wire) = 0 /\ addrs \in Seq(AddressKinds)
        BY <2>1 DEF Init
    <2>5. /\ tried \in 0..MaxAddrs /\ left \in 0..Budget /\ steps \in Nat
          /\ sent \in 0..(req.head + req.body) /\ put \in 0..MaxBody
        BY <2>3, Limits DEF Init
    <2>6. Len(wire) < MaxWire /\ at \in 0..Len(wire) /\ base \in 0..Len(wire)
        BY <2>4, Limits DEF Init
    <2>7. declared \in {-1} \cup Nat /\ fds \subseteq 1..MaxAddrs
        BY DEF Init
    <2> QED BY <2>2, <2>4, <2>5, <2>6, <2>7 DEF Init, TypeOK
<1>2. Channel
    BY DEF Init, Channel
<1>3. Ended
    BY DEF Init, Ended, Parsing
<1>4. Reading
    <2>1. Len(Stream) \in Nat
        BY <1>1, StreamType
    <2>2. Begins(<<>>, Stream)
        BY <2>1 DEF Begins
    <2> QED BY <2>2 DEF Init, Reading, Early
<1>5. Intact /\ RefusedForCause
    BY NoneIsNoCode DEF Init, Intact, RefusedForCause
<1> QED BY <1>1, <1>2, <1>3, <1>4, <1>5 DEF FetchInv

LEMMA FetchStep ==
    ASSUME FetchInv, [Next]_vars PROVE FetchInv'
<1>1. CASE Own
    <2>1. \/ QuietStep \/ Reject \/ ReadTooLarge
          \/ ClockFails \/ NoHost \/ NoAddress \/ TlsFails \/ SendFails \/ ReadFails \/ TakeFails
          \/ StatusLine \/ HeaderLine \/ BadLine \/ Blank
          \/ Chunk \/ LastChunk \/ BadChunk \/ Take
        BY Zenon, <1>1 DEF Own, QuietStep
    <2> QED BY <2>1, QuietInv, RejectKeeps, ReadTooLargeKeeps, TroubleSteps, TroubleKeeps,
               StatusKeeps, HeaderKeeps, BadLineKeeps, BlankKeeps, ChunkKeeps,
               LastChunkKeeps, BadChunkKeeps, TakeKeeps
<1>2. CASE Peer
    <2>1. \/ QuietStep \/ TlsFails \/ SendFails \/ ReadFails \/ ReadEnd
          \/ \E n \in 1..Len(Stream) : ReadSome(n)
        BY Zenon, <1>2 DEF Peer, QuietStep
    <2> QED BY <2>1, QuietInv, TroubleSteps, TroubleKeeps, ReadSomeKeeps, ReadEndKeeps
<1>3. CASE Tick
    BY <1>3, QuietInv DEF QuietStep
<1>4. CASE UNCHANGED vars
    <2>1. /\ UNCHANGED <<pc, ended, left, steps, sent, wire, result, calm>>
          /\ UNCHANGED <<req, allow, denyLocal, tls, reply>>
          /\ UNCHANGED <<addrs, tried, blocked, fds, ssl>>
          /\ UNCHANGED <<at, put, base, declared, chunked>>
        BY <1>4 DEF vars, inputs, chanVars, parseVars
    <2>2. TypeOK' /\ Channel' /\ Ended' /\ Reading'
        BY <2>1 DEF FetchInv, TypeOK, Channel, Ended, Reading, Stream
    <2>3. Rejection' = Rejection
        BY <2>1 DEF Rejection, HostAllowed
    <2>4. Intact' /\ RefusedForCause'
        BY <2>1, <2>3 DEF FetchInv, Intact, RefusedForCause
    <2> QED BY <2>2, <2>4 DEF FetchInv
<1> QED BY <1>1, <1>2, <1>3, <1>4 DEF Next

(* The whole invariant holds, whatever the peer and the network do.        *)
THEOREM FetchInvariant == Spec => []FetchInv
BY FetchInit, FetchStep, PTL DEF Spec

(* The client's variables keep their types: no length, position or code    *)
(* of fetch_api.c, fetch.c and fetch_reply.c leaves its range; the body    *)
(* decoded in place stays within FETCH_MAX_BODY and the wire buffer.       *)
THEOREM FetchTypeCorrect == Spec => []TypeOK
<1>1. FetchInv => TypeOK
    BY DEF FetchInv
<1> QED BY <1>1, FetchInvariant, PTL

(* perform returns OK only for a well-formed reply, and a framed body is   *)
(* returned exactly as the peer framed it, chunked or with a length, in    *)
(* whatever pieces read_reply got it.                                      *)
THEOREM BodiesAreWhole == Spec => []Intact
<1>1. FetchInv => Intact
    BY DEF FetchInv
<1> QED BY <1>1, FetchInvariant, PTL

(* Nothing but the request, the peer, the network, the memory or a limit   *)
(* makes perform fail: parse_reply and decode_chunked refuse no good reply.*)
THEOREM FetchRefusesForCause == Spec => []RefusedForCause
<1>1. FetchInv => RefusedForCause
    BY DEF FetchInv
<1> QED BY <1>1, FetchInvariant, PTL

(* channel_close runs on every way out of perform, and connect_target      *)
(* never holds two sockets.                                                *)
THEOREM NoChannelIsLeft == Spec => []ChannelClosed
<1>1. ASSUME FetchInv PROVE ChannelClosed
    <2>1. Channel
        BY <1>1 DEF FetchInv
    <2>2. fds = {} \/ fds = {tried}
        BY <2>1 DEF Channel
    <2>3. \A a, b \in fds : a = b
        BY <2>2
    <2>4. pc \in {"status", "lines", "chunks", "take", "done", "address"} => fds = {} /\ ~ssl
        BY <2>1 DEF Channel
    <2> QED BY <2>3, <2>4 DEF ChannelClosed
<1> QED BY <1>1, FetchInvariant, PTL
=============================================================================
