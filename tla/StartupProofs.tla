--------------------------- MODULE StartupProofs ----------------------------
(* What migrate_run and main guarantee for any number of processes, files, *)
(* tasks and threads, whoever crashes and whatever is done to the          *)
(* directory meanwhile.                                                    *)
EXTENDS Startup, TLAPS, FiniteSetTheorems, SequenceTheorems, FunctionTheorems

-----------------------------------------------------------------------------
(* The inductive invariant of the migrations.                              *)

(* By version, each version once.                                          *)
Sorted(s) == \A i, j \in 1..Len(s) : i < j => s[i].version < s[j].version

(* s begins t.                                                             *)
Begins(s, t) == Len(s) <= Len(t) /\ \A i \in 1..Len(s) : s[i] = t[i]

(* The files that the first loop has found recorded are recorded in their  *)
(* order and at least as far down as in the directory.  A file that is     *)
(* missing from the directory would push the others up, and one of them    *)
(* past the end of the records.                                            *)
FoundIn(w, fs, a) ==
    \A j \in 1..Len(w) : j < a =>
        /\ \E m \in 1..Len(w) : w[m] = fs[j]
        /\ \A i \in 1..j, k, l \in 1..Len(w) :
              fs[i] = w[k] /\ fs[j] = w[l] => i <= k /\ j - i <= l - k

Found(p) == FoundIn(work, files[p], at[p])

Progress(p) ==
    /\ pc[p] = "check" => /\ work = applied /\ Len(work) <= Len(files[p])
                          /\ at[p] \in 1..(Len(files[p]) + 1)
                          /\ Found(p)
    /\ pc[p] = "apply" => at[p] = Len(work) + 1 /\ Begins(work, files[p])
    /\ pc[p] = "commit" => work = files[p]
    /\ pc[p] = "started" => Begins(files[p], applied)

OneWriter ==
    /\ \A p \in Processes : pc[p] \in {"check", "apply", "commit"} <=> writer = p
    /\ writer # None => Begins(applied, work)

MigrationsInv ==
    /\ MigrationsTypeOK /\ IsFiniteSet(dir)
    /\ Sorted(applied) /\ \A p \in Processes : Sorted(files[p])
    /\ OneWriter
    /\ \A p \in Processes : Progress(p)

(* The inductive invariant of main: a thread lives only while main waits   *)
(* for the server or for it, and main begins only after migrate_run.       *)
SchedulerInv ==
    /\ SchedulerTypeOK
    /\ main \in {"prepare", "startup", "validate"} =>
           \A r \in Repeats : task[r] = "unborn"
    /\ main \in {"close", "exit"} => Alive = {}
    /\ main # "exit" => database
    /\ main \in {"startup", "validate", "start", "serve", "stop", "join"} =>
           \A r \in Repeats : arena[r] = "ready"
    /\ main = "prepare" => ran = 0
    /\ ~Started => main = "prepare"

-----------------------------------------------------------------------------
(* The sort.                                                               *)

(* The place of a file among those of its directory.                       *)
Rank(fs, f) == Cardinality({g \in fs : g.version <= f.version})

(* Files of different versions can be put in order, so the sort does it.   *)
LEMMA ByVersionSorts ==
    ASSUME NEW fs \in SUBSET File, IsFiniteSet(fs),
           \A f, g \in fs : f.version = g.version => f = g
    PROVE  /\ ByVersion(fs) \in Seq(File)
           /\ Len(ByVersion(fs)) = Cardinality(fs)
           /\ Sorted(ByVersion(fs))
<1> DEFINE n == Cardinality(fs)
           Upto(f) == {g \in fs : g.version <= f.version}
           rank == [f \in fs |-> Rank(fs, f)]
<1>1. n \in Nat
    BY FS_CardinalityType
<1>2. \A f \in fs : f.version \in Nat
    BY MigrationsAssumption DEF File
<1>3. ASSUME NEW f \in fs
      PROVE  /\ IsFiniteSet(Upto(f)) /\ Rank(fs, f) = Cardinality(Upto(f))
             /\ Rank(fs, f) \in 1..n
    <2>1. Upto(f) \in SUBSET fs /\ f \in Upto(f)
        BY <1>2
    <2>2. IsFiniteSet(Upto(f)) /\ Cardinality(Upto(f)) <= n
        BY <2>1, FS_Subset
    <2>3. Cardinality(Upto(f)) \in Nat /\ Cardinality(Upto(f)) # 0
        BY <2>1, <2>2, FS_CardinalityType, FS_EmptySet
    <2> QED BY <1>1, <2>2, <2>3 DEF Rank
<1>r. ASSUME NEW f \in fs PROVE Rank(fs, f) \in Nat
    <2>1. Rank(fs, f) \in 1..n
        BY <1>3
    <2> QED BY <1>1, <2>1
<1>4. ASSUME NEW f \in fs, NEW g \in fs, f.version < g.version
      PROVE  Rank(fs, f) < Rank(fs, g)
    <2>1. Upto(f) \in SUBSET Upto(g) /\ g \in Upto(g) /\ g \notin Upto(f)
        BY <1>2, <1>4
    <2>2. Cardinality(Upto(f)) <= Cardinality(Upto(g))
          /\ Cardinality(Upto(f)) # Cardinality(Upto(g))
        BY <1>3, <2>1, FS_Subset
    <2>3. Rank(fs, f) <= Rank(fs, g) /\ Rank(fs, f) # Rank(fs, g)
        BY <1>3, <2>2
    <2> QED BY <1>r, <2>3
<1>5. rank \in Injection(fs, 1..n)
    <2>1. rank \in [fs -> 1..n]
        BY <1>3
    <2>2. ASSUME NEW f \in fs, NEW g \in fs, f # g PROVE rank[f] # rank[g]
        <3>1. f.version < g.version \/ g.version < f.version
            BY <1>2, <2>2
        <3> QED BY <1>4, <1>r, <3>1
    <2> QED BY <2>1, <2>2 DEF Injection, IsInjective
<1>6. rank \in Surjection(fs, 1..n)
    <2>1. IsFiniteSet(1..n) /\ Cardinality(1..n) = n
        BY <1>1, FS_Interval
    <2> QED BY <1>5, <2>1, FS_Injection
<1> DEFINE s == [i \in 1..n |-> CHOOSE f \in fs : rank[f] = i]
<1>7. ASSUME NEW i \in 1..n PROVE s[i] \in fs /\ Rank(fs, s[i]) = i
    <2>1. \E f \in fs : rank[f] = i
        BY <1>6 DEF Surjection
    <2>2. s[i] \in fs /\ rank[s[i]] = i
        BY <2>1
    <2> QED BY <2>2
<1>8. ASSUME NEW i \in 1..n, NEW j \in 1..n, i < j
      PROVE  s[i].version < s[j].version
    <2>1. s[i] \in fs /\ s[j] \in fs /\ Rank(fs, s[i]) < Rank(fs, s[j])
        BY <1>7, <1>8
    <2>2. ~(s[j].version < s[i].version)
        BY <1>1, <1>4, <1>7, <2>1
    <2>3. s[i].version # s[j].version
        BY <1>7, <1>8, <2>1
    <2> HIDE DEF s
    <2> QED BY <1>2, <2>1, <2>2, <2>3
<1>9. s \in [1..n -> fs] /\ DOMAIN s = 1..n
    BY <1>7
<1> HIDE DEF s, rank
<1>10. \E q \in [1..n -> fs] : \A i, j \in DOMAIN q : i < j => q[i].version < q[j].version
    BY <1>8, <1>9
<1>11. /\ ByVersion(fs) \in [1..n -> fs]
       /\ \A i, j \in DOMAIN ByVersion(fs) :
             i < j => ByVersion(fs)[i].version < ByVersion(fs)[j].version
    BY <1>10 DEF ByVersion
<1>12. ByVersion(fs) \in Seq(File) /\ Len(ByVersion(fs)) = n
    <2> DEFINE b == ByVersion(fs)
    <2>1. b \in [1..n -> File]
        BY <1>11
    <2> HIDE DEF b
    <2>2. b \in Seq(File) /\ Len(b) = n
        BY <1>1, <2>1, SeqDef
    <2> QED BY <2>2 DEF b
<1> QED BY <1>11, <1>12 DEF Sorted

-----------------------------------------------------------------------------
(* Sequences.                                                              *)

(* Begins is IsPrefix.                                                     *)
LEMMA BeginsIsPrefix ==
    ASSUME NEW S, NEW s \in Seq(S), NEW t \in Seq(S), Begins(s, t)
    PROVE  IsPrefix(s, t)
<1>1. Len(s) \in Nat /\ Len(t) \in Nat /\ Len(s) <= Len(t)
      /\ \A i \in 1..Len(s) : s[i] = t[i] /\ s[i] \in S /\ t[i] \in S
    BY LenProperties, ElementOfSeq DEF Begins
<1> DEFINE n == Len(s)
           a == SubSeq(s, 1, n)
           b == SubSeq(t, 1, n)
<1>2. n \in Nat /\ n \in Int /\ 1 \in Int /\ (\A i \in 1..n : s[i] \in S)
      /\ (\A i \in 1..n : t[i] \in S)
    BY <1>1
<1> HIDE DEF n
<1>3. a \in Seq(S) /\ Len(a) = n /\ \A i \in 1..n : a[i] = s[i]
    BY <1>2, SubSeqProperties
<1>4. b \in Seq(S) /\ Len(b) = n /\ \A i \in 1..n : b[i] = t[i]
    BY <1>2, SubSeqProperties
<1>5. \A i \in 1..n : s[i] = t[i]
    BY <1>1 DEF n
<1> HIDE DEF a, b
<1>6. a = b
    BY <1>3, <1>4, <1>5, SeqEqual
<1> QED BY <1>1, <1>6 DEF IsPrefix, a, b, n

(* What begins the beginning begins the whole.                             *)
LEMMA BeginsTrans ==
    ASSUME NEW r \in Seq(File), NEW s \in Seq(File), NEW t \in Seq(File),
           Begins(r, s), Begins(s, t)
    PROVE  Begins(r, t)
<1>1. Len(r) \in Nat /\ Len(s) \in Nat /\ Len(t) \in Nat
    BY LenProperties
<1>2. Len(r) <= Len(s) /\ Len(s) <= Len(t)
    BY DEF Begins
<1>3. ASSUME NEW i \in 1..Len(r) PROVE r[i] = t[i]
    <2>1. i \in 1..Len(s)  BY <1>1, <1>2
    <2> QED BY <2>1 DEF Begins
<1> QED BY <1>1, <1>2, <1>3 DEF Begins

(* The start of a sorted list is sorted.                                   *)
LEMMA BeginsSorted ==
    ASSUME NEW s \in Seq(File), NEW t \in Seq(File), Begins(s, t), Sorted(t)
    PROVE  Sorted(s)
<1>1. Len(s) \in Nat /\ Len(t) \in Nat /\ Len(s) <= Len(t)
      /\ \A i \in 1..Len(s) : s[i] = t[i]
    BY LenProperties DEF Begins
<1> SUFFICES ASSUME NEW i \in 1..Len(s), NEW j \in 1..Len(s), i < j
             PROVE  s[i].version < s[j].version
    BY DEF Sorted
<1>2. i \in 1..Len(t) /\ j \in 1..Len(t)
    BY <1>1
<1> QED BY <1>1, <1>2 DEF Sorted

(* In a sorted list a smaller version stands before a larger one.          *)
LEMMA SortedPlaces ==
    ASSUME NEW s \in Seq(File), Sorted(s),
           NEW k \in 1..Len(s), NEW l \in 1..Len(s)
    PROVE  /\ s[k].version < s[l].version => k < l
           /\ s[k] = s[l] => k = l
<1>1. Len(s) \in Nat /\ s[k] \in File /\ s[l] \in File
    BY LenProperties, ElementOfSeq
<1>2. s[k].version \in Nat /\ s[l].version \in Nat
    BY <1>1, MigrationsAssumption DEF File
<1>3. k < l => s[k].version < s[l].version
    BY DEF Sorted
<1>4. l < k => s[l].version < s[k].version
    BY DEF Sorted
<1> QED BY <1>1, <1>2, <1>3, <1>4

-----------------------------------------------------------------------------
(* The first loop.                                                         *)

(* One more file is found recorded.                                        *)
LEMMA FoundStep ==
    ASSUME NEW w \in Seq(File), NEW fs \in Seq(File), Sorted(w), Sorted(fs),
           Len(w) <= Len(fs), NEW a \in 1..Len(w),
           \E m \in 1..Len(w) : w[m] = fs[a],
           \A j \in 1..Len(w) : j < a =>
               /\ \E m \in 1..Len(w) : w[m] = fs[j]
               /\ \A i \in 1..j, k, l \in 1..Len(w) :
                     fs[i] = w[k] /\ fs[j] = w[l] => i <= k /\ j - i <= l - k,
           NEW i \in 1..a, NEW k \in 1..Len(w), NEW l \in 1..Len(w),
           fs[i] = w[k], fs[a] = w[l]
    PROVE  i <= k /\ a - i <= l - k
<1>1. Len(w) \in Nat /\ Len(fs) \in Nat /\ a \in 1..Len(fs)
    BY LenProperties
<1>2. CASE a = 1
    <2>1. i = a  BY <1>1, <1>2
    <2>2. k = l  BY <2>1, SortedPlaces
    <2> QED BY <1>1, <1>2, <2>1, <2>2
<1>3. CASE a # 1
    <2> DEFINE b == a - 1
    <2>1. b \in 1..Len(w) /\ b < a /\ b \in 1..Len(fs)
        BY <1>1, <1>3
    <2>2. PICK m \in 1..Len(w) : w[m] = fs[b]
        BY <2>1
    <2>3. fs[b].version < fs[a].version
        BY <1>1, <2>1 DEF Sorted
    <2>4. m < l
        BY <2>2, <2>3, SortedPlaces
    <2>5. b \in 1..b /\ b <= m
        <3>1. b \in 1..b  BY <2>1
        <3> QED BY <2>1, <2>2, <3>1
    <2>6. CASE i = a
        <3>1. k = l  BY <2>6, SortedPlaces
        <3> QED BY <1>1, <2>4, <2>5, <2>6, <3>1
    <2>7. CASE i # a
        <3>1. i \in 1..b  BY <1>1, <2>7
        <3>2. i <= k /\ b - i <= m - k
            BY <2>1, <2>2, <3>1
        <3> QED BY <1>1, <2>4, <3>1, <3>2
    <2> QED BY <2>6, <2>7
<1> QED BY <1>2, <1>3

(* When all have been looked at, the records begin the directory: nothing  *)
(* that was applied is missing, edited, or preceded by a new file.         *)
LEMMA FoundAll ==
    ASSUME NEW w \in Seq(File), NEW fs \in Seq(File), Len(w) <= Len(fs),
           \A j \in 1..Len(w) :
               /\ \E m \in 1..Len(w) : w[m] = fs[j]
               /\ \A i \in 1..j, k, l \in 1..Len(w) :
                     fs[i] = w[k] /\ fs[j] = w[l] => i <= k /\ j - i <= l - k
    PROVE  Begins(w, fs)
<1>1. Len(w) \in Nat /\ Len(fs) \in Nat
    BY LenProperties
<1> SUFFICES ASSUME NEW i \in 1..Len(w) PROVE w[i] = fs[i]
    BY DEF Begins
<1> DEFINE n == Len(w)
<1>2. n \in 1..n /\ i \in 1..n
    BY <1>1
<1>3. PICK k \in 1..n : w[k] = fs[i]
    OBVIOUS
<1>4. PICK l \in 1..n : w[l] = fs[n]
    BY <1>2
<1>5. i <= k /\ n - i <= l - k
    BY <1>2, <1>3, <1>4
<1>6. i = k
    BY <1>1, <1>5
<1> QED BY <1>3, <1>6

-----------------------------------------------------------------------------
(* Every step of migrate_run keeps its invariant.                          *)

(* The types, as the other lemmas use them.                                *)
LEMMA MigrationTypes ==
    ASSUME MigrationsTypeOK, NEW p \in Processes
    PROVE  /\ applied \in Seq(File) /\ work \in Seq(File) /\ files[p] \in Seq(File)
           /\ Len(applied) \in Nat /\ Len(work) \in Nat /\ Len(files[p]) \in Nat
           /\ DOMAIN work = 1..Len(work) /\ DOMAIN applied = 1..Len(applied)
           /\ at[p] \in Nat
BY LenProperties DEF MigrationsTypeOK

(* Where a process is depends on its own variables and on the records.     *)
LEMMA ProgressStays ==
    ASSUME NEW q \in Processes, Progress(q), work' = work, applied' = applied,
           pc'[q] = pc[q], files'[q] = files[q], at'[q] = at[q]
    PROVE  Progress(q)'
BY DEF Progress, Found

(* The other processes: a writer is alone, and a process that has started  *)
(* sees nothing but additions.                                             *)
LEMMA OthersProgress ==
    ASSUME MigrationsInv, NEW p \in Processes, MigrationStep(p) \/ End(p),
           NEW q \in Processes \ {p}
    PROVE  Progress(q)' /\ Sorted(files'[q])
<1> USE DEF MigrationsInv
<1>1. pc'[q] = pc[q] /\ files'[q] = files[q] /\ at'[q] = at[q]
    BY DEF MigrationStep, ReadFiles, Begin, Check, CheckDone, Apply, ApplyDone,
           Commit, MigrationFails, End, Abandon, MigrationsTypeOK
<1>2. Progress(q)
    OBVIOUS
<1>3. CASE pc[q] \in {"check", "apply", "commit"}
    <2>1. writer = q /\ writer # None /\ pc[p] \notin {"check", "apply", "commit"}
        BY <1>3, MigrationsAssumption DEF OneWriter
    <2>2. UNCHANGED <<applied, work>>
        BY <2>1 DEF MigrationStep, ReadFiles, Begin, Check, CheckDone, Apply,
                    ApplyDone, Commit, MigrationFails, End, Abandon
    <2> QED BY <1>1, <1>2, <2>2, ProgressStays
<1>4. CASE pc[q] = "started"
    <2>1. Begins(files[q], applied)
        BY <1>2, <1>4 DEF Progress
    <2>2. CASE Commit(p)
        <3>1. applied' = work /\ writer = p /\ writer # None
            BY <2>2, MigrationsAssumption DEF Commit, OneWriter
        <3>2. Begins(applied, work)
            BY <3>1 DEF OneWriter
        <3>3. Begins(files[q], work)
            BY <2>1, <3>2, BeginsTrans, MigrationTypes
        <3> QED BY <1>1, <1>4, <3>1, <3>3 DEF Progress
    <2>3. CASE ~Commit(p)
        <3>1. applied' = applied
            BY <2>3 DEF MigrationStep, ReadFiles, Begin, Check, CheckDone, Apply,
                        ApplyDone, MigrationFails, End
        <3> QED BY <1>1, <1>4, <2>1, <3>1 DEF Progress
    <2> QED BY <2>2, <2>3
<1>5. CASE pc[q] \notin {"check", "apply", "commit", "started"}
    BY <1>1, <1>5 DEF Progress
<1> QED BY <1>1, <1>3, <1>4, <1>5

(* Who leaves migrate_run, by failing or by ending, leaves no transaction. *)
LEMMA AbandonStep ==
    ASSUME MigrationsInv, NEW p \in Processes, MigrationFails(p) \/ End(p)
    PROVE  MigrationsInv'
<1> USE DEF MigrationsInv
<1>1. /\ pc'[p] \in {"off", "refused"} /\ files'[p] = <<>>
      /\ \A q \in Processes \ {p} : pc'[q] = pc[q]
      /\ UNCHANGED <<dir, applied>>
      /\ writer' = IF writer = p THEN None ELSE writer
      /\ work' = IF writer = p THEN <<>> ELSE work
    BY DEF MigrationFails, End, Abandon, MigrationsTypeOK
<1>2. MigrationsTypeOK'
    <2>1. <<>> \in Seq(File) /\ Len(<<>>) = 0 /\ 0 <= MaxFiles
        BY EmptySeq, MigrationsAssumption
    <2>2. files' = [files EXCEPT ![p] = <<>>] /\ at' = [at EXCEPT ![p] = 0]
        BY DEF MigrationFails, End, Abandon
    <2>3. pc' = [pc EXCEPT ![p] = "off"] \/ pc' = [pc EXCEPT ![p] = "refused"]
        BY DEF MigrationFails, End
    <2>4. \A q \in Processes : Len(files'[q]) <= MaxFiles
        BY <1>1, <2>1, <2>2 DEF MigrationsTypeOK
    <2>5. files' \in [Processes -> Seq(File)] /\ at' \in [Processes -> Nat]
        BY <2>1, <2>2 DEF MigrationsTypeOK
    <2>6. pc' \in [Processes -> {"off", "begin", "check", "apply", "commit",
                                "started", "refused"}]
        BY <2>3 DEF MigrationsTypeOK
    <2>7. work' \in Seq(File) /\ writer' \in Processes \cup {None}
        BY <1>1, <2>1 DEF MigrationsTypeOK
    <2> QED BY <1>1, <2>4, <2>5, <2>6, <2>7 DEF MigrationsTypeOK
<1>3. OneWriter'
    <2>1. \A q \in Processes \ {p} : q # None /\ (writer' = q <=> writer = q)
        BY <1>1, MigrationsAssumption
    <2>2. p # None /\ writer' # p
        BY <1>1, MigrationsAssumption
    <2>3. writer' # None => Begins(applied', work')
        BY <1>1 DEF OneWriter
    <2> QED BY <1>1, <2>1, <2>2, <2>3 DEF OneWriter
<1>4. Progress(p)'
    BY <1>1 DEF Progress
<1>5. Sorted(files'[p])
    BY <1>1, EmptySeq DEF Sorted
<1>6. \A q \in Processes : Progress(q)' /\ Sorted(files'[q])
    BY <1>4, <1>5, OthersProgress DEF MigrationStep
<1> QED BY <1>1, <1>2, <1>3, <1>6

(* A step inside migrate_run.                                              *)
LEMMA MigrationStepInv ==
    ASSUME MigrationsInv, NEW p \in Processes, MigrationStep(p)
    PROVE  MigrationsInv'
<1> USE DEF MigrationsInv
<1>o. \A q \in Processes \ {p} : Progress(q)' /\ Sorted(files'[q])
    BY OthersProgress
<1>p. Progress(p) /\ p # None
    BY MigrationsAssumption
<1>t. /\ applied \in Seq(File) /\ work \in Seq(File) /\ files[p] \in Seq(File)
      /\ Len(applied) \in Nat /\ Len(work) \in Nat /\ Len(files[p]) \in Nat
      /\ DOMAIN work = 1..Len(work) /\ DOMAIN applied = 1..Len(applied)
      /\ at[p] \in Nat
    BY MigrationTypes
<1>q. ASSUME MigrationsTypeOK', UNCHANGED <<dir, applied>>, OneWriter',
             Progress(p)', Sorted(files'[p])
      PROVE  MigrationsInv'
    BY <1>q, <1>o
<1>w. ASSUME UNCHANGED <<writer, applied>>, pc[p] \in {"check", "apply", "commit"},
             pc'[p] \in {"check", "apply", "commit"},
             \A q \in Processes \ {p} : pc'[q] = pc[q], Begins(applied, work')
      PROVE  OneWriter'
    BY <1>w DEF OneWriter
<1>x. pc[p] \in {"check", "apply", "commit"} => writer = p /\ Begins(applied, work)
    BY <1>p DEF OneWriter
<1>1. CASE ReadFiles(p)
    <2>1. UNCHANGED <<dir, applied, writer, work, at>>
        BY <1>1 DEF ReadFiles
    <2>2. /\ pc[p] = "off" /\ pc'[p] \in {"begin", "refused"}
          /\ \A q \in Processes \ {p} : pc'[q] = pc[q]
        BY <1>1 DEF ReadFiles, MigrationsTypeOK
    <2>3. OneWriter'
        BY <2>1, <2>2 DEF OneWriter
    <2>4. Progress(p)'
        BY <2>2 DEF Progress
    <2>5. CASE Readable(dir)
        <3>1. files' = [files EXCEPT ![p] = ByVersion(dir)]
            BY <1>1, <2>5 DEF ReadFiles
        <3>2. /\ ByVersion(dir) \in Seq(File) /\ Sorted(ByVersion(dir))
              /\ Len(ByVersion(dir)) <= MaxFiles
            BY <2>5, ByVersionSorts DEF Readable, MigrationsTypeOK
        <3>3. files'[p] = ByVersion(dir)
            BY <3>1 DEF MigrationsTypeOK
        <3>4. MigrationsTypeOK'
            BY <1>1, <3>1, <3>2 DEF ReadFiles, MigrationsTypeOK
        <3> QED BY <2>1, <2>3, <2>4, <3>2, <3>3, <3>4, <1>q
    <2>6. CASE ~Readable(dir)
        <3>1. files' = files
            BY <1>1, <2>6 DEF ReadFiles
        <3>2. MigrationsTypeOK'
            BY <1>1, <2>6 DEF ReadFiles, MigrationsTypeOK
        <3> QED BY <2>1, <2>3, <2>4, <3>1, <3>2, <1>q
    <2> QED BY <2>5, <2>6
<1>2. CASE Begin(p)
    <2>1. /\ writer = None /\ writer' = p /\ work' = applied /\ at'[p] = 1
          /\ pc'[p] = "check" /\ UNCHANGED <<dir, applied, files>>
          /\ \A q \in Processes \ {p} : pc'[q] = pc[q]
          /\ Len(applied) <= Len(files[p])
        BY <1>2 DEF Begin, MigrationsTypeOK
    <2>2. MigrationsTypeOK'
        BY <1>2 DEF Begin, MigrationsTypeOK
    <2>3. Begins(applied, applied)
        BY <1>t DEF Begins
    <2>4. \A q \in Processes : pc[q] \notin {"check", "apply", "commit"}
        BY <2>1, MigrationsAssumption DEF OneWriter
    <2>5. OneWriter'
        BY <2>1, <2>3, <2>4, <1>p DEF OneWriter
    <2>6. Found(p)'
        BY <2>1 DEF Found, FoundIn
    <2>7. Progress(p)'
        BY <1>t, <2>1, <2>6 DEF Progress
    <2> QED BY <2>1, <2>2, <2>5, <2>7, <1>q
<1>3. CASE Check(p)
    <2>1. /\ pc[p] = "check" /\ at[p] <= Len(files[p]) /\ Expected(p)
          /\ at'[p] = at[p] + 1
          /\ UNCHANGED <<dir, applied, writer, work, pc, files>>
        BY <1>3 DEF Check, MigrationsTypeOK
    <2>2. MigrationsTypeOK'
        BY <1>3 DEF Check, MigrationsTypeOK
    <2>3. OneWriter'
        BY <2>1, <1>x, <1>w
    <2>4. /\ work = applied /\ Len(work) <= Len(files[p])
          /\ at[p] \in 1..(Len(files[p]) + 1) /\ Found(p)
        BY <2>1, <1>p DEF Progress
    <2>5. Found(p)'
        <3> SUFFICES FoundIn(work, files[p], at[p] + 1)
            BY <2>1 DEF Found
        <3> SUFFICES ASSUME NEW j \in 1..Len(work), j < at[p] + 1
                     PROVE  /\ \E m \in 1..Len(work) : work[m] = files[p][j]
                            /\ \A i \in 1..j, k, l \in 1..Len(work) :
                                  files[p][i] = work[k] /\ files[p][j] = work[l]
                                      => i <= k /\ j - i <= l - k
            BY DEF FoundIn
        <3>1. CASE j < at[p]
            BY <2>4, <3>1 DEF Found, FoundIn
        <3>2. CASE j = at[p]
            <4>2. \E m \in 1..Len(work) : work[m] = files[p][j]
                BY <1>t, <2>1, <3>2 DEF Expected, Recorded
            <4>3. \A h \in 1..Len(work) : h < j =>
                    /\ \E m \in 1..Len(work) : work[m] = files[p][h]
                    /\ \A i \in 1..h, k, l \in 1..Len(work) :
                          files[p][i] = work[k] /\ files[p][h] = work[l]
                              => i <= k /\ h - i <= l - k
                BY <2>4, <3>2 DEF Found, FoundIn
            <4>4. Sorted(work) /\ Sorted(files[p])
                BY <2>4
            <4>5. ASSUME NEW i \in 1..j, NEW k \in 1..Len(work),
                         NEW l \in 1..Len(work),
                         files[p][i] = work[k], files[p][j] = work[l]
                  PROVE  i <= k /\ j - i <= l - k
                BY <1>t, <2>4, <4>2, <4>3, <4>4, <4>5, FoundStep
            <4> QED BY <4>2, <4>5
        <3>3. j < at[p] \/ j = at[p]
            BY <1>t
        <3> QED BY <3>1, <3>2, <3>3
    <2>6. Progress(p)'
        BY <1>t, <2>1, <2>4, <2>5 DEF Progress
    <2> QED BY <2>1, <2>2, <2>3, <2>6, <1>q
<1>4. CASE CheckDone(p)
    <2>1. /\ pc[p] = "check" /\ at[p] > Len(files[p])
          /\ at'[p] = Len(work) + 1 /\ pc'[p] = "apply"
          /\ \A q \in Processes \ {p} : pc'[q] = pc[q]
          /\ UNCHANGED <<dir, applied, writer, work, files>>
        BY <1>4 DEF CheckDone, MigrationsTypeOK
    <2>2. MigrationsTypeOK'
        BY <1>4, <1>t DEF CheckDone, MigrationsTypeOK
    <2>3. OneWriter'
        BY <2>1, <1>x, <1>w
    <2>4. Len(work) <= Len(files[p]) /\ Found(p)
        BY <2>1, <1>p DEF Progress
    <2>5. \A j \in 1..Len(work) : j < at[p]
        BY <1>t, <2>1, <2>4
    <2>6. \A j \in 1..Len(work) :
            /\ \E m \in 1..Len(work) : work[m] = files[p][j]
            /\ \A i \in 1..j, k, l \in 1..Len(work) :
                  files[p][i] = work[k] /\ files[p][j] = work[l]
                      => i <= k /\ j - i <= l - k
        BY <2>4, <2>5 DEF Found, FoundIn
    <2>7. Begins(work, files[p])
        BY <1>t, <2>4, <2>6, FoundAll
    <2>8. Progress(p)'
        BY <2>1, <2>7 DEF Progress
    <2> QED BY <2>1, <2>2, <2>3, <2>8, <1>q
<1>5. CASE Apply(p)
    <2>1. /\ pc[p] = "apply" /\ at[p] <= Len(files[p])
          /\ work' = Append(work, files[p][at[p]]) /\ at'[p] = at[p] + 1
          /\ UNCHANGED <<dir, applied, writer, pc, files>>
        BY <1>5 DEF Apply, MigrationsTypeOK
    <2>2. at[p] = Len(work) + 1 /\ Begins(work, files[p])
        BY <2>1, <1>p DEF Progress
    <2>3. files[p][at[p]] \in File
        BY <1>t, <2>1, <2>2, ElementOfSeq
    <2>4. /\ work' \in Seq(File) /\ Len(work') = Len(work) + 1
          /\ \A i \in 1..Len(work) : work'[i] = work[i]
          /\ work'[Len(work) + 1] = files[p][at[p]]
        BY <1>t, <2>1, <2>3, AppendProperties
    <2>5. MigrationsTypeOK'
        BY <1>5, <2>4 DEF Apply, MigrationsTypeOK
    <2>6. Begins(work', files[p])
        BY <1>t, <2>1, <2>2, <2>4 DEF Begins
    <2>7. Begins(work, work')
        BY <1>t, <2>4 DEF Begins
    <2>8. Begins(applied, work')
        BY <1>t, <1>x, <2>1, <2>4, <2>7, BeginsTrans
    <2>9. OneWriter'
        BY <2>1, <2>8, <1>w
    <2>10. Progress(p)'
        BY <2>1, <2>2, <2>4, <2>6 DEF Progress
    <2> QED BY <2>1, <2>5, <2>9, <2>10, <1>q
<1>6. CASE ApplyDone(p)
    <2>1. /\ pc[p] = "apply" /\ at[p] > Len(files[p]) /\ pc'[p] = "commit"
          /\ \A q \in Processes \ {p} : pc'[q] = pc[q]
          /\ UNCHANGED <<dir, applied, writer, work, files, at>>
        BY <1>6 DEF ApplyDone, MigrationsTypeOK
    <2>2. MigrationsTypeOK'
        BY <1>6 DEF ApplyDone, MigrationsTypeOK
    <2>3. OneWriter'
        BY <2>1, <1>x, <1>w
    <2>4. at[p] = Len(work) + 1 /\ Begins(work, files[p])
        BY <2>1, <1>p DEF Progress
    <2>5. Len(work) = Len(files[p]) /\ \A i \in 1..Len(work) : work[i] = files[p][i]
        BY <1>t, <2>1, <2>4 DEF Begins
    <2>6. work = files[p]
        BY <1>t, <2>5, SeqEqual
    <2>7. Progress(p)'
        BY <2>1, <2>6 DEF Progress
    <2> QED BY <2>1, <2>2, <2>3, <2>7, <1>q
<1>7. CASE Commit(p)
    <2>1. /\ pc[p] = "commit" /\ applied' = work /\ writer' = None
          /\ pc'[p] = "started" /\ UNCHANGED <<dir, files>>
          /\ \A q \in Processes \ {p} : pc'[q] = pc[q]
        BY <1>7 DEF Commit, MigrationsTypeOK
    <2>2. MigrationsTypeOK'
        BY <1>7, <1>t, EmptySeq DEF Commit, MigrationsTypeOK
    <2>3. work = files[p] /\ writer = p
        BY <2>1, <1>p, <1>x DEF Progress
    <2>4. \A q \in Processes \ {p} : pc[q] \notin {"check", "apply", "commit"}
        BY <2>3 DEF OneWriter
    <2>5. OneWriter'
        BY <2>1, <2>4, MigrationsAssumption DEF OneWriter
    <2>6. Begins(files[p], applied')
        BY <1>t, <2>1, <2>3 DEF Begins
    <2>7. Progress(p)'
        BY <2>1, <2>6 DEF Progress
    <2>8. Sorted(applied') /\ Sorted(files'[p])
        BY <2>1, <2>3
    <2> QED BY <1>o, <2>1, <2>2, <2>5, <2>7, <2>8
<1>8. CASE MigrationFails(p)  BY <1>8, AbandonStep
<1> QED BY <1>1, <1>2, <1>3, <1>4, <1>5, <1>6, <1>7, <1>8 DEF MigrationStep

(* People change the directory, one file at a time.                        *)
LEMMA ChangeFilesInv ==
    ASSUME MigrationsInv, ChangeFiles
    PROVE  MigrationsInv'
<1>1. UNCHANGED <<applied, writer, work, pc, files, at>>
    BY DEF ChangeFiles
<1>2. PICK f \in Candidates : dir' = dir \cup {f} \/ dir' = dir \ {f}
    BY DEF ChangeFiles
<1>3. IsFiniteSet(dir') /\ dir' \in SUBSET File
    <2>1. IsFiniteSet(dir) /\ dir \in SUBSET File /\ f \in File
        BY MigrationsAssumption DEF MigrationsInv, MigrationsTypeOK
    <2>2. IsFiniteSet(dir \cup {f}) /\ dir \cup {f} \in SUBSET File
        BY <2>1, FS_AddElement
    <2>3. IsFiniteSet(dir \ {f}) /\ dir \ {f} \in SUBSET File
        BY <2>1, FS_RemoveElement
    <2> QED BY <1>2, <2>2, <2>3
<1>4. MigrationsTypeOK'
    BY <1>1, <1>3 DEF MigrationsInv, MigrationsTypeOK
<1>5. OneWriter'
    BY <1>1 DEF MigrationsInv, OneWriter
<1>6. \A p \in Processes : Progress(p)'
    BY <1>1, ProgressStays DEF MigrationsInv
<1> QED BY <1>1, <1>3, <1>4, <1>5, <1>6 DEF MigrationsInv

LEMMA MigrationsInitInv ==
    ASSUME MigrationsInit
    PROVE  MigrationsInv
<1>1. <<>> \in Seq(File) /\ Len(<<>>) = 0 /\ 0 <= MaxFiles
    BY EmptySeq, MigrationsAssumption
<1>2. \A p \in Processes : files[p] = <<>> /\ pc[p] = "off"
    BY DEF MigrationsInit
<1>3. MigrationsTypeOK
    BY <1>1, <1>2 DEF MigrationsInit, MigrationsTypeOK
<1>4. IsFiniteSet(dir)
    BY FS_EmptySet DEF MigrationsInit
<1>5. Sorted(applied) /\ \A p \in Processes : Sorted(files[p])
    BY <1>1, <1>2 DEF MigrationsInit, Sorted
<1>6. OneWriter
    BY <1>2, MigrationsAssumption DEF MigrationsInit, OneWriter
<1>7. \A p \in Processes : Progress(p)
    BY <1>2 DEF Progress
<1> QED BY <1>3, <1>4, <1>5, <1>6, <1>7 DEF MigrationsInv

(* What main does leaves the migrations alone.                             *)
LEMMA MigrationsStutter ==
    ASSUME MigrationsInv, UNCHANGED migrationVars
    PROVE  MigrationsInv'
<1>1. UNCHANGED <<dir, applied, writer, work, pc, files, at>>
    BY DEF migrationVars
<1>2. MigrationsTypeOK' /\ IsFiniteSet(dir')
    BY <1>1 DEF MigrationsInv, MigrationsTypeOK
<1>3. OneWriter'
    BY <1>1 DEF MigrationsInv, OneWriter
<1>4. \A p \in Processes : Progress(p)'
    BY <1>1, ProgressStays DEF MigrationsInv
<1> QED BY <1>1, <1>2, <1>3, <1>4 DEF MigrationsInv

-----------------------------------------------------------------------------
(* Every step of main and of its threads keeps theirs.                     *)

(* A thread goes from one place of its loop to the next.                   *)
LEMMA ThreadStep ==
    ASSUME SchedulerInv, Started, UNCHANGED migrationVars, NEW r \in Repeats,
           TaskStep(r) \/ WaitFails(r)
    PROVE  SchedulerInv'
<1> USE DEF SchedulerInv
<1>1. r \in Alive
    BY DEF TaskStep, Test, RunTask, Wait, WaitFails, Alive
<1>2. main \in {"start", "serve", "stop", "join"}
    BY <1>1 DEF Alive, SchedulerTypeOK
<1>3. UNCHANGED <<main, ran, arena, database>> /\ stopping' \in BOOLEAN
    BY DEF TaskStep, Test, RunTask, Wait, WaitFails, SchedulerTypeOK
<1>4. task' \in [Repeats -> {"unborn", "test", "run", "wait", "ended"}]
    BY DEF TaskStep, Test, RunTask, Wait, WaitFails, SchedulerTypeOK
<1>5. SchedulerTypeOK'
    BY <1>3, <1>4 DEF SchedulerTypeOK
<1>6. Started'
    BY DEF Started, migrationVars
<1> QED BY <1>2, <1>3, <1>5, <1>6

(* main goes on.                                                           *)
LEMMA MainThreadStep ==
    ASSUME SchedulerInv, Started, UNCHANGED migrationVars,
           MainStep \/ ServerReturns
    PROVE  SchedulerInv'
<1> USE DEF SchedulerInv
<1>0. Started'
    BY DEF Started, migrationVars
<1>1. CASE Prepare
    <2>1. SchedulerTypeOK'
        BY <1>1 DEF Prepare, SchedulerTypeOK
    <2>2. Alive' = {}
        BY <1>1 DEF Prepare, Alive
    <2>3. /\ ran' = 0 /\ database' = database /\ task' = task
          /\ main' \in {"startup", "close"}
          /\ main' = "startup" => \A r \in Repeats : arena'[r] = "ready"
        BY <1>1 DEF Prepare
    <2>4. database
        BY <1>1 DEF Prepare
    <2> QED BY <1>0, <1>1, <2>1, <2>2, <2>3, <2>4 DEF Prepare
<1>2. CASE RunOnStart
    <2>1. SchedulerTypeOK'
        <3>1. ran' \in 0..OnStart
            BY <1>2, SchedulerAssumption DEF RunOnStart, SchedulerTypeOK
        <3>2. stopping' \in BOOLEAN
            BY <1>2 DEF RunOnStart, SchedulerTypeOK
        <3> QED BY <1>2, <3>1, <3>2 DEF RunOnStart, SchedulerTypeOK
    <2> QED BY <1>0, <1>2, <2>1 DEF RunOnStart
<1>3. CASE StartupDone \/ Validate \/ StartFails \/ StartDone \/ ServerReturns
    <2>1. SchedulerTypeOK'
        BY <1>3 DEF StartupDone, Validate, StartFails, StartDone, ServerReturns,
                    SchedulerTypeOK
    <2> QED BY <1>0, <1>3, <2>1
               DEF StartupDone, Validate, StartFails, StartDone, ServerReturns
<1>4. ASSUME NEW r \in Repeats, StartThread(r) PROVE SchedulerInv'
    <2>1. SchedulerTypeOK'
        BY <1>4 DEF StartThread, SchedulerTypeOK
    <2> QED BY <1>0, <1>4, <2>1 DEF StartThread
<1>5. CASE SetStopping
    <2>1. SchedulerTypeOK'
        BY <1>5 DEF SetStopping, SchedulerTypeOK
    <2> QED BY <1>0, <1>5, <2>1 DEF SetStopping
<1>6. CASE JoinAndFree
    <2>1. SchedulerTypeOK'
        BY <1>6 DEF JoinAndFree, SchedulerTypeOK
    <2>2. Alive' = {}
        BY <1>6 DEF JoinAndFree, Alive
    <2> QED BY <1>0, <1>6, <2>1, <2>2 DEF JoinAndFree
<1>7. CASE CloseDatabase
    <2>1. SchedulerTypeOK'
        BY <1>7 DEF CloseDatabase, SchedulerTypeOK
    <2>2. Alive' = {}
        BY <1>7 DEF CloseDatabase, Alive
    <2> QED BY <1>0, <1>7, <2>1, <2>2 DEF CloseDatabase
<1> QED BY <1>1, <1>2, <1>3, <1>4, <1>5, <1>6, <1>7 DEF MainStep

(* main stands still while migrate_run works, here or elsewhere.           *)
LEMMA MainStands ==
    ASSUME SchedulerInv, UNCHANGED schedulerVars, Started => Started'
    PROVE  SchedulerInv'
<1>1. UNCHANGED <<main, ran, stopping, arena, database, task>>
    BY DEF schedulerVars
<1>2. SchedulerTypeOK' /\ Alive' = Alive
    BY <1>1 DEF SchedulerInv, SchedulerTypeOK, Alive
<1> QED BY <1>1, <1>2 DEF SchedulerInv

(* A new process begins where the first one began.                         *)
LEMMA SchedulerInitInv ==
    /\ SchedulerInit => SchedulerInv
    /\ Anew => SchedulerInv'
<1>0. 0 \in 0..OnStart
    BY SchedulerAssumption
<1>1. ASSUME SchedulerInit PROVE SchedulerInv
    <2>1. main = "prepare" /\ ran = 0 /\ database = TRUE
          /\ \A r \in Repeats : task[r] = "unborn"
        BY <1>1 DEF SchedulerInit
    <2>2. SchedulerTypeOK
        <3>1. /\ arena \in [Repeats -> {"none", "ready", "freed"}]
              /\ task \in [Repeats -> {"unborn", "test", "run", "wait", "ended"}]
            BY <1>1 DEF SchedulerInit
        <3>2. stopping \in BOOLEAN /\ database \in BOOLEAN
            BY <1>1 DEF SchedulerInit
        <3> QED BY <1>0, <2>1, <3>1, <3>2 DEF SchedulerTypeOK
    <2> QED BY <2>1, <2>2 DEF SchedulerInv
<1>2. ASSUME Anew PROVE SchedulerInv'
    <2>1. main' = "prepare" /\ ran' = 0 /\ database' = TRUE
          /\ \A r \in Repeats : task'[r] = "unborn"
        BY <1>2 DEF Anew
    <2>2. SchedulerTypeOK'
        <3>1. /\ arena' \in [Repeats -> {"none", "ready", "freed"}]
              /\ task' \in [Repeats -> {"unborn", "test", "run", "wait", "ended"}]
            BY <1>2 DEF Anew
        <3>2. stopping' \in BOOLEAN /\ database' \in BOOLEAN
            BY <1>2 DEF Anew
        <3> QED BY <1>0, <2>1, <3>1, <3>2 DEF SchedulerTypeOK
    <2> QED BY <2>1, <2>2 DEF SchedulerInv
<1> QED BY <1>1, <1>2

-----------------------------------------------------------------------------
(* The whole.                                                              *)

StartupInv == MigrationsInv /\ SchedulerInv

LEMMA StartupStep ==
    ASSUME StartupInv, [StartupNext]_startupVars
    PROVE  StartupInv'
<1> USE DEF StartupInv
<1>1. CASE Migrating
    <2>1. ChangeFiles \/ \E p \in Processes : MigrationStep(p)
        BY <1>1 DEF Migrating
    <2>2. MigrationsInv'
        BY <2>1, ChangeFilesInv, MigrationStepInv
    <2>3. Started => Started'
        <3> SUFFICES ASSUME Started PROVE Started'
            OBVIOUS
        <3>1. ASSUME NEW p \in Processes, MigrationStep(p) PROVE pc'[Self] = pc[Self]
            <4>1. p # Self
                BY <3>1 DEF Started, MigrationStep, ReadFiles, Begin, Check,
                   CheckDone, Apply, ApplyDone, Commit, MigrationFails
            <4> QED BY <3>1, <4>1, StartupAssumption
                    DEF MigrationsInv, MigrationsTypeOK, MigrationStep, ReadFiles,
                        Begin, Check, CheckDone, Apply, ApplyDone, Commit,
                        MigrationFails
        <3> QED BY <2>1, <3>1 DEF Started, ChangeFiles
    <2>4. SchedulerInv'
        BY <1>1, <2>3, MainStands DEF Migrating
    <2> QED BY <2>2, <2>4
<1>2. CASE MainRuns \/ ServerEnds
    BY <1>2, MigrationsStutter, MainThreadStep DEF MainRuns, ServerEnds
<1>3. ASSUME NEW p \in Processes, ProcessEnds(p) PROVE StartupInv'
    <2>1. MigrationsInv'
        BY <1>3, AbandonStep DEF ProcessEnds
    <2>2. CASE p = Self
        BY <1>3, <2>1, <2>2, SchedulerInitInv DEF ProcessEnds
    <2>3. CASE p # Self
        <3>1. Started => Started'
            BY <1>3, <2>3, StartupAssumption
               DEF ProcessEnds, End, Started, MigrationsInv, MigrationsTypeOK
        <3> QED BY <1>3, <2>1, <2>3, <3>1, MainStands DEF ProcessEnds
    <2> QED BY <2>2, <2>3
<1>4. ASSUME NEW r \in Repeats, TaskRuns(r) \/ TaskFails(r) PROVE StartupInv'
    BY <1>4, MigrationsStutter, ThreadStep DEF TaskRuns, TaskFails
<1>5. CASE UNCHANGED startupVars
    <2>1. UNCHANGED migrationVars /\ UNCHANGED schedulerVars
        BY <1>5 DEF startupVars
    <2>2. Started => Started'
        BY <2>1 DEF Started, migrationVars
    <2> QED BY <2>1, <2>2, MigrationsStutter, MainStands
<1> QED BY <1>1, <1>2, <1>3, <1>4, <1>5 DEF StartupNext

LEMMA StartupInvariance == StartupSpec => []StartupInv
<1>1. StartupInit => StartupInv
    BY MigrationsInitInv, SchedulerInitInv DEF StartupInit, StartupInv
<1>2. StartupInv /\ [StartupNext]_startupVars => StartupInv'
    BY StartupStep
<1> QED BY <1>1, <1>2, PTL DEF StartupSpec

-----------------------------------------------------------------------------
(* The theorems.                                                           *)

(* The types of both components.                                           *)
THEOREM StartupTypeCorrect == StartupSpec => [](MigrationsTypeOK /\ SchedulerTypeOK)
<1>1. StartupInv => MigrationsTypeOK /\ SchedulerTypeOK
    BY DEF StartupInv, MigrationsInv, SchedulerInv
<1> QED BY <1>1, StartupInvariance, PTL

(* Scripts are recorded in the order of their versions and each once, for  *)
(* any number of processes, crashes and changes of the directory.          *)
THEOREM ScriptsInOrderOnce == StartupSpec => []InOrderOnce
<1>1. StartupInv => InOrderOnce
    <2> SUFFICES ASSUME StartupInv PROVE InOrderOnce
        OBVIOUS
    <2>1. DOMAIN applied = 1..Len(applied)
        BY LenProperties DEF StartupInv, MigrationsInv, MigrationsTypeOK
    <2> QED BY <2>1 DEF StartupInv, MigrationsInv, Sorted, InOrderOnce
<1> QED BY <1>1, StartupInvariance, PTL

(* When a process starts, what was applied until then begins the list of   *)
(* its files, and from then on all of them are applied: migrate_run        *)
(* accepts no directory from which an applied file was deleted, the last   *)
(* one included, or in which it was edited.                                *)
THEOREM StartsUpToDate == StartupSpec => StartedIsCurrent
<1> DEFINE Current == \A p \in Processes :
               pc[p] = "started" => IsPrefix(files[p], applied)
           Starting == \A p \in Processes : pc'[p] = "started" =>
               /\ pc[p] # "started" => IsPrefix(applied, files[p]) /\ applied' = files[p]
               /\ IsPrefix(files'[p], applied')
<1>1. StartupInv => Current
    <2> SUFFICES ASSUME StartupInv, NEW p \in Processes, pc[p] = "started"
                 PROVE  IsPrefix(files[p], applied)
        OBVIOUS
    <2>1. Begins(files[p], applied)
        BY DEF StartupInv, MigrationsInv, Progress
    <2>2. files[p] \in Seq(File) /\ applied \in Seq(File)
        BY MigrationTypes DEF StartupInv, MigrationsInv
    <2> QED BY <2>1, <2>2, BeginsIsPrefix
<1>2. ASSUME StartupInv, [StartupNext]_startupVars,
             NEW p \in Processes, pc[p] # "started", pc'[p] = "started"
      PROVE  IsPrefix(applied, files[p]) /\ applied' = files[p]
    <2>1. Commit(p)
        BY <1>2 DEF StartupInv, MigrationsInv, MigrationsTypeOK, StartupNext, startupVars,
           migrationVars, Migrating, MainRuns, ServerEnds, TaskRuns, TaskFails,
           ProcessEnds, End, ChangeFiles, MigrationStep, ReadFiles, Begin, Check,
           CheckDone, Apply, ApplyDone, Commit, MigrationFails
    <2>2. pc[p] = "commit" /\ applied' = work
        BY <2>1 DEF Commit
    <2>3. work = files[p]
        BY <1>2, <2>2 DEF StartupInv, MigrationsInv, Progress
    <2>4. writer = p /\ p # None
        BY <1>2, <2>2, MigrationsAssumption DEF StartupInv, MigrationsInv, OneWriter
    <2>5. Begins(applied, work)
        BY <1>2, <2>4 DEF StartupInv, MigrationsInv, OneWriter
    <2>6. files[p] \in Seq(File) /\ applied \in Seq(File)
        BY <1>2, MigrationTypes DEF StartupInv, MigrationsInv
    <2> QED BY <2>2, <2>3, <2>5, <2>6, BeginsIsPrefix
<1>3. StartupInv /\ Current' /\ [StartupNext]_startupVars => [Starting]_migrationVars
    BY <1>2
<1> QED BY <1>1, <1>3, StartupInvariance, PTL DEF StartupSpec, StartedIsCurrent

(* What is committed is always the whole list of some process, and never   *)
(* a part of it, whichever step of migrate_run fails.                      *)
THEOREM MigratesAsAWhole == StartupSpec => WholeDirectory
<1>1. ASSUME StartupInv, [StartupNext]_startupVars
      PROVE  [applied' # applied => \E p \in Processes : applied' = files[p]]_migrationVars
    <2> SUFFICES ASSUME applied' # applied
                 PROVE  \E p \in Processes : applied' = files[p]
        OBVIOUS
    <2>1. PICK p \in Processes : Commit(p)
        BY <1>1 DEF StartupNext, startupVars, migrationVars, Migrating, MainRuns,
           ServerEnds, TaskRuns, TaskFails, ProcessEnds, End, ChangeFiles,
           MigrationStep, ReadFiles, Begin, Check, CheckDone, Apply, ApplyDone,
           MigrationFails
    <2>2. applied' = work /\ pc[p] = "commit"
        BY <2>1 DEF Commit
    <2>3. work = files[p]
        BY <1>1, <2>2 DEF StartupInv, MigrationsInv, Progress
    <2> QED BY <2>2, <2>3
<1>2. StartupInv /\ [StartupNext]_startupVars
          => [applied' # applied => \E p \in Processes : applied' = files[p]]_migrationVars
    BY <1>1
<1> QED BY <1>2, StartupInvariance, PTL DEF StartupSpec, WholeDirectory

(* A task runs only while its arena and the database exist and after every *)
(* migration of its own directory was applied, on every path by which main *)
(* ends, by which it fails to start and by which the process is killed.    *)
THEOREM TasksHaveTheirWorld == StartupSpec => []TasksRunInTheirWorld
<1>1. StartupInv => TasksRunInTheirWorld
    <2> SUFFICES ASSUME StartupInv PROVE TasksRunInTheirWorld
        OBVIOUS
    <2>1. ASSUME NEW r \in Alive PROVE main \in {"start", "serve", "stop", "join"}
        BY DEF StartupInv, SchedulerInv, SchedulerTypeOK, Alive
    <2>2. RunsInItsWorld
        <3> SUFFICES ASSUME NEW r \in Alive PROVE arena[r] = "ready" /\ database
            BY DEF RunsInItsWorld
        <3>1. main \in {"start", "serve", "stop", "join"} /\ r \in Repeats
            BY <2>1 DEF Alive
        <3> QED BY <3>1 DEF StartupInv, SchedulerInv
    <2>3. ASSUME Alive # {} \/ ran > 0 PROVE Started
        <3>1. CASE Alive # {}
            BY <2>1, <3>1 DEF StartupInv, SchedulerInv
        <3>2. CASE ran > 0
            BY <3>2 DEF StartupInv, SchedulerInv
        <3> QED BY <2>3, <3>1, <3>2
    <2>4. ASSUME Started PROVE IsPrefix(files[Self], applied)
        <3>1. Begins(files[Self], applied)
            BY <2>4, StartupAssumption DEF StartupInv, MigrationsInv, Progress, Started
        <3>2. files[Self] \in Seq(File) /\ applied \in Seq(File)
            BY MigrationTypes, StartupAssumption DEF StartupInv, MigrationsInv
        <3> QED BY <3>1, <3>2, BeginsIsPrefix
    <2> QED BY <2>2, <2>3, <2>4 DEF TasksRunInTheirWorld
<1> QED BY <1>1, StartupInvariance, PTL
=============================================================================
