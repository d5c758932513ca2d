------------------------------- MODULE Arena --------------------------------
(***************************************************************************)
(* The memory of a request (src/core/arena.c): a list of chunks from which *)
(* blocks are cut until arena_reset gives all of them back.                *)
(*                                                                         *)
(* A chunk is its capacity, the bytes cut from it and the bytes that hold  *)
(* data: whoever has a block writes the whole of it.  Blocks are kept to   *)
(* state what an allocator owes its callers.  (The canary behind a chunk   *)
(* catches writes past a block; no caller makes one here.)                 *)
(***************************************************************************)
EXTENDS Integers, SequencesExt

CONSTANTS ArenaLimit,  \* max of arena_init
          ArenaMin,    \* ARENA_MIN_SIZE
          ArenaKeep,   \* ARENA_KEEP_MAX
          ArenaAlign,  \* ARENA_ALIGN
          AllocMax     \* the largest size asked for

ASSUME ArenaAssumption ==
    /\ ArenaMin \in Nat \ {0} /\ ArenaLimit \in Nat /\ ArenaLimit >= ArenaMin
    /\ ArenaKeep \in Nat /\ ArenaAlign \in Nat \ {0} /\ AllocMax \in Nat

VARIABLES chunks,   \* a->head and the chunks behind it, the head last
          spare,    \* a->spare, <<>> for NULL
          used,     \* a->used
          limit,    \* a->max
          peak,     \* a->peak
          released, \* chunks given back to the system with data in them
          blocks    \* what callers hold: [chunk, from, to]

arenaVars == <<chunks, spare, used, limit, peak, released, blocks>>

(* arena_init.                                                             *)
ArenaInit ==
    /\ chunks = <<>> /\ spare = <<>>
    /\ used = 0 /\ limit = ArenaLimit /\ peak = 0
    /\ released = 0 /\ blocks = {}

-----------------------------------------------------------------------------
(* n rounded up to the alignment.                                          *)
Rounded(n) == ((n + ArenaAlign - 1) \div ArenaAlign) * ArenaAlign

(* The checks of arena_alloc; a size that fails them is refused.           *)
Admits(n) == n > 0 /\ limit > 0 /\ Rounded(n) <= limit - used

HeadHas(want) ==
    chunks # <<>> /\ want <= Last(chunks).cap - Last(chunks).used

(* The capacities the doubling loop runs through, and the first that is    *)
(* enough; past half of the limit the loop takes the size itself.          *)
Doublings == {c \in 1..limit : \E k \in 0..limit : c = ArenaMin * 2^k}

Enough(want) ==
    {c \in Doublings : /\ c >= want
                       /\ \A d \in Doublings : d < c => d < want /\ d <= limit \div 2}

Doubled(want) ==
    IF Enough(want) = {} THEN want ELSE CHOOSE c \in Enough(want) : TRUE

(* A block at the end of the last of list.                                 *)
Cut(list, n) ==
    LET k == Len(list)
        c == list[k]
    IN  /\ chunks' = [list EXCEPT ![k] = [c EXCEPT !.used = @ + Rounded(n),
                         !.dirty = IF c.used + n > @ THEN c.used + n ELSE @]]
        /\ blocks' = blocks \cup {[chunk |-> k, from |-> c.used, to |-> c.used + n]}
        /\ used' = used + Rounded(n)
        /\ peak' = IF used' > peak THEN used' ELSE peak

AllocHere(n) ==
    /\ Admits(n) /\ HeadHas(Rounded(n))
    /\ Cut(chunks, n)
    /\ UNCHANGED <<spare, limit, released>>

SpareHas(want) == spare # <<>> /\ spare[1].cap >= want

AllocSpare(n) ==
    /\ Admits(n) /\ ~HeadHas(Rounded(n)) /\ SpareHas(Rounded(n))
    /\ Cut(Append(chunks, [spare[1] EXCEPT !.used = 0]), n)
    /\ spare' = <<>>
    /\ UNCHANGED <<limit, released>>

(* chunk_new.  (When the system has no memory, or Admits fails, NULL is    *)
(* returned and only the count of refusals grows.)                         *)
AllocNew(n) ==
    /\ Admits(n) /\ ~HeadHas(Rounded(n)) /\ ~SpareHas(Rounded(n))
    /\ Cut(Append(chunks, [cap |-> Doubled(Rounded(n)),
                           used |-> 0, dirty |-> 0]), n)
    /\ UNCHANGED <<spare, limit, released>>

(* Variant: a chunk is emptied before it is wiped.                         *)
WipedLate(c) == [c EXCEPT !.used = 0]

(* secure_zero over the bytes cut from the chunk.                          *)
Wiped(c) == [c EXCEPT !.used = 0, !.dirty = IF @ <= c.used THEN 0 ELSE @]

(* The chunks arena_reset meets, from the head; the first that is small    *)
(* enough becomes the spare if there is none.                              *)
ResetOrder == Reverse(chunks)

Kept == {i \in DOMAIN ResetOrder : ResetOrder[i].cap <= ArenaKeep}

ArenaReset ==
    /\ LET first == CHOOSE i \in Kept : \A j \in Kept : i <= j
           keep  == IF spare = <<>> /\ Kept # {} THEN {first} ELSE {}
       IN  /\ spare' = IF keep = {} THEN spare ELSE <<Wiped(ResetOrder[first])>>
           /\ released' = released + Cardinality({i \in DOMAIN ResetOrder \ keep :
                                         Wiped(ResetOrder[i]).dirty > 0})
    /\ chunks' = <<>> /\ used' = 0 /\ blocks' = {}
    /\ UNCHANGED <<limit, peak>>

(* arena_free after arena_reset.                                           *)
ArenaFree ==
    /\ chunks = <<>> /\ limit > 0
    /\ spare' = <<>> /\ limit' = 0
    /\ released' = released + Cardinality({i \in DOMAIN spare : spare[i].dirty > 0})
    /\ UNCHANGED <<chunks, used, peak, blocks>>

(* The worker begins again with arena_init.                                *)
ArenaAgain ==
    /\ limit = 0
    /\ limit' = ArenaLimit /\ used' = 0 /\ peak' = 0
    /\ UNCHANGED <<chunks, spare, released, blocks>>

ArenaNext ==
    \/ \E n \in 1..AllocMax : AllocHere(n) \/ AllocSpare(n) \/ AllocNew(n)
    \/ ArenaReset \/ ArenaFree \/ ArenaAgain

ArenaSpec == ArenaInit /\ [][ArenaNext]_arenaVars

-----------------------------------------------------------------------------
(* Properties.                                                             *)

(* What was cut from the chunks of a list.                                 *)
Sum(list) ==
    LET upTo[k \in 0..Len(list)] == IF k = 0 THEN 0 ELSE upTo[k - 1] + list[k].used
    IN  upTo[Len(list)]

(* The blocks of a request do not overlap and lie in their chunks, however *)
(* the chunks were filled, reused or doubled; what is counted against the  *)
(* limit is what was cut, and the limit holds; and no memory goes to the   *)
(* next request or back to the system with the data of this one.           *)
ArenaSound ==
    /\ \A b \in blocks : b.to <= chunks[b.chunk].cap
    /\ \A a, b \in blocks :
          a.chunk = b.chunk => a = b \/ a.to <= b.from \/ b.to <= a.from
    /\ used = Sum(chunks) /\ used <= limit /\ used <= peak
    /\ released = 0
    /\ spare # <<>> => spare[1].dirty = 0
=============================================================================
