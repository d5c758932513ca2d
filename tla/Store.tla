------------------------------- MODULE Store --------------------------------
(***************************************************************************)
(* $store (src/db/store.c): a bounded in-memory table that outlives the    *)
(* request and is shared by every thread under its mutex.                  *)
(*                                                                         *)
(* A row is a value per field, copied field by field, into the store by    *)
(* store_copy_value and out of it, to the arena of the request, by         *)
(* store_copy_row.  A step is one field of one row, so that a reader       *)
(* without the lock would see a row half written.  ideal is the table as   *)
(* it would be if each write were one step, seen what a read at the moment *)
(* of the lock would have found in it.                                     *)
(***************************************************************************)
EXTENDS Integers, SequencesExt

CONSTANTS Users,        \* the threads
          Cells,        \* the values of a field
          Fields,       \* the fields of a row, 1..n
          StoreRows,    \* STORE_MAX_ROWS
          PageMax,      \* PAGE_MAX
          NoUser, NoCell

ASSUME StoreAssumption ==
    /\ PageMax \in Nat \ {0} /\ StoreRows \in Nat /\ PageMax <= StoreRows
    /\ Fields # {} /\ IsFiniteSet(Fields) /\ Fields = 1..Cardinality(Fields)
    /\ NoUser \notin Users /\ NoCell \notin Cells

VARIABLES capacity, \* of $store(T, count)
          lock,   \* the holder of store->lock
          rows,   \* store->rows and store->text
          count,  \* store->count
          ideal,  \* see above
          op,     \* what each thread is doing
          seen,   \* see above
          got     \* what the last read of the thread returned

storeVars == <<capacity, lock, rows, count, ideal, op, seen, got>>

Row == [Fields -> Cells]

(* A row that was not written.                                             *)
BlankRow == [f \in Fields |-> NoCell]

Idle == [kind |-> "idle", row |-> 0, field |-> 0, to |-> 0, value |-> <<>>]
NoRead == [done |-> FALSE, short |-> "no", rows |-> <<>>]

(* store_capacity_valid of the generator, and store_valid.                 *)
CapacityValid(n) == n \in 1..PageMax /\ n <= StoreRows

StoreInit ==
    /\ capacity \in {n \in 1..StoreRows : CapacityValid(n)}
    /\ lock = NoUser /\ count = 0 /\ ideal = <<>>
    /\ rows = [i \in 1..capacity |-> BlankRow]
    /\ op = [u \in Users |-> Idle]
    /\ seen = [u \in Users |-> <<>>] /\ got = [u \in Users |-> NoRead]

-----------------------------------------------------------------------------
Begin(u, kind, row, value, found) ==
    /\ op' = [op EXCEPT ![u] = [kind |-> kind, row |-> row, field |-> 1,
                                to |-> 1, value |-> value]]
    /\ seen' = [seen EXCEPT ![u] = found]
    /\ got' = [got EXCEPT ![u] = NoRead]

(* Variant: a reader does not wait for the lock.                           *)
MayReadAnyway(u) == TRUE

(* pthread_mutex_lock of a reader.                                         *)
MayRead(u) == lock = NoUser

(* store_add and store_put, the checks of store_write passed.  (When they  *)
(* fail nothing changes.)                                                  *)
BeginWrite(u, i, v, append) ==
    /\ op[u] = Idle /\ lock = NoUser
    /\ IF append THEN i = count + 1 /\ count < capacity ELSE i <= count
    /\ lock' = u
    /\ Begin(u, IF append THEN "add" ELSE "put", i, v, <<>>)
    /\ UNCHANGED <<capacity, rows, count, ideal>>

(* store_copy_value, a field at a time.                                    *)
WriteField(u) ==
    /\ op[u].kind \in {"add", "put"} /\ op[u].field \in Fields
    /\ rows' = [rows EXCEPT ![op[u].row][op[u].field] = op[u].value[op[u].field]]
    /\ op' = [op EXCEPT ![u].field = @ + 1]
    /\ UNCHANGED <<capacity, lock, count, ideal, seen, got>>

(* The row is whole: the count, and the lock is given back.                *)
EndWrite(u) ==
    /\ op[u].kind \in {"add", "put"} /\ op[u].field \notin Fields
    /\ count' = IF op[u].kind = "add" THEN count + 1 ELSE count
    /\ ideal' = IF op[u].kind = "add" THEN Append(ideal, op[u].value)
                ELSE [ideal EXCEPT ![op[u].row] = op[u].value]
    /\ lock' = NoUser
    /\ op' = [op EXCEPT ![u] = Idle]
    /\ UNCHANGED <<capacity, rows, seen, got>>

(* store_get of a row and store_list of all: value is the memory they are  *)
(* copied to.                                                              *)
BeginGet(u, i) ==
    /\ op[u] = Idle /\ MayRead(u) /\ i \in 1..count
    /\ lock' = u
    /\ Begin(u, "get", i, <<BlankRow>>, <<ideal[i]>>)
    /\ UNCHANGED <<capacity, rows, count, ideal>>

(* A list of more than PAGE_MAX rows is refused.                           *)
BeginList(u) ==
    /\ op[u] = Idle /\ MayRead(u)
    /\ IF count > PageMax
       THEN /\ got' = [got EXCEPT ![u] = [done |-> TRUE, short |-> "limit", rows |-> <<>>]]
            /\ UNCHANGED <<lock, op, seen>>
       ELSE lock' = u /\ Begin(u, "list", 1, [i \in 1..count |-> BlankRow], ideal)
    /\ UNCHANGED <<capacity, rows, count, ideal>>

Reading(u) == op[u].kind \in {"get", "list"} /\ op[u].to <= Len(op[u].value)

(* store_copy_row: the next field of the row, interned in the arena.       *)
ReadField(u) ==
    /\ Reading(u)
    /\ LET o    == op[u]
           last == o.field + 1 \notin Fields
       IN  op' = [op EXCEPT ![u] =
                    [kind |-> o.kind, row |-> IF last THEN o.row + 1 ELSE o.row,
                     to |-> IF last THEN o.to + 1 ELSE o.to,
                     field |-> IF last THEN 1 ELSE o.field + 1,
                     value |-> [o.value EXCEPT ![o.to][o.field] = rows[o.row][o.field]]]]
    /\ UNCHANGED <<capacity, lock, rows, count, ideal, seen, got>>

(* The arena is full: the row is zeroed and the call fails.                *)
ReadFails(u) ==
    /\ Reading(u)
    /\ got' = [got EXCEPT ![u] = [done |-> TRUE, short |-> "memory", rows |-> <<>>]]
    /\ lock' = NoUser
    /\ op' = [op EXCEPT ![u] = Idle]
    /\ UNCHANGED <<capacity, rows, count, ideal, seen>>

EndRead(u) ==
    /\ op[u].kind \in {"get", "list"} /\ ~Reading(u)
    /\ got' = [got EXCEPT ![u] = [done |-> TRUE, short |-> "no",
                                  rows |-> op[u].value]]
    /\ lock' = NoUser
    /\ op' = [op EXCEPT ![u] = Idle]
    /\ UNCHANGED <<capacity, rows, count, ideal, seen>>

(* store_clear: two memsets and the count, under the lock.                 *)
StoreClear(u) ==
    /\ op[u] = Idle /\ lock = NoUser
    /\ rows' = [i \in 1..capacity |-> BlankRow]
    /\ count' = 0 /\ ideal' = <<>>
    /\ UNCHANGED <<capacity, lock, op, seen, got>>

StoreNext ==
    \E u \in Users :
        \/ \E i \in 1..capacity, v \in Row, append \in BOOLEAN :
              BeginWrite(u, i, v, append)
        \/ WriteField(u) \/ EndWrite(u)
        \/ \E i \in 1..capacity : BeginGet(u, i)
        \/ BeginList(u) \/ ReadField(u) \/ ReadFails(u) \/ EndRead(u)
        \/ StoreClear(u)

StoreSpec == StoreInit /\ [][StoreNext]_storeVars

-----------------------------------------------------------------------------
(* Properties.                                                             *)

(* A read returns the row, or all the rows, as they were at one moment     *)
(* between its call and its return, and never a row that is half written   *)
(* or a list that mixes two states of the table.  (What it returns is a    *)
(* copy, here a value, which no later write can reach.)  Only a full arena *)
(* makes it fail: a store the generator lets through can always be listed, *)
(* full as it may be.                                                      *)
ReadsAreSnapshots ==
    \A u \in Users : got[u].done =>
        /\ got[u].short # "limit"
        /\ got[u].short = "no" => got[u].rows = seen[u]
=============================================================================
