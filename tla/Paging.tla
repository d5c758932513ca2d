------------------------------- MODULE Paging -------------------------------
(***************************************************************************)
(* Pages of a table: db_search (src/db/search.c).  The caller is external: *)
(* it asks for the next page while has_more says so, or for any page.      *)
(* Nothing is written to the table between two pages, which are statements *)
(* of their own: with writes in between no walk could promise anything.    *)
(* (db_query_page, which sorts by the key alone, is not modelled.)         *)
(*                                                                         *)
(* A row is its key and its value in the sort field.  SQLite is external:  *)
(* it returns the rows in some order that ORDER BY allows, a new one for   *)
(* each statement, and cuts it by LIMIT and OFFSET; a negative offset is   *)
(* none.  int is IntMax wide: a product past it wraps.                     *)
(***************************************************************************)
EXTENDS Integers, SequencesExt

CONSTANTS SortValues,   \* values of the sort field
          TableMax,     \* rows of a table
          IntMax,       \* INT_MAX
          PageSizeMax,  \* PAGE_MAX
          DefaultSize   \* 20

ASSUME PagingAssumption ==
    /\ SortValues \subseteq Nat
    /\ {TableMax, IntMax, PageSizeMax, DefaultSize} \subseteq Nat

VARIABLES sortOf, \* the sort value of each row; the key is the place
          size,   \* query.size
          descending, \* query.descending
          page,   \* query.page of the next call
          walked, \* the keys of the pages walked through from page 0
          reply   \* the last answer

pagingVars == <<sortOf, size, descending, page, walked, reply>>

NoReply == [status |-> 0, page |-> 0, keys |-> <<>>, more |-> FALSE]

PagingInit ==
    /\ sortOf \in SeqOf(SortValues, TableMax)
    /\ size \in 0..(PageSizeMax + 1) /\ descending \in BOOLEAN
    /\ page = 0 /\ walked = <<>> /\ reply = NoReply

-----------------------------------------------------------------------------
(* A size of 0 is the default.                                             *)
Size == IF size = 0 THEN DefaultSize ELSE size

(* A product of two ints.                                                  *)
Wrapped(n) == ((n + IntMax + 1) % (2 * (IntMax + 1))) - IntMax - 1

(* Variant: the offset is not bounded.                                     *)
PageValidAnyway(p) == p >= 0 /\ Size \in 1..PageSizeMax

PageValid(p) == p >= 0 /\ Size \in 1..PageSizeMax /\ p <= IntMax \div Size

(* ORDER BY sort field, up or down, then key.                              *)
Before(a, b) ==
    \/ IF descending THEN sortOf[a] > sortOf[b] ELSE sortOf[a] < sortOf[b]
    \/ sortOf[a] = sortOf[b] /\ a <= b

Orders == {o \in Bijection(DOMAIN sortOf, DOMAIN sortOf) :
              \A i, j \in DOMAIN o : i < j => Before(o[i], o[j])}

(* LIMIT and OFFSET.                                                       *)
Taken(order, limit, offset) ==
    LET from == IF offset < 0 THEN 0 ELSE offset
    IN  SubSeq(order, from + 1, IF from + limit < Len(order) THEN from + limit
                                ELSE Len(order))

(* db_search: one row more than the page tells whether there is another.   *)
Query(p) ==
    IF ~PageValid(p)
    THEN reply' = [status |-> 400, page |-> p, keys |-> <<>>, more |-> FALSE]
    ELSE \E order \in Orders :
            LET found == Taken(order, Size + 1, Wrapped(p * Size))
            IN  reply' = [status |-> 200, page |-> p,
                          keys |-> SubSeq(found, 1, IF Len(found) > Size THEN Size
                                                    ELSE Len(found)),
                          more |-> Len(found) > Size]

(* The caller asks for the next page.                                      *)
Walk ==
    /\ page = 0 \/ reply.more
    /\ reply.page + 1 = page \/ page = 0
    /\ Query(page)
    /\ page' = page + 1
    /\ walked' = walked \o reply'.keys
    /\ UNCHANGED <<sortOf, size, descending>>

(* The caller asks for one page, any.                                      *)
Jump(p) ==
    /\ page = 0 /\ reply = NoReply
    /\ Query(p)
    /\ page' = IntMax + 1
    /\ UNCHANGED <<sortOf, size, descending, walked>>

PagingNext == Walk \/ \E p \in -1..IntMax : Jump(p)

PagingSpec == PagingInit /\ [][PagingNext]_pagingVars

-----------------------------------------------------------------------------
(* Properties.                                                             *)

(* The rows that come before row k.                                        *)
Ahead(k) == {j \in DOMAIN sortOf :
                \/ sortOf[j] < sortOf[k] /\ ~descending
                \/ sortOf[j] > sortOf[k] /\ descending
                \/ sortOf[j] = sortOf[k] /\ j < k}

Sorted == [i \in DOMAIN sortOf |->
              CHOOSE k \in DOMAIN sortOf : Cardinality(Ahead(k)) = i - 1]

(* While nobody writes to the table, a walk meets every row once and in    *)
(* order, ties and the last page included, and a page asked for by itself  *)
(* has the rows of its place: neither repeats or skips one because an      *)
(* offset wrapped or two statements sorted equal values differently.       *)
PagesPartition ==
    /\ IsPrefix(walked, Sorted)
    /\ reply.status = 200 =>
          /\ reply.keys = Taken(Sorted, Size, reply.page * Size)
          /\ reply.more <=> (reply.page + 1) * Size < Len(Sorted)
    /\ reply.status = 200 /\ page \in 1..IntMax /\ ~reply.more => walked = Sorted
=============================================================================
