----------------------------- MODULE ArrayStore -----------------------------
(***************************************************************************)
(* The array engine of kvstore.c behind SET, GET, COUNT, DELETE and EXIST: *)
(* a table of KVS_ARRAY_ITEM_SIZE items, searched from slot 0, whose slots *)
(* are reused after a delete.  array_count is kept apart from the table    *)
(* and is what guards the search for a free slot.                          *)
(*                                                                         *)
(* The strings an item points to are separate allocations.  heap counts    *)
(* the ones that are live, so that a lost pointer shows as a leak.  A SET  *)
(* always carries a key and a value (assert(count == 3)); the key of the   *)
(* other commands may be missing and is then NULL.                         *)
(*                                                                         *)
(* A definition X_Y marked "mutant" is X with a plausible bug; it is used  *)
(* only to show that a property can fail.                                  *)
(***************************************************************************)
EXTENDS Integers, FiniteSets, KVReplies

CONSTANTS Key, Value,
          NULL,                 \* the null pointer
          KVS_ARRAY_ITEM_SIZE,  \* slots of array_table
          MallocMayFail         \* may kvs_malloc return NULL?

ASSUME ArrayAssumption ==
    /\ NULL \notin Key
    /\ NULL \notin Value
    /\ KVS_ARRAY_ITEM_SIZE \in Nat \ {0}
    /\ MallocMayFail \in BOOLEAN

VARIABLES array_table,  \* the items
          array_count,  \* the engine's own count of stored items
          heap,         \* number of live key and value copies
          oob,          \* has an item been written past the table?
          reply         \* the last command and its answer

vars == <<array_table, array_count, heap, oob, reply>>
store == <<array_table, array_count, heap, oob>>

Slot == 0 .. KVS_ARRAY_ITEM_SIZE - 1
Item == [key : Key \cup {NULL}, value : Value \cup {NULL}]
Free == [key |-> NULL, value |-> NULL]
NoItem == -1

Least(S) == CHOOSE i \in S : \A j \in S : i <= j
Holding(k) == {i \in Slot : array_table[i].key = k}
Stored == {i \in Slot : array_table[i].key # NULL}

Answer(cmd, k, v, out) ==
    reply' = [cmd |-> cmd, key |-> k, val |-> v, out |-> out]
-----------------------------------------------------------------------------
\* The first item whose key is k, or the null pointer.
kvs_array_search_item(k) ==
    IF k = NULL \/ Holding(k) = {} THEN NoItem ELSE Least(Holding(k))

kvs_array_exist(k) == kvs_array_search_item(k) # NoItem

kvs_array_get(k) ==
    LET item == kvs_array_search_item(k)
    IN  IF item # NoItem THEN array_table[item].value ELSE NULL

kvs_array_count == array_count

\* Where the free-slot loop of kvs_array_set stops: one past the table when
\* no slot is free.
FreeSlots == {i \in Slot : array_table[i] = Free}
FirstFree_AtCount == array_count  \* mutant: append, as before slot reuse
FirstFree == IF FreeSlots = {} THEN KVS_ARRAY_ITEM_SIZE ELSE Least(FreeSlots)

FullGuard_Dropped == FALSE  \* mutant
FullGuard_OffByOne == array_count = KVS_ARRAY_ITEM_SIZE  \* mutant
FullGuard == array_count = KVS_ARRAY_ITEM_SIZE - 1

\* kcopy was allocated and vcopy was not: kcopy is given back.
FreeKcopy_Forgotten == heap + 1  \* mutant
FreeKcopy == (heap + 1) - 1

AllocResults == IF MallocMayFail THEN BOOLEAN ELSE {TRUE}

StoreItem(i, k, v) ==
    /\ IF i \in Slot
       THEN /\ array_table' = [array_table EXCEPT ![i] = [key |-> k, value |-> v]]
            /\ UNCHANGED oob
       ELSE /\ oob' = TRUE
            /\ UNCHANGED array_table
    /\ array_count' = array_count + 1
    /\ heap' = heap + 2

AlreadySet_Dropped(k) == FALSE  \* mutant
AlreadySet(k) == kvs_array_exist(k)

kvs_array_set(k, v, ret) ==
    \/ /\ FullGuard \/ AlreadySet(k)
       /\ ret = -1
       /\ UNCHANGED store
    \/ /\ ~ (FullGuard \/ AlreadySet(k))
       /\ \E kcopy, vcopy \in AllocResults :
            \/ ~ kcopy /\ ret = -1 /\ UNCHANGED store
            \/ /\ kcopy /\ ~ vcopy
               /\ ret = -1
               /\ heap' = FreeKcopy
               /\ UNCHANGED <<array_table, array_count, oob>>
            \/ kcopy /\ vcopy /\ ret = 0 /\ StoreItem(FirstFree, k, v)

\* An item whose two strings have been freed.
Cleared_KeyOnly(i) == [array_table[i] EXCEPT !.key = NULL]  \* mutant
Cleared(i) == Free

kvs_array_delete(k, ret) ==
    LET item == kvs_array_search_item(k)
    IN  \/ item = NoItem /\ ret = -1 /\ UNCHANGED store
        \/ /\ item # NoItem
           /\ array_table' = [array_table EXCEPT ![item] = Cleared(item)]
           /\ array_count' = array_count - 1
           /\ heap' = heap - 2
           /\ ret = 0
           /\ UNCHANGED oob
-----------------------------------------------------------------------------
(***************************************************************************)
(* The engine's cases of kvs_parser_protocol.                              *)
(***************************************************************************)
Init ==
    /\ array_table = [i \in Slot |-> Free]
    /\ array_count = 0
    /\ heap = 0
    /\ oob = FALSE
    /\ reply = [cmd |-> "none", key |-> NULL, val |-> NULL, out |-> NO_EXIST]

CmdSET(k, v) == \E ret \in {0, -1} :
    /\ kvs_array_set(k, v, ret)
    /\ Answer("SET", k, v, StatusReply(ret))

CmdGET(k) ==
    /\ Answer("GET", k, NULL, GetReply(kvs_array_get(k), NULL))
    /\ UNCHANGED store

CmdCOUNT ==
    /\ Answer("COUNT", NULL, NULL, IntReply(kvs_array_count))
    /\ UNCHANGED store

CmdDELETE(k) == \E ret \in {0, -1} :
    /\ kvs_array_delete(k, ret)
    /\ Answer("DELETE", k, NULL, StatusReply(ret))

CmdEXIST(k) ==
    /\ Answer("EXIST", k, NULL, ExistReply(kvs_array_exist(k)))
    /\ UNCHANGED store

Next ==
    \/ \E k \in Key, v \in Value : CmdSET(k, v)
    \/ \E k \in Key \cup {NULL} : CmdGET(k)
    \/ CmdCOUNT
    \/ \E k \in Key \cup {NULL} : CmdDELETE(k)
    \/ \E k \in Key \cup {NULL} : CmdEXIST(k)

Spec == Init /\ [][Next]_vars
-----------------------------------------------------------------------------
\* Types of the variables; array_count never reaches the size of the table
\* (the guard of kvs_array_set keeps one slot free).
TypeOK ==
    /\ array_table \in [Slot -> Item]
    /\ array_count \in 0 .. KVS_ARRAY_ITEM_SIZE - 1
    /\ heap \in Nat
    /\ oob \in BOOLEAN

\* Every slot is either free or holds both a key and a value: the free-slot
\* loop of kvs_array_set tests both pointers, the search only the key, so a
\* half item would be found by one and skipped by the other.
NoHalfItem ==
    \A i \in Slot : (array_table[i].key = NULL) = (array_table[i].value = NULL)

\* No key is stored in two slots, whatever slots deletes have opened before
\* it: a second copy would reappear after a DELETE of the first.
NoDuplicateKey ==
    \A i, j \in Stored : array_table[i].key = array_table[j].key => i = j

ItemsWellFormed == NoHalfItem /\ NoDuplicateKey

\* array_count, kept by ++ and -- on the successful paths only, is the number
\* of occupied slots; it is what COUNT answers and what guards the table.
CountExact == array_count = Cardinality(Stored)

\* kvs_array_set never runs off the end of the table: the guard on
\* array_count leaves the free-slot loop a slot to find.
SetInBounds == ~ oob

\* Each stored item owns exactly two allocations and nothing else is live,
\* also after a SET whose second allocation failed.
NoLeak == heap = 2 * Cardinality(Stored)

\* The engine implements the map clients think of, of capacity
\* KVS_ARRAY_ITEM_SIZE - 1, with the value of a key found by the search.
Map == INSTANCE KVMap WITH
           map <- [k \in Key |-> kvs_array_get(k)],
           Capacity <- KVS_ARRAY_ITEM_SIZE - 1
Refines == Map!Spec
=============================================================================
