-------------------------- MODULE ArrayStoreProofs --------------------------
(***************************************************************************)
(* ArrayStore for every set of keys and values and every size of table.    *)
(* The inductive invariant is the conjunction of the checked invariants:   *)
(* the bound on array_count needs CountExact, CountExact needs that the    *)
(* slot a SET fills was free and the one a DELETE clears was occupied, and *)
(* the refinement needs that a key has one slot at most.                   *)
(***************************************************************************)
EXTENDS ArrayStore, CommonLemmas

\* A nonempty set of slots has a least element, so the linear searches of
\* kvs_array_search_item and kvs_array_set stop at a slot of the set.
LEMMA LeastOfSlots ==
    ASSUME NEW S \in SUBSET Slot, S # {}
    PROVE  Least(S) \in S /\ \A j \in S : Least(S) <= j
<1>1. S \in SUBSET Nat
  BY ArrayAssumption DEF Slot
<1>. QED
  BY <1>1, LeastExists DEF Least

\* The slots are as many as the table's size says.
LEMMA SlotCardinality ==
    IsFiniteSet(Slot) /\ Cardinality(Slot) = KVS_ARRAY_ITEM_SIZE
BY FS_Interval, ArrayAssumption DEF Slot

\* kvs_array_search_item returns a slot that holds the key it looks for,
\* and fails only when no slot does.
LEMMA SearchItem ==
    ASSUME NEW k
    PROVE  \/ /\ kvs_array_search_item(k) = NoItem
              /\ k = NULL \/ Holding(k) = {}
              /\ ~ kvs_array_exist(k)
           \/ /\ kvs_array_search_item(k) \in Slot
              /\ kvs_array_search_item(k) # NoItem
              /\ array_table[kvs_array_search_item(k)].key = k
              /\ k # NULL
              /\ kvs_array_exist(k)
<1>1. CASE k = NULL \/ Holding(k) = {}
  BY <1>1 DEF kvs_array_search_item, kvs_array_exist
<1>2. CASE ~ (k = NULL \/ Holding(k) = {})
  <2>1. Holding(k) \in SUBSET Slot
    BY DEF Holding
  <2>2. kvs_array_search_item(k) \in Holding(k)
    BY <1>2, <2>1, LeastOfSlots DEF kvs_array_search_item
  <2>3. NoItem \notin Slot
    BY ArrayAssumption DEF NoItem, Slot
  <2>. QED
    BY <1>2, <2>2, <2>3 DEF Holding, kvs_array_exist
<1>. QED
  BY <1>1, <1>2

IInv == TypeOK /\ ItemsWellFormed /\ CountExact /\ SetInBounds /\ NoLeak

\* Below the guard's limit the free-slot loop of kvs_array_set stops at a
\* free slot of the table.
LEMMA FreeSlotFound ==
    ASSUME IInv, ~ FullGuard
    PROVE  FirstFree \in Slot /\ array_table[FirstFree] = Free
<1>1. Stored \in SUBSET Slot /\ FreeSlots \in SUBSET Slot
  BY DEF Stored, FreeSlots
<1>2. Stored # Slot
  BY SlotCardinality, ArrayAssumption DEF IInv, TypeOK, CountExact
<1>3. PICK i \in Slot : i \notin Stored
  BY <1>1, <1>2
<1>4. array_table[i] = Free
  <2>1. array_table[i] \in Item /\ array_table[i].key = NULL
    BY <1>3 DEF Stored, IInv, TypeOK
  <2>2. array_table[i].value = NULL
    BY <2>1, <1>3 DEF IInv, ItemsWellFormed, NoHalfItem
  <2>. QED
    BY <2>1, <2>2 DEF Item, Free
<1>5. FreeSlots # {}
  BY <1>3, <1>4 DEF FreeSlots
<1>6. FirstFree \in FreeSlots
  BY <1>1, <1>5, LeastOfSlots DEF FirstFree
<1>. QED
  BY <1>6 DEF FreeSlots

\* The initial table satisfies the invariant.
LEMMA InitIInv == Init => IInv
<1>. SUFFICES ASSUME Init PROVE IInv
  OBVIOUS
<1>1. Stored = {}
  BY DEF Init, Free, Stored
<1>2. TypeOK
  <2>1. array_table \in [Slot -> Item]
    BY DEF Init, Item, Free
  <2>2. array_count \in 0 .. KVS_ARRAY_ITEM_SIZE - 1 /\ heap \in Nat
    BY ArrayAssumption DEF Init
  <2>. QED
    BY <2>1, <2>2 DEF Init, TypeOK
<1>3. ItemsWellFormed
  BY <1>1 DEF Init, ItemsWellFormed, NoHalfItem, NoDuplicateKey, Free
<1>4. CountExact /\ NoLeak
  BY <1>1, FS_EmptySet DEF Init, CountExact, NoLeak
<1>. QED
  BY <1>2, <1>3, <1>4 DEF Init, IInv, SetInBounds

\* Storing a new item in a free slot keeps the invariant.
LEMMA StoreItemIInv ==
    ASSUME IInv, ~ FullGuard, NEW k \in Key, NEW v \in Value,
           ~ kvs_array_exist(k), StoreItem(FirstFree, k, v)
    PROVE  IInv'
<1>. DEFINE i == FirstFree
<1>1. i \in Slot /\ array_table[i] = Free
  BY FreeSlotFound
<1>. HIDE DEF i
<1>2. /\ array_table' = [array_table EXCEPT ![i] = [key |-> k, value |-> v]]
      /\ array_count' = array_count + 1
      /\ heap' = heap + 2
      /\ oob' = oob
  BY <1>1 DEF StoreItem, i
<1>3. array_table' \in [Slot -> Item]
  BY <1>1, <1>2 DEF IInv, TypeOK, Item
<1>4. Stored' = Stored \cup {i}
  BY <1>1, <1>2, ArrayAssumption DEF Stored, IInv, TypeOK
<1>5. i \notin Stored
  BY <1>1 DEF Stored, Free
<1>6. IsFiniteSet(Stored)
  BY SlotCardinality, FS_Subset DEF Stored
<1>7. Cardinality(Stored') = Cardinality(Stored) + 1 /\ Cardinality(Stored) \in Nat
  BY <1>4, <1>5, <1>6, FS_AddElement, FS_CardinalityType
<1>8. TypeOK'
  BY <1>2, <1>3, <1>7, ArrayAssumption DEF IInv, TypeOK, FullGuard
<1>9. NoHalfItem'
  BY <1>1, <1>2, ArrayAssumption DEF IInv, TypeOK, ItemsWellFormed, NoHalfItem
<1>10. NoDuplicateKey'
  <2>1. \A j \in Stored : array_table[j].key # k
    BY SearchItem, ArrayAssumption DEF Stored, Holding
  <2>. QED
    BY <1>1, <1>2, <1>4, <1>5, <2>1
    DEF IInv, TypeOK, ItemsWellFormed, NoDuplicateKey, Stored
<1>. QED
  BY <1>2, <1>7, <1>8, <1>9, <1>10
  DEF IInv, ItemsWellFormed, CountExact, NoLeak, SetInBounds

\* Clearing the item a DELETE found keeps the invariant.
LEMMA DeleteIInv ==
    ASSUME IInv, NEW k, kvs_array_search_item(k) # NoItem, kvs_array_delete(k, 0)
    PROVE  IInv'
<1>. DEFINE i == kvs_array_search_item(k)
<1>1. i \in Slot /\ array_table[i].key = k /\ k # NULL
  BY SearchItem
<1>. HIDE DEF i
<1>2. /\ array_table' = [array_table EXCEPT ![i] = Free]
      /\ array_count' = array_count - 1
      /\ heap' = heap - 2
      /\ oob' = oob
  BY DEF kvs_array_delete, Cleared, i
<1>3. array_table' \in [Slot -> Item]
  BY <1>1, <1>2 DEF IInv, TypeOK, Item, Free
<1>4. Stored' = Stored \ {i} /\ i \in Stored
  BY <1>1, <1>2 DEF Stored, IInv, TypeOK, Free
<1>5. IsFiniteSet(Stored)
  BY SlotCardinality, FS_Subset DEF Stored
<1>6. /\ Cardinality(Stored') = Cardinality(Stored) - 1
      /\ Cardinality(Stored) \in Nat /\ Cardinality(Stored) # 0
  BY <1>4, <1>5, FS_RemoveElement, FS_CardinalityType, FS_EmptySet
<1>7. TypeOK'
  <2>1. array_count' \in 0 .. KVS_ARRAY_ITEM_SIZE - 1 /\ heap' \in Nat
    BY <1>2, <1>6, ArrayAssumption DEF IInv, TypeOK, CountExact, NoLeak
  <2>. QED
    BY <1>2, <1>3, <2>1 DEF IInv, TypeOK
<1>8. NoHalfItem'
  BY <1>1, <1>2 DEF IInv, TypeOK, ItemsWellFormed, NoHalfItem, Free
<1>9. NoDuplicateKey'
  BY <1>2, <1>4 DEF IInv, TypeOK, ItemsWellFormed, NoDuplicateKey, Stored
<1>. QED
  BY <1>2, <1>6, <1>7, <1>8, <1>9
  DEF IInv, ItemsWellFormed, CountExact, NoLeak, SetInBounds

\* A command that leaves the store alone keeps the invariant.
LEMMA StutterIInv ==
    ASSUME IInv, UNCHANGED store
    PROVE  IInv'
<1>1. Stored' = Stored
  BY DEF store, Stored
<1>. QED
  BY <1>1 DEF store, IInv, TypeOK, ItemsWellFormed, NoHalfItem, NoDuplicateKey,
              CountExact, SetInBounds, NoLeak, Stored

\* Every command keeps the invariant.
LEMMA NextIInv == IInv /\ [Next]_vars => IInv'
<1>. SUFFICES ASSUME IInv, [Next]_vars PROVE IInv'
  OBVIOUS
<1>1. ASSUME NEW k \in Key, NEW v \in Value, CmdSET(k, v) PROVE IInv'
  <2>1. PICK ret \in {0, -1} : kvs_array_set(k, v, ret)
    BY <1>1 DEF CmdSET
  <2>2. CASE UNCHANGED store
    BY <2>2, StutterIInv
  <2>3. CASE /\ ~ (FullGuard \/ AlreadySet(k))
             /\ heap' = FreeKcopy
             /\ UNCHANGED <<array_table, array_count, oob>>
    <3>1. UNCHANGED store
      BY <2>3 DEF FreeKcopy, IInv, TypeOK, store
    <3>. QED
      BY <3>1, StutterIInv
  <2>4. CASE ~ (FullGuard \/ AlreadySet(k)) /\ StoreItem(FirstFree, k, v)
    BY <2>4, StoreItemIInv DEF AlreadySet
  <2>. QED
    BY <2>1, <2>2, <2>3, <2>4 DEF kvs_array_set
<1>2. ASSUME NEW k \in Key \cup {NULL}, CmdDELETE(k) PROVE IInv'
  <2>1. PICK ret \in {0, -1} : kvs_array_delete(k, ret)
    BY <1>2 DEF CmdDELETE
  <2>2. CASE UNCHANGED store
    BY <2>2, StutterIInv
  <2>3. CASE kvs_array_search_item(k) # NoItem
    <3>1. ret = 0
      BY <2>1, <2>3 DEF kvs_array_delete
    <3>. QED
      BY <2>1, <2>3, <3>1, DeleteIInv
  <2>. QED
    BY <2>1, <2>2, <2>3 DEF kvs_array_delete
<1>3. ASSUME \/ \E k \in Key \cup {NULL} : CmdGET(k) \/ CmdEXIST(k)
             \/ CmdCOUNT
             \/ UNCHANGED vars
      PROVE  IInv'
  <2>1. UNCHANGED store
    BY <1>3 DEF CmdGET, CmdEXIST, CmdCOUNT, vars, store
  <2>. QED
    BY <2>1, StutterIInv
<1>. QED
  BY <1>1, <1>2, <1>3 DEF Next

\* Every reachable state of the array engine satisfies the invariant.
THEOREM Invariance == Spec => []IInv
BY InitIInv, NextIInv, PTL DEF Spec

\* The variables have their types, and array_count stays below the size of
\* the table, for every table size (guard of kvs_array_set, line 210).
THEOREM TypeCorrect == Spec => []TypeOK
<1>1. IInv => TypeOK
  BY DEF IInv
<1>. QED
  BY <1>1, Invariance, PTL

\* A slot has both key and value or neither, and a key has one slot at most,
\* whatever commands and allocation failures come (kvs_array_set,
\* kvs_array_delete).
THEOREM TableWellFormed == Spec => []ItemsWellFormed
<1>1. IInv => ItemsWellFormed
  BY DEF IInv
<1>. QED
  BY <1>1, Invariance, PTL

\* COUNT, a separate counter, is the number of occupied slots.
THEOREM CountIsExact == Spec => []CountExact
<1>1. IInv => CountExact
  BY DEF IInv
<1>. QED
  BY <1>1, Invariance, PTL

\* The free-slot loop of kvs_array_set finds a slot whenever the guard lets
\* it run: no SET writes past the end of array_table.
THEOREM WritesInBounds == Spec => []SetInBounds
<1>1. IInv => SetInBounds
  BY DEF IInv
<1>. QED
  BY <1>1, Invariance, PTL

\* Every block the engine allocates is the key or the value of a slot, also
\* after a malloc that failed between the two.
THEOREM NothingLeaks == Spec => []NoLeak
<1>1. IInv => NoLeak
  BY DEF IInv
<1>. QED
  BY <1>1, Invariance, PTL
-----------------------------------------------------------------------------
(***************************************************************************)
(* The array engine implements KVMap.                                      *)
(***************************************************************************)

\* GET finds the value stored with the key, and NULL exactly when no slot
\* holds it.
LEMMA GetFinds ==
    ASSUME IInv, NEW k \in Key
    PROVE  /\ \A i \in Slot : array_table[i].key = k =>
                 /\ kvs_array_get(k) = array_table[i].value
                 /\ kvs_array_get(k) # NULL
           /\ Holding(k) = {} => kvs_array_get(k) = NULL
           /\ kvs_array_exist(k) <=> kvs_array_get(k) # NULL
<1>. DEFINE s == kvs_array_search_item(k)
<1>1. k # NULL
  BY ArrayAssumption
<1>2. CASE s = NoItem
  BY <1>1, <1>2, SearchItem DEF kvs_array_get, Holding
<1>3. CASE s # NoItem
  <2>1. s \in Slot /\ array_table[s].key = k /\ kvs_array_exist(k)
    BY <1>3, SearchItem
  <2>2. kvs_array_get(k) = array_table[s].value
    BY <1>3 DEF kvs_array_get
  <2>3. array_table[s].value # NULL
    BY <1>1, <2>1 DEF IInv, ItemsWellFormed, NoHalfItem
  <2>4. \A i \in Slot : array_table[i].key = k => i = s
    BY <1>1, <2>1 DEF IInv, ItemsWellFormed, NoDuplicateKey, Stored
  <2>. QED
    BY <2>1, <2>2, <2>3, <2>4 DEF Holding
<1>. QED
  BY <1>2, <1>3

\* The keys of the abstract map are as many as the occupied slots.
LEMMA StoredCount ==
    ASSUME IInv
    PROVE  Cardinality(Map!Stored) = array_count
<1>. DEFINE f == [i \in Stored |-> array_table[i].key]
<1>1. IsFiniteSet(Stored)
  BY SlotCardinality, FS_Subset DEF Stored
<1>2. Map!Stored = {k \in Key : kvs_array_get(k) # NULL}
  BY DEF Map!Stored
<1>3. \A i \in Stored : i \in Slot /\ f[i] \in Key /\ f[i] = array_table[i].key
  BY DEF Stored, IInv, TypeOK, Item
<1>4. f \in [Stored -> Map!Stored]
  BY <1>2, <1>3, GetFinds
<1>5. \A i, j \in Stored : f[i] = f[j] => i = j
  BY <1>3 DEF IInv, ItemsWellFormed, NoDuplicateKey
<1>6. \A k \in Map!Stored : \E i \in Stored : f[i] = k
  <2>. SUFFICES ASSUME NEW k \in Map!Stored PROVE \E i \in Stored : f[i] = k
    OBVIOUS
  <2>1. k \in Key /\ Holding(k) # {} /\ k # NULL
    BY <1>2, GetFinds, ArrayAssumption
  <2>. QED
    BY <2>1 DEF Holding, Stored
<1>7. f \in Bijection(Stored, Map!Stored)
  BY <1>4, <1>5, <1>6 DEF Bijection, Injection, Surjection, IsInjective
<1>8. Cardinality(Map!Stored) = Cardinality(Stored)
  BY <1>1, <1>7, FS_Bijection DEF ExistsBijection
<1>. QED
  BY <1>8 DEF IInv, CountExact

\* What GetFinds says, as a state predicate that can be primed.
GetIsLookup ==
    \A k \in Key :
       /\ \A i \in Slot : array_table[i].key = k => kvs_array_get(k) = array_table[i].value
       /\ (\A i \in Slot : array_table[i].key # k) => kvs_array_get(k) = NULL

\* GET is a lookup in the table before and after every step.
LEMMA GetIsLookupHolds == (IInv => GetIsLookup) /\ (IInv' => GetIsLookup')
<1>1. IInv => GetIsLookup
  BY GetFinds DEF GetIsLookup, Holding
<1>. QED
  BY <1>1, PTL

\* The map's instance of FiniteSets is ours.
LEMMA SameCardinality == \A S : Map!Cardinality(S) = Cardinality(S)
BY Zenon DEF Map!Cardinality, Cardinality

\* A step that leaves the table alone leaves the abstract map alone.
LEMMA SameMap ==
    ASSUME array_table' = array_table
    PROVE  [k \in Key |-> kvs_array_get(k)]' = [k \in Key |-> kvs_array_get(k)]
BY DEF kvs_array_get, kvs_array_search_item, Holding

\* A SET that stores an item is SetNew of the map.
LEMMA StoreItemIsSetNew ==
    ASSUME IInv, IInv', NEW k \in Key, NEW v \in Value, ~ FullGuard,
           ~ kvs_array_exist(k), StoreItem(FirstFree, k, v),
           Answer("SET", k, v, SUCCESS)
    PROVE  Map!SetNew(k, v)
<1>. DEFINE i == FirstFree
<1>1. i \in Slot /\ array_table[i] = Free
  BY FreeSlotFound
<1>. HIDE DEF i
<1>2. array_table' = [array_table EXCEPT ![i] = [key |-> k, value |-> v]]
  BY <1>1 DEF StoreItem, i
<1>3. array_table \in [Slot -> Item] /\ k # NULL
  BY ArrayAssumption DEF IInv, TypeOK
<1>4. kvs_array_get(k) = NULL
  BY GetFinds
<1>5. \A q \in Key : kvs_array_get(q)' = IF q = k THEN v ELSE kvs_array_get(q)
  <2>. TAKE q \in Key
  <2>1. CASE q = k
    BY <1>1, <1>2, <1>3, <2>1, GetIsLookupHolds DEF GetIsLookup
  <2>2. CASE q # k /\ \E j \in Slot : array_table[j].key = q
    <3>1. PICK j \in Slot : array_table[j].key = q
      BY <2>2
    <3>2. j # i
      BY <1>1, <3>1, ArrayAssumption DEF Free
    <3>3. array_table'[j] = array_table[j]
      BY <1>2, <1>3, <3>2
    <3>. QED
      BY <2>2, <3>1, <3>3, GetIsLookupHolds DEF GetIsLookup
  <2>3. CASE q # k /\ \A j \in Slot : array_table[j].key # q
    <3>1. \A j \in Slot : array_table'[j].key # q
      BY <1>1, <1>2, <1>3, <2>3
    <3>. QED
      BY <2>3, <3>1, GetIsLookupHolds DEF GetIsLookup
  <2>. QED
    BY <2>1, <2>2, <2>3
<1>6. [q \in Key |-> kvs_array_get(q)]'
         = [[q \in Key |-> kvs_array_get(q)] EXCEPT ![k] = v]
  BY <1>5
<1>7. Map!Cardinality(Map!Stored) # KVS_ARRAY_ITEM_SIZE - 1
  BY StoredCount, SameCardinality DEF FullGuard
<1>. QED
  BY <1>4, <1>6, <1>7 DEF Map!SetNew, Map!Answer, Answer, SUCCESS, Map!SUCCESS

\* A DELETE that finds its item is a successful Delete of the map.
LEMMA DeleteIsDelete ==
    ASSUME IInv, IInv', NEW k \in Key, kvs_array_search_item(k) # NoItem,
           kvs_array_delete(k, 0), Answer("DELETE", k, NULL, SUCCESS)
    PROVE  Map!Delete(k)
<1>. DEFINE i == kvs_array_search_item(k)
<1>1. i \in Slot /\ array_table[i].key = k /\ k # NULL /\ kvs_array_exist(k)
  BY SearchItem
<1>. HIDE DEF i
<1>2. array_table' = [array_table EXCEPT ![i] = Free]
  BY DEF kvs_array_delete, Cleared, i
<1>3. array_table \in [Slot -> Item]
  BY DEF IInv, TypeOK
<1>4. kvs_array_get(k) # NULL
  BY <1>1, GetFinds
<1>5. \A j \in Slot : array_table[j].key = k => j = i
  BY <1>1 DEF IInv, ItemsWellFormed, NoDuplicateKey, Stored
<1>6. \A q \in Key : kvs_array_get(q)' = IF q = k THEN NULL ELSE kvs_array_get(q)
  <2>. TAKE q \in Key
  <2>1. CASE q = k
    <3>1. \A j \in Slot : array_table'[j].key # k
      BY <1>1, <1>2, <1>3, <1>5 DEF Free
    <3>. QED
      BY <2>1, <3>1, GetIsLookupHolds DEF GetIsLookup
  <2>2. CASE q # k /\ \E j \in Slot : array_table[j].key = q
    <3>1. PICK j \in Slot : array_table[j].key = q
      BY <2>2
    <3>2. array_table'[j] = array_table[j]
      BY <1>1, <1>2, <1>3, <2>2, <3>1
    <3>. QED
      BY <2>2, <3>1, <3>2, GetIsLookupHolds DEF GetIsLookup
  <2>3. CASE q # k /\ \A j \in Slot : array_table[j].key # q
    <3>1. \A j \in Slot : array_table'[j].key # q
      BY <1>1, <1>2, <1>3, <2>3, ArrayAssumption DEF Free
    <3>. QED
      BY <2>3, <3>1, GetIsLookupHolds DEF GetIsLookup
  <2>. QED
    BY <2>1, <2>2, <2>3
<1>7. [q \in Key |-> kvs_array_get(q)]'
         = [[q \in Key |-> kvs_array_get(q)] EXCEPT ![k] = NULL]
  BY <1>6
<1>8. Map!Lookup(k) # NULL
  BY <1>4 DEF Map!Lookup
<1>. QED
  BY <1>7, <1>8 DEF Map!Delete, Map!Answer, Answer, SUCCESS, Map!SUCCESS

\* The abstract lookup answers what the engine's search does, also for the
\* missing key.
LEMMA LookupIsGet ==
    ASSUME IInv, NEW k \in Key \cup {NULL}
    PROVE  Map!Lookup(k) = kvs_array_get(k) /\ (kvs_array_exist(k) <=> Map!Lookup(k) # NULL)
<1>1. CASE k \in Key
  BY <1>1, GetFinds DEF Map!Lookup
<1>2. CASE k = NULL
  BY <1>2, ArrayAssumption, SearchItem DEF Map!Lookup, kvs_array_get
<1>. QED
  BY <1>1, <1>2

\* Every command of the engine is a step of the map or a stutter.
LEMMA NextIsMapNext ==
    ASSUME IInv, IInv', [Next]_vars
    PROVE  [Map!Next]_(Map!vars)
<1>0. SUCCESS = Map!SUCCESS /\ FAILED = Map!FAILED /\ NO_EXIST = Map!NO_EXIST
  BY DEF SUCCESS, FAILED, NO_EXIST, Map!SUCCESS, Map!FAILED, Map!NO_EXIST
<1>1. ASSUME NEW k \in Key, NEW v \in Value, CmdSET(k, v) PROVE Map!Next
  <2>1. PICK ret \in {0, -1} : /\ kvs_array_set(k, v, ret)
                               /\ Answer("SET", k, v, StatusReply(ret))
    BY <1>1 DEF CmdSET
  <2>2. CASE ret = 0
    <3>1. ~ FullGuard /\ ~ kvs_array_exist(k) /\ StoreItem(FirstFree, k, v)
      BY <2>1, <2>2 DEF kvs_array_set, AlreadySet
    <3>2. Answer("SET", k, v, SUCCESS)
      BY <2>1, <2>2 DEF StatusReply
    <3>. QED
      BY <3>1, <3>2, StoreItemIsSetNew DEF Map!Next
  <2>3. CASE ret = -1
    <3>1. array_table' = array_table
      BY <2>1, <2>3 DEF kvs_array_set, store
    <3>2. FullGuard \/ kvs_array_exist(k) \/ MallocMayFail
      <4>1. 0 # -1
        OBVIOUS
      <4>2. \/ FullGuard \/ AlreadySet(k)
            \/ \E kcopy, vcopy \in AllocResults : ~ kcopy \/ ~ vcopy
        BY <2>1, <2>3, <4>1, Zenon DEF kvs_array_set
      <4>. QED
        BY <4>2, Zenon, ArrayAssumption DEF AlreadySet, AllocResults
    <3>3. \/ Map!Lookup(k) # NULL
          \/ Map!Cardinality(Map!Stored) = KVS_ARRAY_ITEM_SIZE - 1
          \/ MallocMayFail
      BY <3>2, LookupIsGet, StoredCount, SameCardinality DEF FullGuard
    <3>4. Map!Answer("SET", k, v, Map!FAILED)
      BY <1>0, <2>1, <2>3 DEF Answer, Map!Answer, StatusReply
    <3>5. Map!SetRefused(k, v)
      BY <3>1, <3>3, <3>4, SameMap DEF Map!SetRefused
    <3>. QED
      BY <3>5 DEF Map!Next
  <2>. QED
    BY <2>1, <2>2, <2>3
<1>2. ASSUME NEW k \in Key \cup {NULL}, CmdDELETE(k) PROVE Map!Next
  <2>1. PICK ret \in {0, -1} : /\ kvs_array_delete(k, ret)
                               /\ Answer("DELETE", k, NULL, StatusReply(ret))
    BY <1>2 DEF CmdDELETE
  <2>2. CASE ret = 0
    <3>1. kvs_array_search_item(k) # NoItem
      BY <2>1, <2>2 DEF kvs_array_delete
    <3>2. k \in Key
      BY <3>1, SearchItem
    <3>3. Answer("DELETE", k, NULL, SUCCESS)
      BY <2>1, <2>2 DEF StatusReply
    <3>4. Map!Delete(k)
      BY <2>1, <2>2, <3>1, <3>2, <3>3, DeleteIsDelete
    <3>. QED
      BY <3>4 DEF Map!Next
  <2>3. CASE ret = -1
    <3>1. kvs_array_search_item(k) = NoItem /\ UNCHANGED store
      BY <2>1, <2>3 DEF kvs_array_delete
    <3>2. Map!Lookup(k) = NULL
      BY <3>1, LookupIsGet DEF kvs_array_exist
    <3>3. Map!Answer("DELETE", k, NULL, Map!FAILED)
      BY <1>0, <2>1, <2>3 DEF Answer, Map!Answer, StatusReply
    <3>4. Map!Delete(k)
      BY <3>1, <3>2, <3>3, SameMap DEF Map!Delete, store
    <3>. QED
      BY <3>4 DEF Map!Next
  <2>. QED
    BY <2>1, <2>2, <2>3
<1>3. ASSUME NEW k \in Key \cup {NULL}, CmdGET(k) PROVE Map!Next
  <2>1. GetReply(kvs_array_get(k), NULL) = Map!GetReply(Map!Lookup(k), NULL)
    BY <1>0, LookupIsGet DEF GetReply, Map!GetReply, ValueReply, Map!ValueReply
  <2>2. Map!Get(k)
    BY <1>3, <2>1, SameMap DEF CmdGET, Map!Get, Answer, Map!Answer, store
  <2>. QED
    BY <2>2 DEF Map!Next
<1>4. ASSUME NEW k \in Key \cup {NULL}, CmdEXIST(k) PROVE Map!Next
  <2>1. ExistReply(kvs_array_exist(k)) = Map!ExistReply(Map!Lookup(k) # NULL)
    BY LookupIsGet DEF ExistReply, Map!ExistReply, IntReply, Map!IntReply
  <2>2. Map!Exist(k)
    BY <1>4, <2>1, SameMap DEF CmdEXIST, Map!Exist, Answer, Map!Answer, store
  <2>. QED
    BY <2>2 DEF Map!Next
<1>5. ASSUME CmdCOUNT PROVE Map!Next
  <2>1. IntReply(kvs_array_count) = Map!IntReply(Map!Cardinality(Map!Stored))
    BY StoredCount, SameCardinality DEF kvs_array_count, IntReply, Map!IntReply
  <2>2. Map!Count
    BY <1>5, <2>1, SameMap DEF CmdCOUNT, Map!Count, Answer, Map!Answer, store
  <2>. QED
    BY <2>2 DEF Map!Next
<1>6. ASSUME UNCHANGED vars PROVE UNCHANGED Map!vars
  BY <1>6, SameMap DEF vars, Map!vars
<1>. QED
  BY <1>1, <1>2, <1>3, <1>4, <1>5, <1>6 DEF Next

\* An empty table is the empty map.
LEMMA InitIsMapInit == Init => Map!Init
<1>. SUFFICES ASSUME Init PROVE Map!Init
  OBVIOUS
<1>1. \A k \in Key : Holding(k) = {}
  BY ArrayAssumption DEF Init, Holding, Free
<1>2. \A k \in Key : kvs_array_get(k) = NULL
  BY <1>1, InitIInv, GetFinds
<1>. QED
  BY <1>2 DEF Init, Map!Init, NO_EXIST, Map!NO_EXIST

\* The array engine is the map of capacity KVS_ARRAY_ITEM_SIZE - 1 that its
\* clients assume: every answer of SET, GET, COUNT, DELETE and EXIST is the
\* one the map gives, for any number of keys and any size of table.
THEOREM Refinement == Spec => Refines
<1>1. Init => Map!Init
  BY InitIsMapInit
<1>2. IInv /\ IInv' /\ [Next]_vars => [Map!Next]_(Map!vars)
  BY NextIsMapNext
<1>. QED
  BY <1>1, <1>2, Invariance, PTL DEF Spec, Map!Spec, Refines
=============================================================================
