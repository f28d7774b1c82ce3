----------------------------- MODULE DHashTable -----------------------------
(***************************************************************************)
(* The dhash engine (dhash.c) behind DSET, DGET, DCOUNT, DDELETE and       *)
(* DEXIST: chained buckets without a lock and without a counter.  DSET     *)
(* never looks for the key it stores and puts it at the head of its chain, *)
(* so a key may have several nodes; DGET and DDELETE meet the newest one.  *)
(*                                                                         *)
(* heap counts the live allocations of the engine: a node, its key and its *)
(* value.  A missing key or value is a null pointer that the engine        *)
(* dereferences: the process dies.                                         *)
(*                                                                         *)
(* A definition X_Y marked "mutant" is X with a plausible bug.             *)
(***************************************************************************)
EXTENDS Integers, Sequences, FiniteSets, KVReplies

CONSTANTS Key, Value,
          NULL,           \* the null pointer
          TABLE_SIZE,     \* number of buckets
          hash_function,  \* the bucket of each key
          MallocMayFail,  \* may malloc and strdup return NULL?
          MaxNodes,       \* bound: nodes in the table at once
          MaxLeaked       \* bound: allocations lost by failed DSETs

Slot == 0 .. TABLE_SIZE - 1

ASSUME DHashAssumption ==
    /\ NULL \notin Key
    /\ NULL \notin Value
    /\ TABLE_SIZE \in Nat \ {0}
    /\ hash_function \in [Key -> Slot]
    /\ MallocMayFail \in BOOLEAN
    /\ MaxNodes \in Nat /\ MaxLeaked \in Nat

VARIABLES table,    \* the chain of each bucket, newest node first
          heap,     \* number of live allocations
          server,   \* the process: "running" or "crashed"
          reply     \* the last answered command and its answer

store == <<table, heap>>
vars == <<table, heap, server, reply>>

Node == [key : Key, value : Value]
Bucket(k) == table[hash_function[k]]
Matching(chain, k) == {i \in DOMAIN chain : chain[i].key = k}
First(S) == CHOOSE i \in S : \A j \in S : i <= j
Unlink(chain, i) ==
    [j \in 1 .. Len(chain) - 1 |-> IF j < i THEN chain[j] ELSE chain[j + 1]]
NodeCount == Cardinality(UNION {{s} \X DOMAIN table[s] : s \in Slot})

Answer(cmd, k, v, out) ==
    reply' = [cmd |-> cmd, key |-> k, val |-> v, out |-> out]
-----------------------------------------------------------------------------
init_dhashtable == table = [s \in Slot |-> <<>>] /\ heap = 0

Alloc == IF MallocMayFail THEN BOOLEAN ELSE {TRUE}

\* The new chain of a bucket: the node goes in front.
Linked_AtEnd(chain, node) == chain \o <<node>>  \* mutant
Linked(chain, node) == <<node>> \o chain

\* A failed strdup gives the node back, but not the string of the other
\* strdup when that one succeeded.
put_kv_dhashtable(k, v, ret) == \E newNode, newKey, newValue \in Alloc :
    \/ /\ ~ newNode
       /\ ret = -1
       /\ UNCHANGED store
    \/ /\ newNode /\ ~ (newKey /\ newValue)
       /\ heap < 3 * NodeCount + MaxLeaked
       /\ heap' = heap + (IF newKey \/ newValue THEN 1 ELSE 0)
       /\ ret = -1
       /\ UNCHANGED table
    \/ /\ newNode /\ newKey /\ newValue
       /\ table' = [table EXCEPT ![hash_function[k]] =
                        Linked(@, [key |-> k, value |-> v])]
       /\ heap' = heap + 3
       /\ ret = 0

get_kv_dhashtable(k) ==
    IF Matching(Bucket(k), k) = {}
    THEN NULL
    ELSE Bucket(k)[First(Matching(Bucket(k), k))].value

count_kv_dhashtable == NodeCount

exist_kv_dhashtable(k) == Matching(Bucket(k), k) # {}

\* Removing the node at i of its chain.
Removed_WithFront(chain, i) == SubSeq(chain, i + 1, Len(chain))  \* mutant
Removed(chain, i) == Unlink(chain, i)

FreedBlocks_NotTheValue == 2  \* mutant
FreedBlocks_Twice == 6        \* mutant
FreedBlocks == 3

delete_kv_dhashtable(k, ret) ==
    \/ /\ Matching(Bucket(k), k) = {}
       /\ ret = -1
       /\ UNCHANGED store
    \/ /\ Matching(Bucket(k), k) # {}
       /\ table' = [table EXCEPT ![hash_function[k]] =
                        Removed(@, First(Matching(Bucket(k), k)))]
       /\ heap' = heap - FreedBlocks
       /\ ret = 0
-----------------------------------------------------------------------------
(***************************************************************************)
(* The engine's cases of kvs_parser_protocol.                              *)
(***************************************************************************)
Init ==
    /\ init_dhashtable
    /\ server = "running"
    /\ reply = [cmd |-> "none", key |-> NULL, val |-> NULL, out |-> NO_EXIST]

Running == server = "running" /\ UNCHANGED server

CmdDSET(k, v) ==
    /\ Running
    /\ NodeCount < MaxNodes
    /\ \E ret \in {0, -1} :
         /\ put_kv_dhashtable(k, v, ret)
         /\ Answer("SET", k, v, StatusReply(ret))

CmdDGET(k) ==
    /\ Running
    /\ Answer("GET", k, NULL, GetReply(get_kv_dhashtable(k), NULL))
    /\ UNCHANGED store

CmdDCOUNT ==
    /\ Running
    /\ Answer("COUNT", NULL, NULL, IntReply(count_kv_dhashtable))
    /\ UNCHANGED store

CmdDDELETE(k) ==
    /\ Running
    /\ \E ret \in {0, -1} :
         /\ delete_kv_dhashtable(k, ret)
         /\ Answer("DELETE", k, NULL, StatusReply(ret))

CmdDEXIST(k) ==
    /\ Running
    /\ Answer("EXIST", k, NULL, ExistReply(exist_kv_dhashtable(k)))
    /\ UNCHANGED store

\* A command with too few tokens: hash_function(NULL) or strdup(NULL).
NullToken ==
    /\ server = "running"
    /\ server' = "crashed"
    /\ UNCHANGED <<table, heap, reply>>

Next ==
    \/ \E k \in Key, v \in Value : CmdDSET(k, v)
    \/ \E k \in Key : CmdDGET(k)
    \/ CmdDCOUNT
    \/ \E k \in Key : CmdDDELETE(k)
    \/ \E k \in Key : CmdDEXIST(k)
    \/ NullToken

Spec == Init /\ [][Next]_vars
-----------------------------------------------------------------------------
\* Types of the variables.
TypeOK ==
    /\ table \in [Slot -> Seq(Node)]
    /\ heap \in Nat
    /\ server \in {"running", "crashed"}

\* Only a DSET that fails for want of memory loses allocations: a successful
\* DSET owns what it allocated, and DDELETE gives back node, key and value.
OnlyFailedSetLeaks ==
    [][heap' - 3 * NodeCount' # heap - 3 * NodeCount
       => reply'.cmd = "SET" /\ reply'.out = FAILED]_vars

\* The values of the nodes of key k in their order: Nth is the place in the
\* chain of the j-th of them.
Rank(S, i) == Cardinality({x \in S : x <= i})
Nth(S, j) == CHOOSE i \in S : Rank(S, i) = j
ValuesOn(chain, k) ==
    [j \in 1 .. Cardinality(Matching(chain, k)) |-> chain[Nth(Matching(chain, k), j)].value]
ValuesOf(k) == ValuesOn(Bucket(k), k)

\* The engine is a stack of values per key, however keys share buckets: the
\* nodes of one key keep their order while others come and go between them.
Stack == INSTANCE StackMap WITH stacks <- [k \in Key |-> ValuesOf(k)]
Refines == Stack!Spec
=============================================================================
