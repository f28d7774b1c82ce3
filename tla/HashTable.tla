----------------------------- MODULE HashTable -----------------------------
(***************************************************************************)
(* The hash engine (hash.c) behind HSET, HGET, HCOUNT, HDELETE and HEXIST: *)
(* chained buckets, a separate count and a mutex taken by every operation  *)
(* but the count.                                                          *)
(*                                                                         *)
(* The server runs the commands in one thread, each to its end, so the     *)
(* mutex never protects anything; but it is a default, non recursive one,  *)
(* and a command that finds it held waits for an unlock nobody will do.    *)
(* delete_kv_hashtable returns without the unlock when the bucket of its   *)
(* key is empty, so this happens.                                          *)
(*                                                                         *)
(* A node keeps the first MAX_KEY_LEN bytes of its key, without the final  *)
(* zero when the key is not shorter, so that strcmp reads on into the      *)
(* value.  Such keys are LongKey: what their node is then found under is   *)
(* the pair of the key and the value, which is taken to be no client's key.*)
(* Values are shorter than MAX_VALUE_LEN, so that the node has all of them *)
(* with their final zero; and the bytes of a key are at most 127, so that  *)
(* their sum, and with it the bucket _hash chooses, is not negative.       *)
(*                                                                         *)
(* The bucket array comes from malloc without being cleared; its memory is *)
(* fresh and zero when main calls init_hashtable, and Init says so.        *)
(*                                                                         *)
(* A definition X_Y marked "mutant" is X with a plausible bug.             *)
(***************************************************************************)
EXTENDS Integers, Sequences, FiniteSets, KVReplies

CONSTANTS Key, Value,
          LongKey,         \* the keys of MAX_KEY_LEN bytes and more
          NULL,            \* the null pointer
          MAX_TABLE_SIZE,  \* number of buckets
          Hash,            \* the bucket of each key
          MallocMayFail    \* may malloc return NULL?

Slot == 0 .. MAX_TABLE_SIZE - 1

ASSUME HashAssumption ==
    /\ NULL \notin Key
    /\ NULL \notin Value
    /\ LongKey \subseteq Key /\ (LongKey \X Value) \cap Key = {}
    /\ MAX_TABLE_SIZE \in Nat \ {0}
    /\ Hash \in [Key -> Slot]
    /\ MallocMayFail \in BOOLEAN

VARIABLES nodes,   \* the chain of each bucket, newest node first
          count,   \* the engine's own count of nodes
          lock,    \* the mutex: "free" or "held"
          server,  \* the process: "running", "blocked" on the mutex, "crashed"
          reply    \* the last answered command and its answer

table == <<nodes, count, lock>>
vars == <<nodes, count, lock, server, reply>>

\* The text strcmp sees in a node created for key k and value v.
NodeKey(k, v) == IF k \in LongKey THEN <<k, v>> ELSE k
Node == [key : (Key \ LongKey) \cup (LongKey \X Value), value : Value]

Bucket(k) == nodes[Hash[k]]
Matching(chain, k) == {i \in DOMAIN chain : chain[i].key = k}
First(S) == CHOOSE i \in S : \A j \in S : i <= j

\* The chain without its i-th node.
Unlink(chain, i) ==
    [j \in 1 .. Len(chain) - 1 |-> IF j < i THEN chain[j] ELSE chain[j + 1]]

Answer(cmd, k, v, out) ==
    reply' = [cmd |-> cmd, key |-> k, val |-> v, out |-> out]
-----------------------------------------------------------------------------
\* Every engine function below that locks also unlocks, unless it says
\* otherwise: lock is "free" before and after it.
init_hashtable ==
    /\ nodes = [s \in Slot |-> <<>>]
    /\ count = 0
    /\ lock = "free"

create_node(k, v) == [key |-> NodeKey(k, v), value |-> v]

KeyPresent_HeadOnly(k) == Bucket(k) # <<>> /\ Head(Bucket(k)).key = k  \* mutant
KeyPresent_Dropped(k) == FALSE                                         \* mutant
KeyPresent(k) == Matching(Bucket(k), k) # {}

put_kv_hashtable(k, v, ret) ==
    \/ /\ k = NULL \/ v = NULL
       /\ ret = -1
       /\ UNCHANGED table
    \/ /\ k # NULL /\ v # NULL /\ lock = "free"
       /\ KeyPresent(k)
       /\ ret = 1
       /\ UNCHANGED table
    \/ /\ k # NULL /\ v # NULL /\ lock = "free"
       /\ ~ KeyPresent(k)
       /\ nodes' = [nodes EXCEPT ![Hash[k]] = <<create_node(k, v)>> \o @]
       /\ count' = count + 1
       /\ ret = 0
       /\ UNCHANGED lock

get_kv_hashtable(k) ==
    IF k = NULL \/ Matching(Bucket(k), k) = {}
    THEN NULL
    ELSE Bucket(k)[First(Matching(Bucket(k), k))].value

count_kv_hashtable == count

exist_kv_hashtable(k) == get_kv_hashtable(k) # NULL

\* The miss in a bucket that has nodes is unlocked, the one in an empty
\* bucket is not.
MissLock_NeverUnlocked(chain) == "held"  \* mutant
MissLock(chain) == IF chain = <<>> THEN "held" ELSE "free"

CountAfterDelete_HeadForgotten(i) == IF i = 1 THEN count ELSE count - 1  \* mutant
CountAfterDelete(i) == count - 1

delete_kv_hashtable(k, ret) ==
    \/ k = NULL /\ ret = -2 /\ UNCHANGED table
    \/ /\ k # NULL /\ lock = "free"
       /\ Matching(Bucket(k), k) = {}
       /\ ret = -1
       /\ lock' = MissLock(Bucket(k))
       /\ UNCHANGED <<nodes, count>>
    \/ /\ k # NULL /\ lock = "free"
       /\ Matching(Bucket(k), k) # {}
       /\ LET i == First(Matching(Bucket(k), k))
          IN  /\ nodes' = [nodes EXCEPT ![Hash[k]] = Unlink(@, i)]
              /\ count' = CountAfterDelete(i)
       /\ ret = 0
       /\ UNCHANGED lock
-----------------------------------------------------------------------------
(***************************************************************************)
(* The engine's cases of kvs_parser_protocol.                              *)
(***************************************************************************)
Init ==
    /\ init_hashtable
    /\ server = "running"
    /\ reply = [cmd |-> "none", key |-> NULL, val |-> NULL, out |-> NO_EXIST]

Running == server = "running" /\ UNCHANGED server

\* An operation that looks at the table waits for the mutex.
Locking(k) == k # NULL => lock = "free"

CmdHSET(k, v) ==
    /\ Running
    /\ \E ret \in {0, 1, -1} :
         /\ put_kv_hashtable(k, v, ret)
         /\ Answer("SET", k, v, StatusReply(ret))

CmdHGET(k) ==
    /\ Running /\ Locking(k)
    /\ Answer("GET", k, NULL, GetReply(get_kv_hashtable(k), NULL))
    /\ UNCHANGED table

CmdHCOUNT ==
    /\ Running
    /\ Answer("COUNT", NULL, NULL, IntReply(count_kv_hashtable))
    /\ UNCHANGED table

CmdHDELETE(k) ==
    /\ Running
    /\ \E ret \in {0, -1, -2} :
         /\ delete_kv_hashtable(k, ret)
         /\ Answer("DELETE", k, NULL, StatusReply(ret))

CmdHEXIST(k) ==
    /\ Running /\ Locking(k)
    /\ Answer("EXIST", k, NULL, ExistReply(exist_kv_hashtable(k)))
    /\ UNCHANGED table

\* pthread_mutex_lock on the mutex this thread left held: no command of any
\* client is served any more.  (HSET, HGET, HDELETE and HEXIST of any key.)
Relock ==
    /\ server = "running" /\ lock = "held"
    /\ server' = "blocked"
    /\ UNCHANGED <<nodes, count, lock, reply>>

\* create_node returned NULL and put_kv_hashtable writes through it.
CreateNodeFails(k, v) ==
    /\ MallocMayFail
    /\ server = "running" /\ lock = "free"
    /\ ~ KeyPresent(k)
    /\ server' = "crashed"
    /\ lock' = "held"
    /\ UNCHANGED <<nodes, count, reply>>

Next ==
    \/ \E k \in Key \cup {NULL}, v \in Value \cup {NULL} : CmdHSET(k, v)
    \/ \E k \in Key \cup {NULL} : CmdHGET(k)
    \/ CmdHCOUNT
    \/ \E k \in Key \cup {NULL} : CmdHDELETE(k)
    \/ \E k \in Key \cup {NULL} : CmdHEXIST(k)
    \/ Relock
    \/ \E k \in Key, v \in Value : CreateNodeFails(k, v)

Spec == Init /\ [][Next]_vars
-----------------------------------------------------------------------------
\* Types of the variables: chains of nodes, a count that never goes below
\* zero.
TypeOK ==
    /\ nodes \in [Slot -> Seq(Node)]
    /\ count \in Nat
    /\ lock \in {"free", "held"}
    /\ server \in {"running", "blocked", "crashed"}

\* Every node hangs in the bucket its key is looked for in, and once only:
\* otherwise a HDELETE would leave a copy that HGET finds again.
ChainsWellFormed == TypeOK /\
    \A s \in Slot : \A i \in DOMAIN nodes[s] :
        LET k == nodes[s][i].key
        IN  k \in Key => Hash[k] = s /\ Matching(nodes[s], k) = {i}

\* HCOUNT, which reads a counter kept on both delete paths and on put, is the
\* number of nodes in the chains.
CountExact ==
    count = Cardinality(UNION {{s} \X DOMAIN nodes[s] : s \in Slot})

\* The mutex is left held only by a HDELETE that met an empty bucket (or a
\* crash), so while every bucket has a node no command can block.
FullTableNeverBlocks ==
    server # "crashed" /\ (\A s \in Slot : nodes[s] # <<>>) => lock = "free"

\* The engine implements the map its clients assume as long as it answers;
\* for keys below MAX_KEY_LEN bytes, none of them above 127, and values below
\* MAX_VALUE_LEN.
Map == INSTANCE KVMap WITH
           map <- [k \in Key |-> get_kv_hashtable(k)],
           Capacity <- -1, MallocMayFail <- FALSE
Refines == Map!Spec

\* Every command gets its answer: no operation waits for the mutex forever.
EveryCommandReturns == server # "blocked"
=============================================================================
