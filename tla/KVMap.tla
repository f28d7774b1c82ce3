------------------------------- MODULE KVMap -------------------------------
(***************************************************************************)
(* What a storage engine promises to the clients of the server: a finite   *)
(* map from keys to values, one answer per command.  A SET never changes a *)
(* key that is already stored, a DELETE removes the key, COUNT is the      *)
(* number of stored keys.                                                  *)
(*                                                                         *)
(* A command whose key token is missing carries the key NULL, which is     *)
(* never stored.                                                           *)
(***************************************************************************)
EXTENDS Integers, FiniteSets, KVReplies

CONSTANTS Key,           \* the keys clients use
          Value,         \* the values clients use
          NULL,          \* the null pointer: a missing token, an absent value
          Capacity,      \* most keys the engine stores; negative: unlimited
          MallocMayFail  \* may an allocation fail and a SET with it?

VARIABLES map,           \* the stored value of each key, NULL when absent
          reply          \* the last command and its answer

vars == <<map, reply>>

Stored == {k \in Key : map[k] # NULL}
Lookup(k) == IF k \in Key THEN map[k] ELSE NULL

Answer(cmd, k, v, out) ==
    reply' = [cmd |-> cmd, key |-> k, val |-> v, out |-> out]

Init ==
    /\ map = [k \in Key |-> NULL]
    /\ reply = [cmd |-> "none", key |-> NULL, val |-> NULL, out |-> NO_EXIST]

SetNew(k, v) ==
    /\ map[k] = NULL
    /\ Cardinality(Stored) # Capacity
    /\ map' = [map EXCEPT ![k] = v]
    /\ Answer("SET", k, v, SUCCESS)

SetRefused(k, v) ==
    /\ \/ Lookup(k) # NULL
       \/ Cardinality(Stored) = Capacity
       \/ MallocMayFail
       \/ k = NULL \/ v = NULL
    /\ Answer("SET", k, v, FAILED)
    /\ UNCHANGED map

Get(k) ==
    /\ Answer("GET", k, NULL, GetReply(Lookup(k), NULL))
    /\ UNCHANGED map

Count ==
    /\ Answer("COUNT", NULL, NULL, IntReply(Cardinality(Stored)))
    /\ UNCHANGED map

Delete(k) ==
    \/ /\ Lookup(k) # NULL
       /\ map' = [map EXCEPT ![k] = NULL]
       /\ Answer("DELETE", k, NULL, SUCCESS)
    \/ /\ Lookup(k) = NULL
       /\ Answer("DELETE", k, NULL, FAILED)
       /\ UNCHANGED map

Exist(k) ==
    /\ Answer("EXIST", k, NULL, ExistReply(Lookup(k) # NULL))
    /\ UNCHANGED map

Next ==
    \/ \E k \in Key, v \in Value : SetNew(k, v)
    \/ \E k \in Key \cup {NULL}, v \in Value \cup {NULL} : SetRefused(k, v)
    \/ \E k \in Key \cup {NULL} : Get(k) \/ Delete(k) \/ Exist(k)
    \/ Count

Spec == Init /\ [][Next]_vars
=============================================================================
