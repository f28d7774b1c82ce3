----------------------------- MODULE CountedMap -----------------------------
(***************************************************************************)
(* What the skip list engine promises: a map whose SET overwrites, and a   *)
(* COUNT that is not the number of keys but the number of successful SETs  *)
(* less the number of successful DELETEs.                                  *)
(***************************************************************************)
EXTENDS Integers, KVReplies

CONSTANTS Key, Value, NULL

VARIABLES map,    \* the stored value of each key, NULL when absent
          count,  \* SETs less DELETEs
          reply   \* the last command and its answer

vars == <<map, count, reply>>

\* GET, DELETE and EXIST are those of the plain map.
Plain == INSTANCE KVMap WITH Capacity <- -1, MallocMayFail <- FALSE

Init == Plain!Init /\ count = 0

Set(k, v) ==
    /\ map' = [map EXCEPT ![k] = v]
    /\ count' = count + 1
    /\ Plain!Answer("SET", k, v, SUCCESS)

SetWithoutToken(k, v) ==
    /\ k = NULL \/ v = NULL
    /\ Plain!Answer("SET", k, v, FAILED)
    /\ UNCHANGED <<map, count>>

Count ==
    /\ Plain!Answer("COUNT", NULL, NULL, IntReply(count))
    /\ UNCHANGED <<map, count>>

Delete(k) ==
    /\ Plain!Delete(k)
    /\ count' = count - IF Plain!Lookup(k) # NULL THEN 1 ELSE 0

Next ==
    \/ \E k \in Key, v \in Value : Set(k, v)
    \/ \E k \in Key \cup {NULL}, v \in Value \cup {NULL} : SetWithoutToken(k, v)
    \/ \E k \in Key \cup {NULL} : (Plain!Get(k) \/ Plain!Exist(k)) /\ UNCHANGED count
    \/ \E k \in Key \cup {NULL} : Delete(k)
    \/ Count

Spec == Init /\ [][Next]_vars
=============================================================================
