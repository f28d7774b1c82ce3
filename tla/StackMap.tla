------------------------------ MODULE StackMap ------------------------------
(***************************************************************************)
(* What the dhash engine promises: not a map but a stack of values per     *)
(* key.  SET pushes, GET and EXIST look at the top, DELETE pops one value, *)
(* so that the value set before it is there again.  COUNT is the number of *)
(* values of all keys.  How the keys share buckets cannot be observed.     *)
(***************************************************************************)
EXTENDS Integers, Sequences, FiniteSets, KVReplies

CONSTANTS Key, Value, NULL,
          MallocMayFail  \* may an allocation fail and a SET with it?

VARIABLES stacks,        \* the values of each key, the newest first
          reply          \* the last command and its answer

vars == <<stacks, reply>>

Top(k) == IF stacks[k] = <<>> THEN NULL ELSE Head(stacks[k])
Size == Cardinality(UNION {{k} \X DOMAIN stacks[k] : k \in Key})

Answer(cmd, k, v, out) ==
    reply' = [cmd |-> cmd, key |-> k, val |-> v, out |-> out]

Init ==
    /\ stacks = [k \in Key |-> <<>>]
    /\ reply = [cmd |-> "none", key |-> NULL, val |-> NULL, out |-> NO_EXIST]

Push(k, v) ==
    /\ stacks' = [stacks EXCEPT ![k] = <<v>> \o @]
    /\ Answer("SET", k, v, SUCCESS)

PushFails(k, v) ==
    /\ MallocMayFail
    /\ Answer("SET", k, v, FAILED)
    /\ UNCHANGED stacks

Get(k) ==
    /\ Answer("GET", k, NULL, GetReply(Top(k), NULL))
    /\ UNCHANGED stacks

Count ==
    /\ Answer("COUNT", NULL, NULL, IntReply(Size))
    /\ UNCHANGED stacks

Pop(k) ==
    /\ stacks[k] # <<>>
    /\ stacks' = [stacks EXCEPT ![k] = Tail(@)]
    /\ Answer("DELETE", k, NULL, SUCCESS)

PopEmpty(k) ==
    /\ stacks[k] = <<>>
    /\ Answer("DELETE", k, NULL, FAILED)
    /\ UNCHANGED stacks

Exist(k) ==
    /\ Answer("EXIST", k, NULL, ExistReply(Top(k) # NULL))
    /\ UNCHANGED stacks

Next ==
    \/ \E k \in Key, v \in Value : Push(k, v) \/ PushFails(k, v)
    \/ \E k \in Key : Get(k) \/ Pop(k) \/ PopEmpty(k) \/ Exist(k)
    \/ Count

Spec == Init /\ [][Next]_vars
=============================================================================
