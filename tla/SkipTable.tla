----------------------------- MODULE SkipTable -----------------------------
(***************************************************************************)
(* The skip list engine (skiptable.c) behind ZSET, ZGET, ZCOUNT, ZDELETE   *)
(* and ZEXIST.  A node has a random number of forward pointers; a search   *)
(* goes down the levels from table->level - 1, on each as far as the keys  *)
(* are smaller.  insert and delete remember in update where it turned down.*)
(*                                                                         *)
(* Keys are numbers, ordered as strcmp orders the strings.  They are       *)
(* shorter than MAX_KEY_LEN and values shorter than MAX_VALUE_LEN, so that *)
(* strncpy copies all of them.  Addresses cannot be observed: a node is    *)
(* named by its key.  header is the node every level starts from.  A freed *)
(* node has height 0, so that a pointer that still leads to it can be seen.*)
(*                                                                         *)
(* ZSET takes and releases the mutex on its only path past the null test,  *)
(* the others do not take it, so it is always free and left out.           *)
(*                                                                         *)
(* A definition X_Y marked "mutant" is X with a plausible bug.             *)
(***************************************************************************)
EXTENDS Integers, FiniteSets, KVReplies

CONSTANTS Key, Value,
          NULL,           \* the null pointer
          header,         \* the header node
          MAX_LEVEL,      \* pointers of the header, most pointers of a node
          MallocMayFail,  \* may malloc return NULL?
          MaxElements     \* bound: nb_elements

ASSUME SkipAssumption ==
    /\ Key \subseteq Int /\ IsFiniteSet(Key)
    /\ NULL \notin Key /\ NULL \notin Value
    /\ header \notin Key /\ header # NULL
    /\ MAX_LEVEL \in Nat \ {0}
    /\ MallocMayFail \in BOOLEAN
    /\ MaxElements \in Nat

VARIABLES forward,      \* the pointers of each node
          height,       \* how many of them it has; 0: not allocated
          value,        \* the value of each node
          level,        \* levels in use
          nb_elements,  \* the engine's own count
          server,       \* the process: "running" or "crashed"
          reply         \* the last answered command and its answer

list == <<forward, height, value, level, nb_elements>>
vars == <<forward, height, value, level, nb_elements, server, reply>>

Node == Key \cup {header}
Level == 0 .. MAX_LEVEL - 1
Live == {n \in Key : height[n] > 0}
NoPointers == [i \in Level |-> NULL]

Answer(cmd, k, v, out) ==
    reply' = [cmd |-> cmd, key |-> k, val |-> v, out |-> out]
-----------------------------------------------------------------------------
\* The inner loop of insert, find and delete: may the search go on from p?
Smaller_OrEqual(p, i, k) == forward[p][i] # NULL /\ forward[p][i] <= k  \* mutant
Smaller(p, i, k) == forward[p][i] # NULL /\ forward[p][i] < k

\* Where the loop ends on level i, from each node it may start at.
walk(i, k) ==
    LET from[p \in Node] == IF Smaller(p, i, k) THEN from[forward[p][i]] ELSE p
    IN  from

\* Where the search for k turns down on each level; from level on, which it
\* does not visit, the header, as insert sets it when it raises the level.
update(k) ==
    LET turn[i \in Level] ==
            IF i >= level THEN header
            ELSE walk(i, k)[IF i = level - 1 THEN header ELSE turn[i + 1]]
    IN  turn

\* The node the search for k ends before has the key k.
Meets(k) == forward[update(k)[0]][0] = k

find(k) == IF Meets(k) THEN value[k] ELSE NULL

init_skiptable ==
    /\ forward = [n \in Node |-> NoPointers]
    /\ height = [n \in Key |-> 0]
    /\ value = [n \in Key |-> NULL]
    /\ level = 1
    /\ nb_elements = 0

\* table->level after a node with h pointers came in.
Raised(h) == IF h > level THEN h ELSE level

\* insert of a key that is not there: a node with h pointers is linked in
\* behind update[i] on its levels.
Link(k, v, h) ==
    LET turn == update(k)
    IN  /\ forward' = [n \in Node |-> [i \in Level |->
               IF i < h /\ n = k THEN forward[turn[i]][i]
               ELSE IF i < h /\ n = turn[i] THEN k
               ELSE forward[n][i]]]
        /\ height' = [height EXCEPT ![k] = h]
        /\ value' = [value EXCEPT ![k] = v]
        /\ level' = Raised(h)

\* rand() chooses how many pointers the node gets.
insert(k, v) ==
    \/ /\ Meets(k)
       /\ value' = [value EXCEPT ![k] = v]
       /\ UNCHANGED <<forward, height, level>>
    \/ /\ ~ Meets(k)
       /\ \E h \in 1 .. MAX_LEVEL : Link(k, v, h)

\* The levels delete unlinks the node from.
UnlinkLevels_Bottom == {0}  \* mutant
UnlinkLevels == {i \in Level : i < level}

delete(k) ==
    LET turn == update(k)
    IN  /\ forward' = [n \in Node |-> IF n = k THEN NoPointers ELSE [i \in Level |->
               IF i \in UnlinkLevels /\ n = turn[i] /\ forward[n][i] = k
               THEN forward[k][i]
               ELSE forward[n][i]]]
        /\ height' = [height EXCEPT ![k] = 0]
        /\ value' = [value EXCEPT ![k] = NULL]
        /\ UNCHANGED level

\* The counter goes up for an overwritten key too.
put_kv_skiptable(k, v, ret) ==
    \/ /\ k = NULL \/ v = NULL
       /\ ret = -1
       /\ UNCHANGED list
    \/ /\ k # NULL /\ v # NULL
       /\ insert(k, v)
       /\ nb_elements' = nb_elements + 1
       /\ ret = 0

get_kv_skiptable(k) == IF k = NULL THEN NULL ELSE find(k)

count_kv_skiptable == nb_elements

\* find does not test its key: without one it compares with the null pointer
\* as soon as the list has a node.
Unsafe(k) == k = NULL /\ forward[header][0] # NULL

CountAfterDelete == nb_elements - 1

delete_kv_skiptable(k, ret) ==
    \/ /\ get_kv_skiptable(k) = NULL
       /\ ret = -1
       /\ UNCHANGED list
    \/ /\ get_kv_skiptable(k) # NULL
       /\ delete(k)
       /\ nb_elements' = CountAfterDelete
       /\ ret = 0

exist_kv_skiptable(k) == get_kv_skiptable(k) # NULL
-----------------------------------------------------------------------------
(***************************************************************************)
(* The engine's cases of kvs_parser_protocol.                              *)
(***************************************************************************)
Init ==
    /\ init_skiptable
    /\ server = "running"
    /\ reply = [cmd |-> "none", key |-> NULL, val |-> NULL, out |-> NO_EXIST]

Running == server = "running" /\ UNCHANGED server

CmdZSET(k, v) ==
    /\ Running
    /\ nb_elements < MaxElements
    /\ \E ret \in {0, -1} :
         /\ put_kv_skiptable(k, v, ret)
         /\ Answer("SET", k, v, StatusReply(ret))

CmdZGET(k) ==
    /\ Running
    /\ Answer("GET", k, NULL, GetReply(get_kv_skiptable(k), NULL))
    /\ UNCHANGED list

CmdZCOUNT ==
    /\ Running
    /\ Answer("COUNT", NULL, NULL, IntReply(count_kv_skiptable))
    /\ UNCHANGED list

CmdZDELETE(k) ==
    /\ Running /\ ~ Unsafe(k)
    /\ \E ret \in {0, -1} :
         /\ delete_kv_skiptable(k, ret)
         /\ Answer("DELETE", k, NULL, StatusReply(ret))

CmdZEXIST(k) ==
    /\ Running /\ ~ Unsafe(k)
    /\ Answer("EXIST", k, NULL, ExistReply(exist_kv_skiptable(k)))
    /\ UNCHANGED list

\* ZDELETE or ZEXIST without a key.
NullKey ==
    /\ server = "running" /\ Unsafe(NULL)
    /\ server' = "crashed"
    /\ UNCHANGED <<list, reply>>

\* createNode returned NULL and insert writes through it.
CreateNodeFails(k) ==
    /\ MallocMayFail
    /\ server = "running" /\ ~ Meets(k)
    /\ server' = "crashed"
    /\ UNCHANGED <<list, reply>>

Next ==
    \/ \E k \in Key \cup {NULL}, v \in Value \cup {NULL} : CmdZSET(k, v)
    \/ \E k \in Key \cup {NULL} : CmdZGET(k)
    \/ CmdZCOUNT
    \/ \E k \in Key \cup {NULL} : CmdZDELETE(k)
    \/ \E k \in Key \cup {NULL} : CmdZEXIST(k)
    \/ NullKey
    \/ \E k \in Key : CreateNodeFails(k)

Spec == Init /\ [][Next]_vars
-----------------------------------------------------------------------------
\* Types of the variables.
TypeOK ==
    /\ forward \in [Node -> [Level -> Key \cup {NULL}]]
    /\ height \in [Key -> 0 .. MAX_LEVEL]
    /\ value \in [Key -> Value \cup {NULL}]
    /\ level \in 1 .. MAX_LEVEL
    /\ nb_elements \in 0 .. MaxElements
    /\ server \in {"running", "crashed"}

\* On every level of the header and of every node the pointer leads to the
\* next greater key among the nodes that have this level, or nowhere: the
\* levels are sorted, each is contained in the one below, and whatever was
\* inserted and deleted before, none leads to a freed node or past a live one.
\* And the search starts above every node: table->level, which no delete
\* lowers, covers the highest one.
NextOnLevel(n, i) == {q \in Live : height[q] > i /\ (n # header => q > n)}
LevelsSkipToNext ==
    /\ TypeOK
    /\ \A n \in Live \cup {header} : \A i \in Level :
         (n # header => i < height[n]) =>
             LET S == NextOnLevel(n, i)
             IN  IF S = {} THEN forward[n][i] = NULL
                 ELSE forward[n][i] \in S /\ \A q \in S : forward[n][i] <= q
    /\ \A n \in Live : height[n] <= level

\* The engine implements the counting map, whatever levels rand() chooses.
Counted == INSTANCE CountedMap WITH
               map <- [k \in Key |-> find(k)], count <- nb_elements
Refines == Counted!Spec
=============================================================================
