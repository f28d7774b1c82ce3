------------------------------- MODULE RBTree -------------------------------
(***************************************************************************)
(* The red-black tree engine (rbtree.c) behind RSET, RGET, RCOUNT, RDELETE *)
(* and REXIST.                                                             *)
(*                                                                         *)
(* The code has every branch twice, once for each side.  Here it is        *)
(* written once, for a side d: child["left"] and child["right"] are the    *)
(* two pointers, rotate(t, "left", x) is rbtree_left_rotate and            *)
(* rotate(t, "right", x) is rbtree_right_rotate.  nil is the shared leaf,  *)
(* a real node whose parent rbtree_delete writes and never clears.         *)
(*                                                                         *)
(* RSET and RDELETE first change the tree and then run a fixup loop.  Each *)
(* turn of a loop is an action, so that its invariants can be stated; no   *)
(* other command runs in between.  The mutex is taken after the last early *)
(* return and always released, and left out.                               *)
(*                                                                         *)
(* Keys are numbers, ordered as strcmp orders the strings.  They are       *)
(* shorter than MAX_KEY_LEN and values shorter than MAX_VALUE_LEN, so that *)
(* strncpy copies all of them; a key that rbtree_search misses is then in  *)
(* no node, and rbtree_insert does not return at an equal one.  Addresses  *)
(* cannot be observed: a node is named by its key, and when rbtree_delete  *)
(* copies the successor's key into z, z gets the successor's name.         *)
(*                                                                         *)
(* A definition X_Y marked "mutant" is X with a plausible bug.             *)
(***************************************************************************)
EXTENDS Integers, FiniteSets, KVReplies

CONSTANTS Key, Value,
          NULL,          \* the null pointer
          nil,           \* tree->nil
          EmptyValue,    \* the value of tree->nil: the empty string
          MallocMayFail  \* may malloc return NULL?

ASSUME RBAssumption ==
    /\ Key \subseteq Int /\ IsFiniteSet(Key)
    /\ NULL \notin Key /\ NULL \notin Value
    /\ nil \notin Key /\ nil # NULL
    /\ EmptyValue \notin Value /\ EmptyValue # NULL
    /\ MallocMayFail \in BOOLEAN

VARIABLES T,            \* root, child, parent and color
          value,        \* the value of each node, NULL when not allocated
          nb_elements,  \* the engine's own count
          loop,         \* the fixup loop the engine is in, or "none"
          at,           \* its node: z of the insert fixup, x of the delete fixup
          req,          \* the command that is executed in the loop
          reply         \* the last answered command and its answer

vars == <<T, value, nb_elements, loop, at, req, reply>>
tree == <<T, value, nb_elements>>
idle == <<loop, at, req>>

Node == Key \cup {nil}
Dir == {"left", "right"}
Other(d) == IF d = "left" THEN "right" ELSE "left"
NoReq == [cmd |-> "none", key |-> NULL, val |-> NULL]

Answer(cmd, k, v, out) ==
    reply' = [cmd |-> cmd, key |-> k, val |-> v, out |-> out]
-----------------------------------------------------------------------------
\* The pointer through which its parent p leads to n.  Both may lead to nil;
\* only rbtree_delete_fixup asks for nil, and it tests the left one first.
Side(t, p, n) == IF t.child["left"][p] = n THEN "left" ELSE "right"

SetChild(t, d, p, n) == [t EXCEPT !.child[d][p] = n]
SetColor(t, n, c) == [t EXCEPT !.color[n] = c]

\* n takes the place of old below p; the root when p is nil.
Replace(t, p, old, n) ==
    IF p = nil THEN [t EXCEPT !.root = n] ELSE SetChild(t, Side(t, p, old), p, n)

\* The subtree that changes sides gets its new parent, unless it is nil.
Adopt_Forgotten(t, n, p) == t  \* mutant
Adopt(t, n, p) == IF n = nil THEN t ELSE [t EXCEPT !.parent[n] = p]

rotate(t, d, x) ==
    LET y  == t.child[Other(d)][x]
        b  == t.child[d][y]
        p  == t.parent[x]
        t1 == Adopt(SetChild(t, Other(d), x, b), b, x)
        t2 == Replace([t1 EXCEPT !.parent[y] = p], p, x, y)
    IN  [SetChild(t2, d, y, x) EXCEPT !.parent[x] = y]

\* The node with key k, or nil.
rbtree_search_Mirrored(k) ==  \* mutant: strcmp(node->key, key)
    LET from[n \in Node] ==
            IF n = nil \/ n = k THEN n
            ELSE from[T.child[IF n < k THEN "left" ELSE "right"][n]]
    IN  from[T.root]
rbtree_search(k) ==
    LET from[n \in Node] ==
            IF n = nil \/ n = k THEN n
            ELSE from[T.child[IF k < n THEN "left" ELSE "right"][n]]
    IN  from[T.root]

\* The node the loop of rbtree_insert stops below.
InsertBelow(k) ==
    LET from[n \in Node] ==
            LET c == T.child[IF k < n THEN "left" ELSE "right"][n]
            IN  IF c = nil THEN n ELSE from[c]
    IN  IF T.root = nil THEN nil ELSE from[T.root]

\* rbtree_insert before its fixup.
Attached(k) ==
    LET y  == InsertBelow(k)
        t1 == [T EXCEPT !.parent[k] = y, !.color[k] = "red",
                        !.child["left"][k] = nil, !.child["right"][k] = nil]
    IN  IF y = nil THEN [t1 EXCEPT !.root = k]
        ELSE SetChild(t1, IF k < y THEN "left" ELSE "right", y, k)
-----------------------------------------------------------------------------
(***************************************************************************)
(* One turn of rbtree_insert_fixup: the new tree and the new z.            *)
(***************************************************************************)
\* z's uncle is red: the red moves up.
Recolored_UncleForgotten(t, p, y, g) == SetColor(SetColor(t, p, "black"), g, "red")  \* mutant
Recolored(t, p, y, g) == SetColor(SetColor(SetColor(t, p, "black"), y, "black"), g, "red")

\* z is on the inner side of its parent: turned to the outer side first.
Inner(t, z, d) == z = t.child[Other(d)][t.parent[z]]

InsertTurn(t, z) ==
    LET p  == t.parent[z]
        g  == t.parent[p]
        d  == Side(t, g, p)
        y  == t.child[Other(d)][g]
        z1 == IF Inner(t, z, d) THEN p ELSE z
        t1 == IF Inner(t, z, d) THEN rotate(t, d, p) ELSE t
        p1 == t1.parent[z1]
        g1 == t1.parent[p1]
        t2 == SetColor(SetColor(t1, p1, "black"), g1, "red")
    IN  IF t.color[y] = "red"
        THEN [t |-> Recolored(t, p, y, g), z |-> g]
        ELSE [t |-> rotate(t2, Other(d), g1), z |-> z1]

(***************************************************************************)
(* One turn of rbtree_delete_fixup: the new tree and the new x.  w is the  *)
(* sibling of x.                                                           *)
(***************************************************************************)
\* Both nephews are black: w becomes red and the loop goes on above x.
Up_Stays(t, x) == x  \* mutant
Up(t, x) == t.parent[x]

\* A red sibling is rotated above the parent.
RedSibling(t, x, d) ==
    LET p == t.parent[x]
        w == t.child[Other(d)][p]
    IN  IF t.color[w] = "red"
        THEN rotate(SetColor(SetColor(t, w, "black"), p, "red"), d, p)
        ELSE t

\* A red nephew on x's side only is turned to the far side.
NearNephew(t, x, d) ==
    LET w    == t.child[Other(d)][t.parent[x]]
        near == t.child[d][w]
    IN  IF t.color[t.child[Other(d)][w]] = "black"
        THEN rotate(SetColor(SetColor(t, near, "black"), w, "red"), Other(d), w)
        ELSE t

\* The final rotation: w takes the colour of the parent.
FarNephew(t, x, d) ==
    LET p  == t.parent[x]
        w  == t.child[Other(d)][p]
        t1 == SetColor(SetColor(t, w, t.color[p]), p, "black")
    IN  rotate(SetColor(t1, t.child[Other(d)][w], "black"), d, p)

DeleteTurn(t, x) ==
    LET d  == Side(t, t.parent[x], x)
        t1 == RedSibling(t, x, d)
        w  == t1.child[Other(d)][t1.parent[x]]
        t2 == FarNephew(NearNephew(t1, x, d), x, d)
    IN  IF \A e \in Dir : t1.color[t1.child[e][w]] = "black"
        THEN [t |-> SetColor(t1, w, "red"), x |-> Up(t1, x)]
        ELSE [t |-> t2, x |-> t2.root]

(***************************************************************************)
(* rbtree_delete before its fixup.                                         *)
(***************************************************************************)
\* The node that is unlinked: z, or the least node of its right subtree.
Unlinked(z) ==
    LET mini[n \in Node] == IF T.child["left"][n] = nil THEN n ELSE mini[T.child["left"][n]]
    IN  IF \E d \in Dir : T.child[d][z] = nil THEN z ELSE mini[T.child["right"][z]]

\* Its only child, or nil, which takes its place.
OnlyChild(y) == IF T.child["left"][y] # nil THEN T.child["left"][y] ELSE T.child["right"][y]

\* z renamed to y, and the freed name cleared.
Renamed(t, z, y) ==
    LET new(n) == IF n = z /\ z # y THEN y ELSE n
        old(n) == IF n = y THEN z ELSE n
        moved(f, none) == [n \in Node |-> IF n = z THEN none ELSE new(f[old(n)])]
    IN  [root   |-> new(t.root),
         child  |-> [d \in Dir |-> moved(t.child[d], nil)],
         parent |-> moved(t.parent, NULL),
         color  |-> [n \in Node |-> IF n = z THEN "black" ELSE t.color[old(n)]]]

Detached(z) ==
    LET y == Unlinked(z)
        x == OnlyChild(y)
    IN  Renamed(Replace([T EXCEPT !.parent[x] = T.parent[y]], T.parent[y], y, x), z, y)
-----------------------------------------------------------------------------
(***************************************************************************)
(* The engine's cases of kvs_parser_protocol.                              *)
(***************************************************************************)
init_rbtree ==
    /\ T = [root   |-> nil,
            child  |-> [d \in Dir |-> [n \in Node |-> nil]],
            parent |-> [n \in Node |-> NULL],
            color  |-> [n \in Node |-> "black"]]
    /\ value = [n \in Node |-> IF n = nil THEN EmptyValue ELSE NULL]
    /\ nb_elements = 0

Init ==
    /\ init_rbtree
    /\ loop = "none" /\ at = nil /\ req = NoReq
    /\ reply = [cmd |-> "none", key |-> NULL, val |-> NULL, out |-> NO_EXIST]

Idle == loop = "none"

Exists(k) == k # NULL /\ rbtree_search(k) # nil

Enter(l, n, cmd, k, v) ==
    /\ loop' = l /\ at' = n
    /\ req' = [cmd |-> cmd, key |-> k, val |-> v]

Leave == loop' = "none" /\ at' = nil /\ req' = NoReq

\* put_kv_rbtree without a key or a value, of a key that is there, or for
\* which there is no memory.
CmdRSETRefused(k, v) ==
    /\ Idle
    /\ k = NULL \/ v = NULL \/ Exists(k) \/ MallocMayFail
    /\ Answer("SET", k, v, StatusReply(-1))
    /\ UNCHANGED <<tree, idle>>

CmdRSET(k, v) ==
    /\ Idle /\ ~ Exists(k)
    /\ T' = Attached(k)
    /\ value' = [value EXCEPT ![k] = v]
    /\ Enter("insert", k, "SET", k, v)
    /\ UNCHANGED <<nb_elements, reply>>

InsertGoesOn == loop = "insert" /\ T.color[T.parent[at]] = "red"

InsertFixup ==
    /\ InsertGoesOn
    /\ T' = InsertTurn(T, at).t
    /\ at' = InsertTurn(T, at).z
    /\ UNCHANGED <<value, nb_elements, loop, req, reply>>

InsertDone ==
    /\ loop = "insert" /\ ~ InsertGoesOn
    /\ T' = SetColor(T, T.root, "black")
    /\ nb_elements' = nb_elements + 1
    /\ Leave
    /\ Answer("SET", req.key, req.val, StatusReply(0))
    /\ UNCHANGED value

get_kv_rbtree(k) == IF k = NULL THEN NULL ELSE value[rbtree_search(k)]

CmdRGET(k) ==
    /\ Idle
    /\ Answer("GET", k, NULL, GetReply(get_kv_rbtree(k), NULL))
    /\ UNCHANGED <<tree, idle>>

CmdRCOUNT ==
    /\ Idle
    /\ Answer("COUNT", NULL, NULL, IntReply(nb_elements))
    /\ UNCHANGED <<tree, idle>>

CmdREXIST(k) ==
    /\ Idle
    /\ Answer("EXIST", k, NULL, IF k = NULL THEN IntReply(-1) ELSE ExistReply(Exists(k)))
    /\ UNCHANGED <<tree, idle>>

CmdRDELETEMiss(k) ==
    /\ Idle /\ ~ Exists(k)
    /\ Answer("DELETE", k, NULL, StatusReply(IF k = NULL THEN -1 ELSE 1))
    /\ UNCHANGED <<tree, idle>>

CountAfterDelete_Kept == nb_elements       \* mutant
CountAfterDelete == nb_elements - 1

\* delete_kv_rbtree after rbtree_delete: the node is freed.
Freed(k) ==
    /\ value' = [value EXCEPT ![k] = NULL]
    /\ nb_elements' = CountAfterDelete
    /\ Answer("DELETE", k, NULL, StatusReply(0))

NeedsFixup_Red(y) == T.color[y] = "red"  \* mutant
NeedsFixup(y) == T.color[y] = "black"

CmdRDELETE(k) ==
    /\ Idle /\ Exists(k)
    /\ T' = Detached(k)
    /\ LET y == Unlinked(k)
       IN  \/ /\ NeedsFixup(y)
              /\ Enter("delete", OnlyChild(y), "DELETE", k, NULL)
              /\ UNCHANGED <<value, nb_elements, reply>>
           \/ /\ ~ NeedsFixup(y)
              /\ Freed(k)
              /\ UNCHANGED idle

DeleteGoesOn == loop = "delete" /\ at # T.root /\ T.color[at] = "black"

DeleteFixup ==
    /\ DeleteGoesOn
    /\ T' = DeleteTurn(T, at).t
    /\ at' = DeleteTurn(T, at).x
    /\ UNCHANGED <<value, nb_elements, loop, req, reply>>

DeleteDone ==
    /\ loop = "delete" /\ ~ DeleteGoesOn
    /\ T' = SetColor(T, at, "black")
    /\ Freed(req.key)
    /\ Leave

Engine == InsertFixup \/ InsertDone \/ DeleteFixup \/ DeleteDone

Next ==
    \/ \E k \in Key \cup {NULL}, v \in Value \cup {NULL} : CmdRSETRefused(k, v)
    \/ \E k \in Key, v \in Value : CmdRSET(k, v)
    \/ \E k \in Key \cup {NULL} : CmdRGET(k)
    \/ CmdRCOUNT
    \/ \E k \in Key \cup {NULL} : CmdREXIST(k)
    \/ \E k \in Key \cup {NULL} : CmdRDELETEMiss(k)
    \/ \E k \in Key : CmdRDELETE(k)
    \/ Engine

Spec == Init /\ [][Next]_vars
-----------------------------------------------------------------------------
\* Types of the variables.
TypeOK ==
    /\ T \in [root : Node, child : [Dir -> [Node -> Node]],
              parent : [Node -> Node \cup {NULL}], color : [Node -> {"red", "black"}]]
    /\ value \in [Node -> Value \cup {NULL, EmptyValue}]
    /\ nb_elements \in 0 .. Cardinality(Key)
    /\ loop \in {"none", "insert", "delete"} /\ at \in Node

Subtree ==
    LET below[n \in Node] ==
            IF n = nil THEN {}
            ELSE {n} \cup below[T.child["left"][n]] \cup below[T.child["right"][n]]
    IN  below
InTree == Subtree[T.root]

\* Also in the middle of a fixup: left keys are smaller, right keys greater,
\* every node has its parent pointer right, and nil kept its children and
\* its colour although it was a node's child, was coloured and had its
\* parent set.
SearchTree ==
    /\ TypeOK
    /\ \A n \in InTree :
         /\ \A m \in Subtree[T.child["left"][n]] : m < n
         /\ \A m \in Subtree[T.child["right"][n]] : n < m
         /\ \A d \in Dir : T.child[d][n] # nil => T.parent[T.child[d][n]] = n
    /\ T.root # nil => T.parent[T.root] = nil
    /\ \A d \in Dir : T.child[d][nil] = nil
    /\ T.color[nil] = "black"

\* The number of black nodes on every way down from n, or less than 0 when two
\* ways differ.  In the delete fixup x counts one more.
BlackHeight ==
    LET extra(p, n) == IF loop = "delete" /\ n = at /\ T.parent[at] = p THEN 1 ELSE 0
        height[n \in Node] ==
            IF n = nil THEN 0
            ELSE LET l == height[T.child["left"][n]] + extra(n, T.child["left"][n])
                     r == height[T.child["right"][n]] + extra(n, T.child["right"][n])
                 IN  IF l # r \/ l < 0 THEN -100
                     ELSE l + IF T.color[n] = "black" THEN 1 ELSE 0
    IN  height[T.root]

RedRed == {n \in InTree : T.color[n] = "red" /\ T.color[T.parent[n]] = "red"}

\* Between commands the tree is a red-black tree: black root, no red node
\* below a red one, as many black nodes on every way down.
RedBlack ==
    loop = "none" =>
        /\ T.color[T.root] = "black"
        /\ RedRed = {}
        /\ BlackHeight >= 0

\* What each turn of a fixup loop keeps.  Insert: the black heights agree, z
\* is red and the only node below a red parent, and only z may be a red
\* root.  Delete: the black heights agree when x counts one more, and two
\* red nodes in a row are x and its parent or x and its child, which the
\* colour x gets at the end sets right.
FixupInvariant ==
    /\ loop = "insert" =>
         /\ BlackHeight >= 0
         /\ at \in InTree /\ T.color[at] = "red"
         /\ RedRed \subseteq {at}
         /\ T.color[T.root] = "red" => at = T.root
    /\ loop = "delete" =>
         /\ BlackHeight >= 0
         /\ \A n \in RedRed : at \in {n, T.parent[n]}
         /\ T.color[T.root] = "red" => at = T.root

\* RCOUNT is the number of nodes of the tree, and no node is allocated that
\* the tree does not reach.
CountExact ==
    loop = "none" =>
        /\ nb_elements = Cardinality(InTree)
        /\ InTree = {k \in Key : value[k] # NULL}

\* Every fixup loop ends: a turn that does not end it has brought z or x
\* nearer to the root, although rotations lower nodes again.  The depth of
\* n is the number of nodes above it, for nil too.
Depth(n) == Cardinality({m \in InTree : T.parent[n] \in Subtree[m]})
FixupClimbs ==
    [][(InsertGoesOn /\ InsertGoesOn') \/ (DeleteGoesOn /\ DeleteGoesOn')
       => Depth(at)' < Depth(at)]_vars

\* The engine implements the map its clients assume: the searches of every
\* key agree with it also inside the fixups.  The answers it gives in its
\* own way are RGET of a key that is not there, an empty value, and REXIST
\* without a key, -1.
MapValue(k) ==
    IF loop # "none" /\ k = req.key
    THEN IF loop = "insert" THEN NULL ELSE value[k]
    ELSE IF rbtree_search(k) = nil THEN NULL ELSE value[rbtree_search(k)]
MapReply ==
    [reply EXCEPT !.out = CASE @ = ValueReply(EmptyValue) -> NO_EXIST
                            [] @ = IntReply(-1)           -> IntReply(0)
                            [] OTHER                      -> @]
Map == INSTANCE KVMap WITH
           map <- [k \in Key |-> MapValue(k)], reply <- MapReply,
           Capacity <- -1
Refines == Map!Spec
=============================================================================
