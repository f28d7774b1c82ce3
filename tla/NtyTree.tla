------------------------------ MODULE NtyTree ------------------------------
(***************************************************************************)
(* The red-black tree macros of nty_tree.h, which hold the sleeping and    *)
(* the waiting coroutines.                                                 *)
(*                                                                         *)
(* Unlike rbtree.c there is no node for the leaves: a missing child is the *)
(* null pointer, so that RB_REMOVE_COLOR must be told the parent of elm;   *)
(* and the links lie in the elements, so that RB_REMOVE moves the          *)
(* successor into the place of the removed element instead of copying its  *)
(* key.  RB_INSERT of an element whose key is present returns the present  *)
(* one and changes nothing: nty_schedule_sched_sleepdown then tries the    *)
(* next microsecond, nty_schedule_sched_wait fails an assertion.           *)
(*                                                                         *)
(* The code has every branch twice, once for each side.  Here it is        *)
(* written once, for a side d.  A tree is [root, child, parent, color]; an *)
(* element that is not in it has no links (RB_SET writes them all, so what *)
(* RB_REMOVE leaves in them is never read).                                *)
(*                                                                         *)
(* A definition X_Y marked "mutant" is X with a plausible bug.             *)
(***************************************************************************)
EXTENDS Integers, Sequences, FiniteSets

LOCAL Seqs == INSTANCE SequencesExt

CONSTANTS Elem,   \* the elements
          KeyOf,  \* the key of each
          NULL    \* the null pointer

ASSUME TreeAssumption ==
    /\ IsFiniteSet(Elem) /\ NULL \notin Elem
    /\ KeyOf \in [Elem -> Int]

VARIABLES T,   \* the tree
          ret  \* what the last call of RB_INSERT or RB_REMOVE returned

vars == <<T, ret>>

Dir == {"left", "right"}
Other(d) == IF d = "left" THEN "right" ELSE "left"
-----------------------------------------------------------------------------
RB_INIT ==
    [root   |-> NULL,
     child  |-> [d \in Dir |-> [e \in Elem |-> NULL]],
     parent |-> [e \in Elem |-> NULL],
     color  |-> [e \in Elem |-> "black"]]

RB_EMPTY(t) == t.root = NULL

RB_SET(t, e, p) ==
    [t EXCEPT !.parent[e] = p, !.color[e] = "red",
              !.child["left"][e] = NULL, !.child["right"][e] = NULL]

Color(t, e, c) == [t EXCEPT !.color[e] = c]
RB_SET_BLACKRED(t, black, red) == Color(Color(t, black, "black"), red, "red")

\* A missing child counts as black.
IsRed(t, e) == e # NULL /\ t.color[e] = "red"

Side(t, p, e) == IF t.child["left"][p] = e THEN "left" ELSE "right"

\* e takes the place of old below p; the root when p is NULL.
Replace(t, p, old, e) ==
    IF p = NULL THEN [t EXCEPT !.root = e] ELSE [t EXCEPT !.child[Side(t, p, old)][p] = e]

Adopt(t, e, p) == IF e = NULL THEN t ELSE [t EXCEPT !.parent[e] = p]

RB_ROTATE(t, d, e) ==
    LET tmp == t.child[Other(d)][e]
        b   == t.child[d][tmp]
        p   == t.parent[e]
        t1  == Adopt([t EXCEPT !.child[Other(d)][e] = b], b, e)
        t2  == Replace([t1 EXCEPT !.parent[tmp] = p], p, e, tmp)
    IN  [t2 EXCEPT !.child[d][tmp] = e, !.parent[e] = tmp]
-----------------------------------------------------------------------------
RECURSIVE RB_INSERT_COLOR(_, _)
RB_INSERT_COLOR(t, e) ==
    LET p   == t.parent[e]
        g   == t.parent[p]
        d   == Side(t, g, p)
        tmp == t.child[Other(d)][g]
        inner == t.child[Other(d)][p] = e
        t1  == IF inner THEN RB_ROTATE(t, d, p) ELSE t
        p1  == IF inner THEN e ELSE p
        e1  == IF inner THEN p ELSE e
    IN  IF ~ IsRed(t, p) THEN Color(t, t.root, "black")
        ELSE IF IsRed(t, tmp)
             THEN RB_INSERT_COLOR(RB_SET_BLACKRED(Color(t, tmp, "black"), p, g), g)
             ELSE RB_INSERT_COLOR(RB_ROTATE(RB_SET_BLACKRED(t1, p1, g), Other(d), g), e1)

\* The turn of RB_REMOVE_COLOR that ends it: tmp, the sibling, has a red
\* child, which is brought to the far side first.
LastTurn(t, d, p) ==
    LET tmp == t.child[Other(d)][p]
        t1  == IF IsRed(t, t.child[Other(d)][tmp]) THEN t
               ELSE RB_ROTATE(RB_SET_BLACKRED(t, t.child[d][tmp], tmp), Other(d), tmp)
        s   == t1.child[Other(d)][p]
        t2  == Color(Color(t1, s, t1.color[p]), p, "black")
        far == t2.child[Other(d)][s]
    IN  RB_ROTATE(IF far = NULL THEN t2 ELSE Color(t2, far, "black"), d, p)

RECURSIVE RB_REMOVE_COLOR(_, _, _)
RB_REMOVE_COLOR(t, p, e) ==
    LET d   == Side(t, p, e)
        tmp == t.child[Other(d)][p]
        t1  == IF IsRed(t, tmp) THEN RB_ROTATE(RB_SET_BLACKRED(t, tmp, p), d, p) ELSE t
        s   == t1.child[Other(d)][p]
        t2  == LastTurn(t1, d, p)
    IN  IF IsRed(t, e) \/ e = t.root
        THEN IF e = NULL THEN t ELSE Color(t, e, "black")
        ELSE IF \E x \in Dir : IsRed(t1, t1.child[x][s])
             THEN Color(t2, t2.root, "black")
             ELSE RB_REMOVE_COLOR(Color(t1, s, "red"), t1.parent[p], p)

\* The last element from e on side d.
Outermost(t, d, e) ==
    LET go[x \in Elem] == IF t.child[d][x] = NULL THEN x ELSE go[t.child[d][x]]
    IN  go[e]

\* elm gets the links and the colour of old, and its neighbours.
Moved(t, old, elm) ==
    LET p  == t.parent[old]
        t1 == [t EXCEPT !.parent[elm] = p, !.color[elm] = t.color[old],
                        !.child["left"][elm] = t.child["left"][old],
                        !.child["right"][elm] = t.child["right"][old]]
    IN  Adopt(Adopt(Replace(t1, p, old, elm), t.child["left"][old], elm),
              t.child["right"][old], elm)

\* The parent RB_REMOVE_COLOR starts from: when the successor was a child of
\* old, its old parent is gone and it is itself the parent of its child.
ColorFrom_OldParent(t, old, elm) == t.parent[elm]  \* mutant
ColorFrom(t, old, elm) == IF t.parent[elm] = old THEN elm ELSE t.parent[elm]

Forgotten(t, e) ==
    [t EXCEPT !.parent[e] = NULL, !.color[e] = "black",
              !.child["left"][e] = NULL, !.child["right"][e] = NULL]

RB_REMOVE(t, old) ==
    LET elm   == IF \E d \in Dir : t.child[d][old] = NULL THEN old
                 ELSE Outermost(t, "left", t.child["right"][old])
        child == IF t.child["left"][elm] = NULL THEN t.child["right"][elm]
                 ELSE t.child["left"][elm]
        p     == t.parent[elm]
        t1    == Replace(Adopt(t, child, p), p, elm, child)
        t2    == IF elm = old THEN t1 ELSE Moved(t1, old, elm)
        t3    == IF t.color[elm] = "black"
                 THEN RB_REMOVE_COLOR(t2, ColorFrom(t, old, elm), child) ELSE t2
    IN  Forgotten(t3, old)
-----------------------------------------------------------------------------
\* The side a search for key k takes at e.
Way(k, e) == IF k < KeyOf[e] THEN "left" ELSE "right"

\* The element with key k, or NULL.
RB_FIND(t, k) ==
    LET from[e \in Elem \cup {NULL}] ==
            IF e = NULL THEN NULL
            ELSE IF KeyOf[e] = k THEN e ELSE from[t.child[Way(k, e)][e]]
    IN  from[t.root]

\* The element below which the loop of RB_INSERT leaves the tree, or NULL.
InsertBelow(t, k) ==
    LET from[e \in Elem] ==
            LET c == t.child[Way(k, e)][e] IN IF c = NULL THEN e ELSE from[c]
    IN  IF RB_EMPTY(t) THEN NULL ELSE from[t.root]

\* The tree after the call; what it returns is RB_FIND of the same key.
Duplicate_Ignored(t, e) == FALSE  \* mutant: comp >= 0 goes right
Duplicate(t, e) == RB_FIND(t, KeyOf[e]) # NULL
RB_INSERT(t, e) ==
    LET p  == InsertBelow(t, KeyOf[e])
        t1 == RB_SET(t, e, p)
        t2 == IF p = NULL THEN [t1 EXCEPT !.root = e]
              ELSE [t1 EXCEPT !.child[Way(KeyOf[e], p)][p] = e]
    IN  IF Duplicate(t, e) THEN t ELSE RB_INSERT_COLOR(t2, e)

\* The first element whose key is at least k, or NULL.
RB_NFIND_Strict(t, k) ==  \* mutant: res is set on the way right
    LET from[e \in Elem \cup {NULL}, res \in Elem \cup {NULL}] ==
            IF e = NULL THEN res
            ELSE IF KeyOf[e] = k THEN e
            ELSE from[t.child[Way(k, e)][e], IF k < KeyOf[e] THEN res ELSE e]
    IN  from[t.root, NULL]
RB_NFIND(t, k) ==
    LET from[e \in Elem \cup {NULL}, res \in Elem \cup {NULL}] ==
            IF e = NULL THEN res
            ELSE IF KeyOf[e] = k THEN e
            ELSE from[t.child[Way(k, e)][e], IF k < KeyOf[e] THEN e ELSE res]
    IN  from[t.root, NULL]

\* The neighbour of e on side d: the innermost element of its subtree on that
\* side or, without one, the first ancestor it lies on the other side of.
Neighbour(t, d, e) ==
    LET up[x \in Elem] ==
            LET p == t.parent[x] IN IF p # NULL /\ t.child[d][p] = x THEN up[p] ELSE p
    IN  IF t.child[d][e] # NULL THEN Outermost(t, Other(d), t.child[d][e]) ELSE up[e]

RB_NEXT(t, e) == Neighbour(t, "right", e)
RB_PREV(t, e) == Neighbour(t, "left", e)

\* RB_MIN and RB_MAX.
RB_MINMAX(t, d) == IF RB_EMPTY(t) THEN NULL ELSE Outermost(t, d, t.root)

\* RB_FOREACH_SAFE and RB_FOREACH_REVERSE_SAFE with a body that removes each
\* element it is given: the elements in the order it is given them.
RECURSIVE Drained(_, _, _)
Drained(t, d, x) ==
    IF x = NULL THEN <<>> ELSE <<x>> \o Drained(RB_REMOVE(t, x), d, Neighbour(t, d, x))
RB_FOREACH_SAFE(t) == Drained(t, "right", RB_MINMAX(t, "left"))
RB_FOREACH_REVERSE_SAFE(t) == Drained(t, "left", RB_MINMAX(t, "right"))
-----------------------------------------------------------------------------
Subtree(t) ==
    LET below[e \in Elem \cup {NULL}] ==
            IF e = NULL THEN {}
            ELSE {e} \cup below[t.child["left"][e]] \cup below[t.child["right"][e]]
    IN  below
InTree == Subtree(T)[T.root]

Init == T = RB_INIT /\ ret = NULL

\* The callers insert an element that is not in the tree and remove one that
\* is: the coroutine itself, or what RB_FIND or RB_MIN gave them.
Insert(e) ==
    /\ e \notin InTree
    /\ T' = RB_INSERT(T, e)
    /\ ret' = RB_FIND(T, KeyOf[e])

Remove(e) ==
    /\ e \in InTree
    /\ T' = RB_REMOVE(T, e)
    /\ ret' = e

Next == \E e \in Elem : Insert(e) \/ Remove(e)
Spec == Init /\ [][Next]_vars
-----------------------------------------------------------------------------
\* Left keys are smaller, right keys greater, and every parent pointer is right.
SearchTree ==
    /\ \A e \in InTree :
         /\ \A f \in Subtree(T)[T.child["left"][e]] : KeyOf[f] < KeyOf[e]
         /\ \A f \in Subtree(T)[T.child["right"][e]] : KeyOf[e] < KeyOf[f]
         /\ \A d \in Dir : T.child[d][e] # NULL => T.parent[T.child[d][e]] = e
    /\ T.root # NULL => T.parent[T.root] = NULL
    /\ \A e \in Elem \ InTree : T.parent[e] = NULL

\* The number of black elements on every way down from the root, or less than
\* 0 when two ways differ.
BlackHeight ==
    LET height[e \in Elem \cup {NULL}] ==
            IF e = NULL THEN 0
            ELSE LET l == height[T.child["left"][e]]
                     r == height[T.child["right"][e]]
                 IN  IF l # r \/ l < 0 THEN -100
                     ELSE l + IF T.color[e] = "black" THEN 1 ELSE 0
    IN  height[T.root]

\* Black root, no red element below a red one, as many black elements on
\* every way down.
Balanced ==
    /\ ~ IsRed(T, T.root)
    /\ \A e \in InTree : ~ (IsRed(T, e) /\ IsRed(T, T.parent[e]))
    /\ BlackHeight >= 0

\* After every call the tree is a red-black search tree: RB_REMOVE moves the
\* successor and starts RB_REMOVE_COLOR from a null child, and both rebuild
\* the links and the colours around them.
RedBlackTree == SearchTree /\ Balanced

\* What the scheduler and the iteration macros rely on: the searches give the
\* element with the key, the next greater one, the least, the greatest and the
\* two neighbours, and RB_FOREACH_SAFE and its reverse give every element once
\* and in order although each is removed, and its successor moved, before the
\* next.
Below(k) == {e \in InTree : KeyOf[e] < k}
Above(k) == {e \in InTree : KeyOf[e] > k}
LeastOf(S) == IF S = {} THEN NULL ELSE CHOOSE e \in S : \A f \in S : KeyOf[e] <= KeyOf[f]
GreatestOf(S) == IF S = {} THEN NULL ELSE CHOOSE e \in S : \A f \in S : KeyOf[f] <= KeyOf[e]
QueriesRight ==
    /\ \A k \in {KeyOf[e] : e \in Elem} :
         /\ RB_FIND(T, k) = LeastOf({e \in InTree : KeyOf[e] = k})
         /\ RB_NFIND(T, k) = LeastOf(InTree \ Below(k))
    /\ RB_MINMAX(T, "left") = LeastOf(InTree) /\ RB_MINMAX(T, "right") = GreatestOf(InTree)
    /\ \A e \in InTree : /\ RB_NEXT(T, e) = LeastOf(Above(KeyOf[e]))
                         /\ RB_PREV(T, e) = GreatestOf(Below(KeyOf[e]))
    /\ LET visited == RB_FOREACH_SAFE(T)
       IN  /\ Len(visited) = Cardinality(InTree)
           /\ \A i \in 2 .. Len(visited) : KeyOf[visited[i - 1]] < KeyOf[visited[i]]
           /\ RB_FOREACH_REVERSE_SAFE(T) = Seqs!Reverse(visited)

\* The tree is a set of elements with different keys, and a call changes no
\* more than the membership of its element.
Keyed == INSTANCE KeyedSet WITH set <- InTree
Refines == Keyed!Spec
=============================================================================
