---------------------------- MODULE RBTreeProofs ----------------------------
(***************************************************************************)
(* RBTree for every finite set of keys: the tree is a search tree also in  *)
(* the middle of a fixup, a red-black tree between commands, and the       *)
(* engine implements the map.                                              *)
(*                                                                         *)
(* What the recursive functions of the model compute is not assumed: the   *)
(* invariant says that there are a function B, the keys below each node,   *)
(* and a function H, the number of black nodes below it, that satisfy the  *)
(* equations of a search tree and of the black heights.  The searches are  *)
(* then known at each node from B, and of the nodes where a recursive      *)
(* function differs from what the equations give there would have to be a  *)
(* lowest one.  Each rotation and each recolouring changes B and H at two  *)
(* or three nodes, and the lemmas say at which.                            *)
(***************************************************************************)
EXTENDS RBTree, CommonLemmas

TreeType == [root : Node, child : [Dir -> [Node -> Node]],
             parent : [Node -> Node \cup {NULL}], color : [Node -> {"red", "black"}]]

LEMMA ConstantFacts ==
    /\ Key \subseteq Int /\ IsFiniteSet(Key) /\ NULL \notin Key /\ NULL \notin Value
    /\ nil \notin Key /\ nil # NULL /\ Node = Key \cup {nil} /\ NULL \notin Node
    /\ EmptyValue \notin Value /\ EmptyValue # NULL
BY RBAssumption DEF Node

LEMMA Sides ==
    /\ Dir = {"left", "right"} /\ "left" # "right"
    /\ \A d \in Dir : Other(d) \in Dir /\ Other(d) # d /\ Other(Other(d)) = d
    /\ \A d, e \in Dir : e = d \/ e = Other(d)
BY DEF Dir, Other

LEMMA TreeFields ==
    ASSUME NEW t \in TreeType
    PROVE  /\ t.root \in Node
           /\ \A d \in Dir : \A n \in Node : t.child[d][n] \in Node
           /\ \A n \in Node : t.parent[n] \in Node \cup {NULL}
           /\ \A n \in Node : t.color[n] \in {"red", "black"}
BY DEF TreeType
-----------------------------------------------------------------------------
(***************************************************************************)
(* What the assignments of the program change.                             *)
(***************************************************************************)
ChildSet(t, u, d, p, n) ==
    /\ u \in TreeType
    /\ u.root = t.root /\ u.parent = t.parent /\ u.color = t.color
    /\ \A e \in Dir : \A m \in Node :
         u.child[e][m] = IF e = d /\ m = p THEN n ELSE t.child[e][m]

ParentSet(t, u, n, p) ==
    /\ u \in TreeType
    /\ u.root = t.root /\ u.child = t.child /\ u.color = t.color
    /\ \A m \in Node : u.parent[m] = IF m = n THEN p ELSE t.parent[m]

ColorSet(t, u, n, c) ==
    /\ u \in TreeType
    /\ u.root = t.root /\ u.child = t.child /\ u.parent = t.parent
    /\ \A m \in Node : u.color[m] = IF m = n THEN c ELSE t.color[m]

Replaced(t, u, p, x, n) ==
    /\ u \in TreeType
    /\ u.root = IF p = nil THEN n ELSE t.root
    /\ u.parent = t.parent /\ u.color = t.color
    /\ \A e \in Dir : \A m \in Node :
         u.child[e][m] = IF p # nil /\ e = Side(t, p, x) /\ m = p THEN n
                         ELSE t.child[e][m]

LEMMA SetChildIs ==
    ASSUME NEW t \in TreeType, NEW d \in Dir, NEW p \in Node, NEW n \in Node
    PROVE  ChildSet(t, SetChild(t, d, p, n), d, p, n)
BY DEF SetChild, TreeType, ChildSet

LEMMA SetParentIs ==
    ASSUME NEW t \in TreeType, NEW n \in Node, NEW p \in Node \cup {NULL}
    PROVE  ParentSet(t, [t EXCEPT !.parent[n] = p], n, p)
BY DEF TreeType, ParentSet

LEMMA SetColorIs ==
    ASSUME NEW t \in TreeType, NEW n \in Node, NEW c \in {"red", "black"}
    PROVE  ColorSet(t, SetColor(t, n, c), n, c)
BY DEF SetColor, TreeType, ColorSet

LEMMA SideIs ==
    ASSUME NEW t, NEW p, NEW x
    PROVE  Side(t, p, x) \in Dir
BY DEF Side, Dir

\* n takes the place of x below p.
LEMMA ReplaceIs ==
    ASSUME NEW t \in TreeType, NEW p \in Node, NEW x \in Node, NEW n \in Node
    PROVE  Replaced(t, Replace(t, p, x, n), p, x, n)
<1>1. CASE p = nil
  BY <1>1 DEF Replace, TreeType, Replaced
<1>2. CASE p # nil
  <2>1. PICK s : s = Side(t, p, x)
    OBVIOUS
  <2>2. s \in Dir
    BY <2>1, SideIs
  <2>3. Replace(t, p, x, n) = SetChild(t, s, p, n)
    BY <1>2, <2>1 DEF Replace
  <2>4. ChildSet(t, Replace(t, p, x, n), s, p, n)
    BY <2>2, <2>3, SetChildIs
  <2>. QED
    BY <1>2, <2>1, <2>4 DEF ChildSet, Replaced
<1>. QED
  BY <1>1, <1>2

\* A rotation to the side d at x below p, whose child y on the other side
\* comes up and hands its child b over.
Rotated(t, u, d, x, y, b, p) ==
    /\ u \in TreeType
    /\ u.color = t.color
    /\ u.root = IF p = nil THEN y ELSE t.root
    /\ \A n \in Node : u.parent[n] = IF n = x THEN y
                                     ELSE IF n = y THEN p
                                     ELSE IF n = b /\ b # nil THEN x
                                     ELSE t.parent[n]
    /\ \A e \in Dir : \A n \in Node :
         u.child[e][n] = IF n = x /\ e = Other(d) THEN b
                         ELSE IF n = y /\ e = d THEN x
                         ELSE IF p # nil /\ n = p /\ e = Side(t, p, x) THEN y
                         ELSE t.child[e][n]

LEMMA RotateIs ==
    ASSUME NEW t \in TreeType, NEW d \in Dir, NEW x \in Node,
           NEW y \in Node, NEW b \in Node, NEW p \in Node,
           y = t.child[Other(d)][x], b = t.child[d][y], p = t.parent[x],
           x # y, p # x, p # y
    PROVE  Rotated(t, rotate(t, d, x), d, x, y, b, p)
<1>3. Other(d) \in Dir /\ Other(d) # d
  BY Sides
<1>5. PICK t0 : t0 = SetChild(t, Other(d), x, b)
  OBVIOUS
<1>6. ChildSet(t, t0, Other(d), x, b)
  BY <1>3, <1>5, SetChildIs
<1>7. PICK t1 : t1 = Adopt(t0, b, x)
  OBVIOUS
<1>8. /\ t1 \in TreeType
      /\ t1.root = t.root /\ t1.child = t0.child /\ t1.color = t.color
      /\ \A m \in Node : t1.parent[m] = IF m = b /\ b # nil THEN x ELSE t.parent[m]
  <2>1. CASE b = nil
    BY <1>6, <1>7, <2>1 DEF Adopt, ChildSet
  <2>2. CASE b # nil
    <3>1. t1 = [t0 EXCEPT !.parent[b] = x]
      BY <1>7, <2>2 DEF Adopt
    <3>2. ParentSet(t0, t1, b, x)
      BY <1>6, <3>1, SetParentIs DEF ChildSet
    <3>. QED
      BY <1>6, <2>2, <3>2 DEF ParentSet, ChildSet
  <2>. QED
    BY <2>1, <2>2
<1>9. PICK t2 : t2 = [t1 EXCEPT !.parent[y] = p]
  OBVIOUS
<1>10. ParentSet(t1, t2, y, p)
  BY <1>8, <1>9, SetParentIs
<1>11. PICK t3 : t3 = Replace(t2, p, x, y)
  OBVIOUS
<1>12. Side(t2, p, x) = Side(t, p, x)
  <2>1. t2.child["left"][p] = t.child["left"][p]
    BY <1>6, <1>8, <1>10, Sides DEF ParentSet, ChildSet
  <2>. QED
    BY <2>1 DEF Side
<1>13. Replaced(t2, t3, p, x, y)
  BY <1>10, <1>11, ReplaceIs DEF ParentSet
<1>14. PICK t4 : t4 = SetChild(t3, d, y, x)
  OBVIOUS
<1>15. ChildSet(t3, t4, d, y, x)
  BY <1>13, <1>14, SetChildIs DEF Replaced
<1>16. rotate(t, d, x) = [t4 EXCEPT !.parent[x] = y]
  BY <1>5, <1>7, <1>9, <1>11, <1>14 DEF rotate
<1>17. PICK u : u = rotate(t, d, x)
  OBVIOUS
<1>18. ParentSet(t4, u, x, y)
  BY <1>15, <1>16, <1>17, SetParentIs DEF ChildSet
<1>19. \A n \in Node : u.parent[n] = IF n = x THEN y
                                     ELSE IF n = y THEN p
                                     ELSE IF n = b /\ b # nil THEN x
                                     ELSE t.parent[n]
  BY <1>8, <1>10, <1>13, <1>15, <1>18 DEF ParentSet, ChildSet, Replaced
<1>20. \A e \in Dir : \A n \in Node :
         u.child[e][n] = IF n = x /\ e = Other(d) THEN b
                         ELSE IF n = y /\ e = d THEN x
                         ELSE IF p # nil /\ n = p /\ e = Side(t, p, x) THEN y
                         ELSE t.child[e][n]
  <2>1. u.child = t4.child /\ t2.child = t0.child
    BY <1>8, <1>10, <1>18 DEF ParentSet
  <2>2. \A e \in Dir : \A n \in Node : t4.child[e][n] = IF e = d /\ n = y THEN x ELSE t3.child[e][n]
    BY <1>15 DEF ChildSet
  <2>3. \A e \in Dir : \A n \in Node :
          t3.child[e][n] = IF p # nil /\ e = Side(t, p, x) /\ n = p THEN y ELSE t0.child[e][n]
    BY <1>12, <1>13, <2>1 DEF Replaced
  <2>4. \A e \in Dir : \A n \in Node : t0.child[e][n] = IF e = Other(d) /\ n = x THEN b ELSE t.child[e][n]
    BY <1>6 DEF ChildSet
  <2>. QED
    BY <2>1, <2>2, <2>3, <2>4
<1>21. /\ u \in TreeType /\ u.color = t.color
       /\ u.root = IF p = nil THEN y ELSE t.root
  BY <1>8, <1>10, <1>13, <1>15, <1>18 DEF ParentSet, ChildSet, Replaced
<1>. QED
  BY <1>17, <1>19, <1>20, <1>21 DEF Rotated
-----------------------------------------------------------------------------
(***************************************************************************)
(* Search trees.                                                           *)
(***************************************************************************)
\* m belongs on the side e of n.
Before(e, m, n) == IF e = "left" THEN m < n ELSE n < m

LEMMA Order ==
    /\ \A e \in Dir : \A m, n \in Key : Before(Other(e), m, n) <=> Before(e, n, m)
    /\ \A e \in Dir : \A n \in Key : ~ Before(e, n, n)
    /\ \A e \in Dir : \A l, m, n \in Key : Before(e, l, m) /\ Before(e, m, n) => Before(e, l, n)
    /\ \A e \in Dir : \A m, n \in Key : m = n \/ Before(e, m, n) \/ Before(e, n, m)
BY ConstantFacts DEF Before, Dir, Other

\* B gives the keys below each node of a search tree.
Tree(t, B) ==
    /\ t \in TreeType
    /\ B \in [Node -> SUBSET Key]
    /\ B[nil] = {}
    /\ \A n, m \in Key : m \in B[n] <=> m = n \/ \E e \in Dir : m \in B[t.child[e][n]]
    /\ \A n \in Key : \A e \in Dir : \A m \in B[t.child[e][n]] : Before(e, m, n)
    /\ \A e \in Dir : t.child[e][nil] = nil
    /\ \A n \in Key : \A e \in Dir : t.child[e][n] # nil => t.parent[t.child[e][n]] = n
    /\ t.root # nil => t.parent[t.root] = nil
    /\ \A n \in Key : n \notin B[t.root] => \A e \in Dir : t.child[e][n] = nil

\* A child, its parent and its sibling differ.
LEMMA Children ==
    ASSUME NEW t, NEW B, Tree(t, B), NEW n \in Key, NEW e \in Dir, NEW c, c = t.child[e][n]
    PROVE  /\ c \in Node /\ B[c] \subseteq B[n] /\ n \in B[n] /\ n \notin B[c] /\ c # n
           /\ c # nil => c \in Key /\ c \in B[n] /\ c \in B[c] /\ t.parent[c] = n
           /\ c # nil => c # t.child[Other(e)][n]
           /\ B[t.child[Other(e)][n]] \cap B[c] = {}
<1>1. c \in Node /\ t.child[Other(e)][n] \in Node /\ Other(e) \in Dir
  BY TreeFields, ConstantFacts, Sides DEF Tree
<1>2. n \in B[n] /\ B[c] \subseteq B[n]
  BY <1>1, ConstantFacts DEF Tree
<1>3. n \notin B[c]
  BY <1>1, Order DEF Tree
<1>4. c # nil => c \in Key /\ c \in B[c] /\ t.parent[c] = n
  BY <1>1, ConstantFacts DEF Tree
<1>5. B[t.child[Other(e)][n]] \cap B[c] = {}
  <2>1. ASSUME NEW m, m \in B[c], m \in B[t.child[Other(e)][n]]
        PROVE  FALSE
    <3>1. m \in Key
      BY <1>1, <2>1 DEF Tree
    <3>2. Before(e, m, n) /\ Before(Other(e), m, n)
      BY <1>1, <2>1 DEF Tree
    <3>. QED
      BY <3>1, <3>2, Order
  <2>. QED
    BY <2>1
<1>. QED
  BY <1>1, <1>2, <1>3, <1>4, <1>5

\* Of a set of nodes one has no child in it.
LEMMA LowestExists ==
    ASSUME NEW t, NEW B, Tree(t, B), NEW S \in SUBSET Key, S # {}
    PROVE  \E n \in S : \A e \in Dir : t.child[e][n] \notin S
<1>. DEFINE N == {Cardinality(B[n]) : n \in S}
<1>1. \A n \in Key : B[n] \in SUBSET Key /\ IsFiniteSet(B[n]) /\ Cardinality(B[n]) \in Nat
  BY ConstantFacts, FS_Subset, FS_CardinalityType DEF Tree
<1>. N \in SUBSET Nat /\ N # {}
  BY <1>1
<1>2. PICK i \in N : \A j \in N : i <= j
  BY LeastExists
<1>3. PICK n \in S : i = Cardinality(B[n])
  BY <1>2
<1>4. ASSUME NEW e \in Dir, t.child[e][n] \in S
      PROVE  FALSE
  <2>1. PICK c \in S : c = t.child[e][n]
    BY <1>4
  <2>2. B[c] \subseteq B[n] /\ n \in B[n] /\ n \notin B[c]
    BY <2>1, Children
  <2>3. Cardinality(B[c]) < Cardinality(B[n])
    <3>1. IsFiniteSet(B[n]) /\ B[c] # B[n]
      BY <1>1, <2>2
    <3>2. Cardinality(B[c]) <= Cardinality(B[n]) /\ Cardinality(B[c]) # Cardinality(B[n])
      BY <2>2, <3>1, FS_Subset
    <3>3. Cardinality(B[c]) \in Nat /\ Cardinality(B[n]) \in Nat
      BY <1>1
    <3>. QED
      BY <3>2, <3>3
  <2>4. Cardinality(B[c]) \in N
    OBVIOUS
  <2>. QED
    BY <1>1, <1>2, <1>3, <2>3, <2>4
<1>. QED
  BY <1>4

LEMMA BelowBelow ==
    ASSUME NEW t, NEW B, Tree(t, B), NEW n \in Key, NEW m \in B[n]
    PROVE  B[m] \subseteq B[n] /\ m \in Key /\ (m # n => n \notin B[m])
<1>. DEFINE Bad == {q \in Key : \E l \in B[q] : ~ (B[l] \subseteq B[q])}
<1>1. ASSUME Bad # {} PROVE FALSE
  <2>1. PICK q \in Bad : \A e \in Dir : t.child[e][q] \notin Bad
    BY <1>1, LowestExists
  <2>2. PICK l \in B[q] : ~ (B[l] \subseteq B[q])
    BY <2>1
  <2>3. l \in Key /\ q \in Key /\ l # q
    BY <2>2, ConstantFacts DEF Tree
  <2>4. PICK e \in Dir : l \in B[t.child[e][q]]
    BY <2>2, <2>3 DEF Tree
  <2>5. PICK c : c = t.child[e][q]
    OBVIOUS
  <2>6. c \in Key
    BY <2>3, <2>4, <2>5, TreeFields, ConstantFacts DEF Tree
  <2>7. B[l] \subseteq B[c]
    BY <2>1, <2>4, <2>5, <2>6
  <2>8. B[c] \subseteq B[q]
    BY <2>3, <2>5, Children
  <2>. QED
    BY <2>2, <2>7, <2>8
<1>2. \A q \in Key : \A l \in B[q] : B[l] \subseteq B[q]
  BY <1>1
<1>3. m \in Key
  BY ConstantFacts DEF Tree
<1>4. ASSUME m # n PROVE n \notin B[m]
  <2>1. PICK e \in Dir : m \in B[t.child[e][n]]
    BY <1>3, <1>4 DEF Tree
  <2>2. PICK c : c = t.child[e][n]
    OBVIOUS
  <2>3. c \in Key
    BY <1>3, <2>1, <2>2, TreeFields, ConstantFacts DEF Tree
  <2>4. B[m] \subseteq B[c]
    BY <1>2, <2>1, <2>2, <2>3
  <2>. QED
    BY <2>2, <2>4, Children
<1>. QED
  BY <1>2, <1>3, <1>4

\* A node of the tree other than the root is the child of its parent, which
\* is in the tree.
LEMMA ParentOf ==
    ASSUME NEW t, NEW B, Tree(t, B), NEW n \in B[t.root]
    PROVE  /\ n \in Key /\ t.root \in Key
           /\ n = t.root => t.parent[n] = nil
           /\ n # t.root => /\ t.parent[n] \in B[t.root] /\ t.parent[n] \in Key
                            /\ \E e \in Dir : t.child[e][t.parent[n]] = n
<1>1. t.root \in Key /\ n \in Key
  BY TreeFields, ConstantFacts DEF Tree
<1>2. n = t.root => t.parent[n] = nil
  BY <1>1, ConstantFacts DEF Tree
<1>3. ASSUME n # t.root
      PROVE  /\ t.parent[n] \in B[t.root] /\ t.parent[n] \in Key
             /\ \E e \in Dir : t.child[e][t.parent[n]] = n
  <2>. DEFINE S == {m \in B[t.root] : n \in B[m] /\ m # n}
  <2>1. S \in SUBSET Key /\ t.root \in S
    <3>1. t.root \in B[t.root] /\ B[t.root] \in SUBSET Key
      BY <1>1, ConstantFacts DEF Tree
    <3>. QED
      BY <1>3, <3>1
  <2>2. PICK m \in S : \A e \in Dir : t.child[e][m] \notin S
    BY <2>1, LowestExists
  <2>3. m \in Key /\ n \in B[m] /\ m # n /\ m \in B[t.root]
    BY <2>1, <2>2
  <2>4. PICK e \in Dir : n \in B[t.child[e][m]]
    BY <1>1, <2>3 DEF Tree
  <2>5. PICK c : c = t.child[e][m]
    OBVIOUS
  <2>6. c \in Key
    BY <1>1, <2>3, <2>4, <2>5, TreeFields, ConstantFacts DEF Tree
  <2>7. c \in B[m]
    BY <2>3, <2>5, <2>6, Children, ConstantFacts
  <2>8. c \in B[t.root]
    BY <1>1, <2>3, <2>7, BelowBelow
  <2>9. c = n
    BY <2>2, <2>4, <2>5, <2>8
  <2>10. t.parent[c] = m
    BY <2>3, <2>5, <2>6, ConstantFacts DEF Tree
  <2>. QED
    BY <2>3, <2>5, <2>9, <2>10
<1>. QED
  BY <1>1, <1>2, <1>3
-----------------------------------------------------------------------------
(***************************************************************************)
(* A rotation at a node x of a search tree with a child y on the other     *)
(* side.                                                                   *)
(***************************************************************************)
\* Every way down now comes to y where it came to x, and behind them the
\* three subtrees are the same.
Turned(t, u, d, x, y) ==
    /\ u \in TreeType /\ u.color = t.color
    /\ x \in Key /\ y \in Key /\ x # y
    /\ u.child[d][x] = t.child[d][x] /\ u.child[Other(d)][x] = t.child[d][y]
    /\ u.child[d][y] = x /\ u.child[Other(d)][y] = t.child[Other(d)][y]
    /\ t.child[Other(d)][x] = y
    /\ t.child[d][x] \notin {x, y} /\ t.child[d][y] \notin {x, y}
    /\ t.child[Other(d)][y] \notin {x, y}
    /\ \A n \in Node \ {x, y} : \A e \in Dir :
         \/ u.child[e][n] = t.child[e][n] /\ t.child[e][n] \notin {x, y}
         \/ u.child[e][n] = y /\ t.child[e][n] = x
    /\ \/ t.root = x /\ u.root = y
       \/ t.root \notin {x, y} /\ u.root = t.root
    /\ u.parent[x] = y /\ u.parent[y] = t.parent[x]
    /\ \A n \in Node \ {x, y} :
         u.parent[n] = IF n = t.child[d][y] /\ n # nil THEN x ELSE t.parent[n]

LEMMA RotateTurns ==
    ASSUME NEW t, NEW B, Tree(t, B), NEW d \in Dir, NEW x \in B[t.root],
           NEW y, y = t.child[Other(d)][x], y # nil
    PROVE  Turned(t, rotate(t, d, x), d, x, y)
<1>1. x \in Key /\ t.root \in Key /\ Other(d) \in Dir /\ t \in TreeType
  BY ParentOf, Sides DEF Tree
<1>2. y \in Key /\ x # y /\ y \in B[x] /\ x \notin B[y] /\ t.parent[y] = x
  BY <1>1, Children
<1>3. PICK a, b, c : a = t.child[d][x] /\ b = t.child[d][y] /\ c = t.child[Other(d)][y]
  OBVIOUS
<1>4. a \in Node /\ b \in Node /\ c \in Node /\ x \in Node /\ y \in Node
  BY <1>1, <1>2, <1>3, TreeFields, ConstantFacts
<1>5. a # x /\ a # y
  BY <1>1, <1>2, <1>3, Children, Sides
<1>6. b # y /\ c # y
  BY <1>1, <1>2, <1>3, Children
<1>7. b # x /\ c # x
  BY <1>1, <1>2, <1>3, Children, ConstantFacts
<1>8. PICK p : p = t.parent[x]
  OBVIOUS
<1>9. /\ p \in Node /\ p # x /\ p # y
      /\ p = nil => t.root = x
      /\ p # nil => t.root # x /\ t.child[Side(t, p, x)][p] = x
                    /\ t.child[Other(Side(t, p, x))][p] # x
  <2>1. CASE x = t.root
    BY <1>1, <1>2, <1>8, <2>1, ParentOf, ConstantFacts
  <2>2. CASE x # t.root
    <3>1. p \in Key
      BY <1>8, <2>2, ParentOf
    <3>2. PICK e \in Dir : t.child[e][p] = x
      BY <1>8, <2>2, ParentOf
    <3>3. p # x /\ x \in B[p] /\ p \notin B[x] /\ t.child[Other(e)][p] # x
      BY <1>1, <3>1, <3>2, Children, ConstantFacts
    <3>4. p # y
      BY <1>2, <3>3
    <3>5. e = Side(t, p, x)
      BY <3>2, <3>3, Sides DEF Side, Other
    <3>. QED
      BY <2>2, <3>1, <3>2, <3>3, <3>4, <3>5, ConstantFacts
  <2>. QED
    BY <2>1, <2>2
<1>10. PICK u : u = rotate(t, d, x)
  OBVIOUS
<1>11. Rotated(t, u, d, x, y, b, p)
  BY <1>1, <1>2, <1>3, <1>4, <1>8, <1>9, <1>10, RotateIs
<1>12. \A n \in Key : \A e \in Dir : /\ t.child[e][n] = x => n = p
                                     /\ t.child[e][n] = y => n = x
  BY <1>1, <1>2, <1>8, ConstantFacts DEF Tree
<1>13. \A e \in Dir : t.child[e][nil] = nil
  BY DEF Tree
<1>14. \A n \in Node \ {x, y} : \A e \in Dir :
         \/ u.child[e][n] = t.child[e][n] /\ t.child[e][n] \notin {x, y}
         \/ u.child[e][n] = y /\ t.child[e][n] = x
  <2>. TAKE n \in Node \ {x, y}
  <2>. TAKE e \in Dir
  <2>1. CASE n = nil
    BY <1>1, <1>2, <1>4, <1>11, <1>13, <2>1, ConstantFacts DEF Rotated
  <2>2. CASE n # nil /\ n = p
    <3>1. t.child[e][n] # y
      BY <1>12, <2>2, ConstantFacts
    <3>2. CASE e = Side(t, p, x)
      BY <1>9, <1>11, <2>2, <3>2 DEF Rotated
    <3>3. CASE e # Side(t, p, x)
      <4>1. e = Other(Side(t, p, x))
        BY <3>3, Sides, SideIs
      <4>2. t.child[e][n] # x
        BY <1>9, <2>2, <4>1
      <4>. QED
        BY <1>11, <2>2, <3>1, <3>3, <4>2 DEF Rotated
    <3>. QED
      BY <3>2, <3>3
  <2>3. CASE n # nil /\ n # p
    BY <1>11, <1>12, <2>3, ConstantFacts DEF Rotated
  <2>. QED
    BY <2>1, <2>2, <2>3
<1>15. /\ u.child[d][x] = a /\ u.child[Other(d)][x] = b
       /\ u.child[d][y] = x /\ u.child[Other(d)][y] = c
  BY <1>1, <1>2, <1>3, <1>4, <1>9, <1>11, Sides DEF Rotated
<1>16. \/ t.root = x /\ u.root = y
       \/ t.root \notin {x, y} /\ u.root = t.root
  BY <1>1, <1>2, <1>9, <1>11, ConstantFacts DEF Rotated, Tree
<1>17. /\ u.parent[x] = y /\ u.parent[y] = t.parent[x]
       /\ \A n \in Node \ {x, y} : u.parent[n] = IF n = b /\ n # nil THEN x ELSE t.parent[n]
  BY <1>2, <1>4, <1>8, <1>11 DEF Rotated
<1>18. u \in TreeType /\ u.color = t.color
  BY <1>11 DEF Rotated
<1>. QED
  BY <1>1, <1>2, <1>3, <1>5, <1>6, <1>7, <1>10, <1>14, <1>15, <1>16, <1>17, <1>18 DEF Turned

\* The keys below x and y afterwards.
Turn(B, a, b, x, y) ==
    [n \in Node |-> IF n = x THEN {x} \cup B[a] \cup B[b]
                    ELSE IF n = y THEN B[x]
                    ELSE B[n]]

LEMMA TurnKeepsTree ==
    ASSUME NEW t, NEW B, Tree(t, B), NEW d \in Dir, NEW x, NEW y, NEW u,
           Turned(t, u, d, x, y)
    PROVE  /\ Tree(u, Turn(B, t.child[d][x], t.child[d][y], x, y))
           /\ Turn(B, t.child[d][x], t.child[d][y], x, y)[u.root] = B[t.root]
<1>1. /\ x \in Key /\ y \in Key /\ x # y /\ Other(d) \in Dir
      /\ t \in TreeType /\ u \in TreeType /\ x \in Node /\ y \in Node
      /\ y = t.child[Other(d)][x]
  BY Sides, ConstantFacts DEF Tree, Turned
<1>2. PICK a, b, c : a = t.child[d][x] /\ b = t.child[d][y] /\ c = t.child[Other(d)][y]
  OBVIOUS
<1>3. /\ a \in Node /\ b \in Node /\ c \in Node
      /\ a \notin {x, y} /\ b \notin {x, y} /\ c \notin {x, y}
  BY <1>1, <1>2, TreeFields DEF Turned
<1>4. PICK C : C = Turn(B, a, b, x, y)
  OBVIOUS
<1>5. /\ C \in [Node -> SUBSET Key]
      /\ C[x] = {x} \cup B[a] \cup B[b] /\ C[y] = B[x]
      /\ \A n \in Node \ {x, y} : C[n] = B[n]
  BY <1>1, <1>3, <1>4 DEF Turn, Tree
<1>6. /\ u.child[d][x] = a /\ u.child[Other(d)][x] = b
      /\ u.child[d][y] = x /\ u.child[Other(d)][y] = c
  BY <1>2 DEF Turned
<1>7. \A n \in Node \ {x, y} : \A e \in Dir : C[u.child[e][n]] = B[t.child[e][n]]
  BY <1>1, <1>5, TreeFields DEF Turned
<1>8. /\ B[x] = {x} \cup B[a] \cup B[y] /\ B[y] = {y} \cup B[b] \cup B[c]
  <2>1. \A m \in Key : m \in B[x] <=> m = x \/ m \in B[a] \/ m \in B[y]
    BY <1>1, <1>2, Sides DEF Tree
  <2>2. \A m \in Key : m \in B[y] <=> m = y \/ m \in B[b] \/ m \in B[c]
    BY <1>1, <1>2, Sides DEF Tree
  <2>3. \A n \in Node : B[n] \subseteq Key
    BY DEF Tree
  <2>. QED
    BY <1>1, <1>3, <2>1, <2>2, <2>3
<1>9. \A n, m \in Key : m \in C[n] <=> m = n \/ \E e \in Dir : m \in C[u.child[e][n]]
  <2>. TAKE n, m \in Key
  <2>1. CASE n = x
    BY <1>1, <1>3, <1>5, <1>6, <2>1, Sides
  <2>2. CASE n = y
    BY <1>1, <1>3, <1>5, <1>6, <1>8, <2>2, Sides
  <2>3. CASE n \notin {x, y}
    BY <1>5, <1>7, <2>3, ConstantFacts DEF Tree
  <2>. QED
    BY <2>1, <2>2, <2>3
<1>10. /\ \A m \in B[a] : Before(d, m, x)
       /\ \A m \in B[y] : Before(Other(d), m, x)
       /\ \A m \in B[b] : Before(d, m, y)
       /\ \A m \in B[c] : Before(Other(d), m, y)
  BY <1>1, <1>2 DEF Tree
<1>11. Before(d, x, y)
  BY <1>1, <1>8, <1>10, Order
<1>12. \A n \in Key : \A e \in Dir : \A m \in C[u.child[e][n]] : Before(e, m, n)
  <2>. TAKE n \in Key
  <2>. TAKE e \in Dir
  <2>1. CASE n = x
    <3>1. CASE e = d
      BY <1>3, <1>5, <1>6, <1>10, <2>1, <3>1
    <3>2. CASE e = Other(d)
      BY <1>3, <1>5, <1>6, <1>8, <1>10, <2>1, <3>2
    <3>. QED
      BY <3>1, <3>2, Sides
  <2>2. CASE n = y
    <3>1. CASE e = d
      <4>1. ASSUME NEW m \in B[a] PROVE Before(d, m, y)
        <5>1. m \in Key
          BY <1>3 DEF Tree
        <5>. QED
          BY <1>1, <1>10, <1>11, <5>1, Order
      <4>. QED
        BY <1>5, <1>6, <1>10, <1>11, <2>2, <3>1, <4>1
    <3>2. CASE e = Other(d)
      BY <1>3, <1>5, <1>6, <1>10, <2>2, <3>2
    <3>. QED
      BY <3>1, <3>2, Sides
  <2>3. CASE n \notin {x, y}
    BY <1>7, <2>3, ConstantFacts DEF Tree
  <2>. QED
    BY <2>1, <2>2, <2>3
<1>13. \A e \in Dir : u.child[e][nil] = nil
  <2>1. nil \in Node \ {x, y} /\ \A e \in Dir : t.child[e][nil] = nil
    BY <1>1, ConstantFacts DEF Tree
  <2>. QED
    BY <1>1, <2>1, ConstantFacts DEF Turned
<1>14. \A n \in Key : \A e \in Dir : u.child[e][n] # nil => u.parent[u.child[e][n]] = n
  <2>. SUFFICES ASSUME NEW n \in Key, NEW e \in Dir, u.child[e][n] # nil
                PROVE  u.parent[u.child[e][n]] = n
    OBVIOUS
  <2>0. /\ \A q \in Key : \A f \in Dir : t.child[f][q] # nil => t.parent[t.child[f][q]] = q
        /\ u.parent[x] = y /\ u.parent[y] = t.parent[x]
        /\ \A q \in Node \ {x, y} : u.parent[q] = IF q = b /\ q # nil THEN x ELSE t.parent[q]
    BY <1>2 DEF Tree, Turned
  <2>1. CASE n = x
    <3>1. a # b \/ a = nil
      BY <1>1, <1>2, <2>0
    <3>2. CASE e = d
      <4>1. u.child[e][n] = a /\ a # nil
        BY <1>6, <2>1, <3>2
      <4>2. t.parent[a] = x
        BY <1>1, <1>2, <2>0, <4>1
      <4>. QED
        BY <1>3, <2>0, <2>1, <3>1, <4>1, <4>2
    <3>3. CASE e = Other(d)
      <4>1. u.child[e][n] = b /\ b # nil
        BY <1>6, <2>1, <3>3
      <4>. QED
        BY <1>3, <2>0, <2>1, <4>1
    <3>. QED
      BY <3>2, <3>3, Sides
  <2>2. CASE n = y
    <3>1. c # b \/ c = nil
      BY <1>1, <1>2, Children, Sides
    <3>2. CASE e = d
      BY <1>6, <2>0, <2>2, <3>2
    <3>3. CASE e = Other(d)
      <4>1. u.child[e][n] = c /\ c # nil
        BY <1>6, <2>2, <3>3
      <4>2. t.parent[c] = y
        BY <1>1, <1>2, <2>0, <4>1
      <4>. QED
        BY <1>3, <2>0, <2>2, <3>1, <4>1, <4>2
    <3>. QED
      BY <3>2, <3>3, Sides
  <2>3. CASE n \notin {x, y}
    <3>1. n \in Node \ {x, y} /\ t.child[e][n] \in Node
      BY <1>1, <2>3, TreeFields, ConstantFacts
    <3>2. CASE u.child[e][n] = y /\ t.child[e][n] = x
      BY <1>1, <2>0, <3>2, ConstantFacts
    <3>3. CASE u.child[e][n] = t.child[e][n] /\ t.child[e][n] \notin {x, y}
      <4>1. t.child[e][n] # b
        BY <1>1, <1>2, <2>0, <2>3, <3>3
      <4>. QED
        BY <2>0, <3>1, <3>3, <4>1
    <3>. QED
      BY <3>1, <3>2, <3>3 DEF Turned
  <2>. QED
    BY <2>1, <2>2, <2>3
<1>15. u.root # nil => u.parent[u.root] = nil
  <2>1. CASE t.root = x /\ u.root = y
    BY <1>1, <2>1, ConstantFacts DEF Tree, Turned
  <2>2. CASE t.root \notin {x, y} /\ u.root = t.root
    <3>1. ASSUME t.root # nil PROVE t.root # b
      <4>1. t.root \in Key /\ t.parent[t.root] = nil
        BY <1>1, <3>1, TreeFields, ConstantFacts DEF Tree
      <4>. QED
        BY <1>1, <1>2, <3>1, <4>1, ConstantFacts DEF Tree
    <3>2. t.root \in Node /\ (t.root # nil => t.parent[t.root] = nil)
      BY <1>1, TreeFields DEF Tree
    <3>. QED
      BY <1>2, <2>2, <3>1, <3>2 DEF Turned
  <2>. QED
    BY <2>1, <2>2 DEF Turned
<1>16. C[u.root] = B[t.root]
  BY <1>1, <1>5, TreeFields DEF Turned
<1>17. \A n \in Key : n \notin C[u.root] => \A e \in Dir : u.child[e][n] = nil
  <2>. SUFFICES ASSUME NEW n \in Key, n \notin C[u.root], NEW e \in Dir
                PROVE  u.child[e][n] = nil
    OBVIOUS
  <2>1. t.child[e][n] = nil /\ \A f \in Dir : t.child[f][n] = nil
    BY <1>16 DEF Tree
  <2>2. n # x
    BY <1>1, <2>1, ConstantFacts
  <2>3. n # y
    <3>1. x \in B[t.root]
      BY <1>1, ConstantFacts DEF Tree
    <3>2. B[x] \subseteq B[t.root]
      <4>1. t.root \in Key
        BY <1>1, <3>1, TreeFields, ConstantFacts DEF Tree
      <4>. QED
        BY <3>1, <4>1, BelowBelow
    <3>. QED
      BY <1>8, <1>16, <3>2
  <2>. QED
    BY <1>1, <2>1, <2>2, <2>3, ConstantFacts DEF Turned
<1>18. C[nil] = {}
  BY <1>1, <1>5, ConstantFacts DEF Tree
<1>19. Tree(u, C)
  BY <1>1, <1>5, <1>9, <1>12, <1>13, <1>14, <1>15, <1>17, <1>18 DEF Tree
<1>. QED
  BY <1>2, <1>4, <1>16, <1>19
-----------------------------------------------------------------------------
(***************************************************************************)
(* Colours and black heights.                                              *)
(***************************************************************************)
\* The link on the side hd of hp counts one more black node.
Extra(n, e, hp, hd) == IF n = hp /\ e = hd THEN 1 ELSE 0
Black(t, n) == IF t.color[n] = "black" THEN 1 ELSE 0

Balanced(t, H, hp, hd, n) ==
    \A e \in Dir : H[n] = H[t.child[e][n]] + Extra(n, e, hp, hd) + Black(t, n)

\* H gives the number of black nodes on every way down from each node.
Heights(t, H, hp, hd) ==
    /\ H \in [Node -> Nat] /\ H[nil] = 0 /\ t.color[nil] = "black"
    /\ \A n \in Key : Balanced(t, H, hp, hd, n)

RedPair(t, n, e) == t.color[n] = "red" /\ t.color[t.child[e][n]] = "red"

\* Two trees that differ in colours only.
SameLinks(t, u) ==
    u \in TreeType /\ u.root = t.root /\ u.child = t.child /\ u.parent = t.parent

LEMMA ColorsKeepTree ==
    ASSUME NEW t, NEW u, NEW B, Tree(t, B), SameLinks(t, u)
    PROVE  Tree(u, B)
BY DEF Tree, SameLinks

LEMMA TwoColors ==
    ASSUME NEW t \in TreeType, NEW m \in Node, NEW n \in Node,
           NEW c \in {"red", "black"}, NEW k \in {"red", "black"},
           NEW u, u = SetColor(SetColor(t, m, c), n, k)
    PROVE  /\ SameLinks(t, u)
           /\ \A q \in Node : u.color[q] = IF q = n THEN k ELSE IF q = m THEN c ELSE t.color[q]
<1>1. PICK s : s = SetColor(t, m, c)
  OBVIOUS
<1>2. ColorSet(t, s, m, c)
  BY <1>1, SetColorIs
<1>3. ColorSet(s, u, n, k)
  <2>1. s \in TreeType
    BY <1>2 DEF ColorSet
  <2>. QED
    BY <1>1, <2>1, SetColorIs
<1>. QED
  BY <1>2, <1>3 DEF ColorSet, SameLinks

\* A node is balanced when its two sides are.
LEMMA BalancedIs ==
    ASSUME NEW t, NEW H, NEW hp, NEW hd, NEW n, NEW d \in Dir, NEW l, NEW r,
           l = t.child[d][n], r = t.child[Other(d)][n],
           H[n] = H[l] + Extra(n, d, hp, hd) + Black(t, n),
           H[n] = H[r] + Extra(n, Other(d), hp, hd) + Black(t, n)
    PROVE  Balanced(t, H, hp, hd, n)
<1>1. \A e \in Dir : e = d \/ e = Other(d)
  BY Sides
<1>. QED
  BY <1>1 DEF Balanced

LEMMA NoExtra ==
    ASSUME NEW n, NEW hp, n # hp
    PROVE  \A e, hd : Extra(n, e, hp, hd) = 0
BY DEF Extra

LEMMA BlackIs ==
    ASSUME NEW t, NEW n
    PROVE  /\ t.color[n] = "black" => Black(t, n) = 1
           /\ t.color[n] # "black" => Black(t, n) = 0
BY DEF Black

\* A rotation that leaves the height of the subtree as it is keeps every
\* other node balanced.
LEMMA TurnKeepsBalance ==
    ASSUME NEW t \in TreeType, NEW u, NEW d \in Dir, NEW x, NEW y, Turned(t, u, d, x, y),
           NEW H, NEW G, G[y] = H[x], \A n \in Node \ {x, y} : G[n] = H[n],
           NEW n \in Key \ {x, y}, NEW hp, NEW hd, Balanced(t, H, hp, hd, n)
    PROVE  Balanced(u, G, hp, hd, n)
<1>1. \A e \in Dir : t.child[e][n] \in Node
  BY TreeFields, ConstantFacts
<1>2. G[n] = H[n] /\ n \in Node /\ u.color = t.color
  BY ConstantFacts DEF Turned
<1>3. \A e \in Dir : G[u.child[e][n]] = H[t.child[e][n]]
  BY <1>1, <1>2 DEF Turned
<1>. QED
  BY <1>2, <1>3 DEF Balanced, Black

\* What the insert fixup keeps, with z its node.
Inserting(t, B, H, z) ==
    /\ Tree(t, B) /\ Heights(t, H, nil, "left")
    /\ z \in B[t.root] /\ t.color[z] = "red"
    /\ \A n \in Key : \A e \in Dir : RedPair(t, n, e) => t.child[e][n] = z
    /\ t.color[t.root] = "red" => z = t.root

\* z, its parent p and its grandparent g before the last rotation.
Outside(t, B, H, z, p, g, d) ==
    /\ Inserting(t, B, H, z)
    /\ d \in Dir /\ g \in B[t.root] /\ p \in Key
    /\ t.child[d][g] = p /\ t.child[d][p] = z
    /\ t.color[p] = "red" /\ t.color[g] = "black"
    /\ t.color[t.child[Other(d)][g]] = "black"
    /\ t.color[t.root] = "black"

LEMMA LastInsertRotation ==
    ASSUME NEW t, NEW B, NEW H, NEW z, NEW p, NEW g, NEW d, Outside(t, B, H, z, p, g, d),
           NEW u, u = rotate(SetColor(SetColor(t, p, "black"), g, "red"), Other(d), g)
    PROVE  /\ \E C, G : Inserting(u, C, G, z) /\ C[u.root] = B[t.root]
           /\ u.color[u.parent[z]] = "black"
<1>1. /\ Tree(t, B) /\ t \in TreeType /\ d \in Dir /\ Other(d) \in Dir
      /\ g \in Key /\ p \in Key /\ z \in Key
  <2>1. Tree(t, B) /\ d \in Dir /\ p \in Key /\ g \in B[t.root] /\ z \in B[t.root]
    BY DEF Outside, Inserting
  <2>2. g \in Key /\ z \in Key
    BY <2>1, ParentOf
  <2>. QED
    BY <2>1, <2>2, Sides DEF Tree
<1>2. p # g /\ z # p /\ z # g /\ t.parent[p] = g /\ t.parent[z] = p
  <2>1. p # nil /\ z # nil /\ t.child[d][g] = p /\ t.child[d][p] = z
    BY <1>1, ConstantFacts DEF Outside
  <2>2. t.parent[p] = g /\ t.parent[z] = p /\ p # g /\ z # p
    BY <1>1, <2>1, Children
  <2>3. g \notin B[p] /\ z \in B[p]
    BY <1>1, <2>1, Children
  <2>. QED
    BY <2>2, <2>3
<1>3. PICK s : s = SetColor(SetColor(t, p, "black"), g, "red")
  OBVIOUS
<1>4. /\ SameLinks(t, s)
      /\ \A q \in Node : s.color[q] = IF q = g THEN "red" ELSE IF q = p THEN "black" ELSE t.color[q]
  BY <1>1, <1>3, TwoColors, ConstantFacts
<1>5. Tree(s, B) /\ s \in TreeType
  BY <1>1, <1>4, ColorsKeepTree DEF SameLinks
<1>6. Turned(s, u, Other(d), g, p)
  <2>1. p = s.child[Other(Other(d))][g] /\ g \in B[s.root] /\ p # nil
    BY <1>1, <1>4, Sides, ConstantFacts DEF Outside, SameLinks
  <2>. QED
    BY <1>1, <1>3, <1>5, <2>1, RotateTurns
<1>7. PICK b : b = t.child[Other(d)][p]
  OBVIOUS
<1>8. PICK C : Tree(u, C) /\ C[u.root] = B[t.root]
  BY <1>1, <1>4, <1>5, <1>6, TurnKeepsTree DEF SameLinks
<1>9. PICK G : G = [H EXCEPT ![g] = H[p], ![p] = H[g]]
  OBVIOUS
<1>10. /\ H \in [Node -> Nat] /\ G \in [Node -> Nat]
       /\ G[p] = H[g] /\ G[g] = H[p] /\ \A n \in Node \ {g, p} : G[n] = H[n]
  BY <1>1, <1>2, <1>9, ConstantFacts DEF Outside, Inserting, Heights
<1>11. /\ u.child[Other(d)][g] = t.child[Other(d)][g] /\ u.child[d][g] = b
       /\ u.child[Other(d)][p] = g /\ u.child[d][p] = z
       /\ b \notin {g, p} /\ t.child[Other(d)][g] \notin {g, p} /\ b \in Node
       /\ t.child[Other(d)][g] \in Node
       /\ u.color = s.color
  BY <1>1, <1>4, <1>6, <1>7, Sides, TreeFields, ConstantFacts DEF Turned, SameLinks, Outside
<1>12. Heights(u, G, nil, "left")
  <2>1. \A n \in Key : Balanced(t, H, nil, "left", n)
    BY DEF Outside, Inserting, Heights
  <2>2. \A n \in Key \ {g, p} : Balanced(s, H, nil, "left", n)
    BY <1>4, <2>1, ConstantFacts DEF Balanced, Black, SameLinks
  <2>3. ASSUME NEW n \in Key \ {g, p} PROVE Balanced(u, G, nil, "left", n)
    BY <1>1, <1>5, <1>6, <1>10, <2>2, TurnKeepsBalance
  <2>4. /\ H[g] = H[p] + 1 /\ H[g] = H[t.child[Other(d)][g]] + 1
        /\ H[p] = H[z] /\ H[p] = H[b]
    BY <1>1, <1>7, <1>10, <1>11, <2>1, ConstantFacts DEF Balanced, Black, Extra, Outside
  <2>5. /\ u.color[p] = "black" /\ u.color[g] = "red"
    BY <1>1, <1>2, <1>4, <1>11, ConstantFacts
  <2>9. /\ G[g] = H[p] /\ G[b] = H[p] /\ G[z] = H[p] /\ G[t.child[Other(d)][g]] = H[p]
        /\ G[p] = H[p] + 1 /\ H[p] \in Nat
    <3>1. H[p] \in Nat /\ H[g] \in Nat /\ H[t.child[Other(d)][g]] \in Nat
      BY <1>1, <1>10, <1>11, ConstantFacts
    <3>2. H[t.child[Other(d)][g]] = H[p]
      BY <2>4, <3>1
    <3>3. {z, b, t.child[Other(d)][g]} \subseteq Node \ {g, p}
      BY <1>1, <1>2, <1>11, ConstantFacts
    <3>4. G[b] = H[b] /\ G[z] = H[z] /\ G[t.child[Other(d)][g]] = H[t.child[Other(d)][g]]
      BY <1>10, <3>3
    <3>. QED
      BY <1>10, <2>4, <3>1, <3>2, <3>4
  <2>6. Balanced(u, G, nil, "left", g)
    <3>1. Black(u, g) = 0 /\ \A e \in Dir : Extra(g, e, nil, "left") = 0
      BY <1>1, <2>5, BlackIs, NoExtra, ConstantFacts
    <3>2. G[g] = G[b] + 0 + 0 /\ G[g] = G[t.child[Other(d)][g]] + 0 + 0
      BY <2>9
    <3>. QED
      BY <1>1, <1>11, <3>1, <3>2, BalancedIs
  <2>7. Balanced(u, G, nil, "left", p)
    <3>1. Black(u, p) = 1 /\ \A e \in Dir : Extra(p, e, nil, "left") = 0
      BY <1>1, <2>5, BlackIs, NoExtra, ConstantFacts
    <3>2. G[p] = G[z] + 0 + 1 /\ G[p] = G[g] + 0 + 1
      BY <2>9
    <3>. QED
      BY <1>1, <1>11, <3>1, <3>2, BalancedIs
  <2>8. G[nil] = 0 /\ u.color[nil] = "black"
    <3>1. H[nil] = 0 /\ t.color[nil] = "black"
      BY DEF Outside, Inserting, Heights
    <3>2. nil \in Node \ {g, p}
      BY <1>1, ConstantFacts
    <3>. QED
      BY <1>4, <1>10, <1>11, <3>1, <3>2
  <2>. QED
    BY <1>10, <2>3, <2>6, <2>7, <2>8 DEF Heights
<1>13. \A n \in Key : \A e \in Dir : ~ RedPair(u, n, e)
  <2>. SUFFICES ASSUME NEW n \in Key, NEW e \in Dir, RedPair(u, n, e)
                PROVE  FALSE
    OBVIOUS
  <2>0. \A q \in Key : \A f \in Dir : RedPair(t, q, f) => t.child[f][q] = z
    BY DEF Outside, Inserting
  <2>1. CASE n = p
    BY <1>1, <1>2, <1>4, <1>11, <2>1, ConstantFacts DEF RedPair
  <2>2. CASE n = g
    <3>1. t.color[b] = "black"
      <4>1. b # z \/ b = nil
        BY <1>1, <1>7, Children, Sides DEF Outside
      <4>2. t.color[b] # "red"
        BY <1>1, <1>7, <2>0, <4>1, ConstantFacts DEF Outside, RedPair, Inserting
      <4>. QED
        BY <1>1, <1>11, <4>2, TreeFields
    <3>2. u.color[b] = "black" /\ u.color[t.child[Other(d)][g]] = "black"
      BY <1>4, <1>11, <3>1 DEF Outside
    <3>. QED
      BY <1>1, <1>11, <2>2, <3>2, Sides DEF RedPair
  <2>3. CASE n \notin {g, p}
    <3>1. n \in Node \ {g, p} /\ t.child[e][n] \in Node
      BY <1>1, <2>3, TreeFields, ConstantFacts
    <3>2. \/ u.child[e][n] = t.child[e][n] /\ t.child[e][n] \notin {g, p}
          \/ u.child[e][n] = p
      BY <1>4, <1>6, <3>1 DEF Turned, SameLinks
    <3>3. CASE u.child[e][n] = p
      BY <1>1, <1>2, <1>4, <1>11, <3>3, ConstantFacts DEF RedPair
    <3>4. CASE u.child[e][n] = t.child[e][n] /\ t.child[e][n] \notin {g, p}
      <4>1. RedPair(t, n, e)
        BY <1>4, <1>11, <3>1, <3>4 DEF RedPair
      <4>2. t.child[e][n] = z
        BY <2>0, <4>1
      <4>3. n = p
        BY <1>1, <1>2, <4>2, ConstantFacts DEF Tree
      <4>. QED
        BY <2>3, <4>3
    <3>. QED
      BY <3>2, <3>3, <3>4
  <2>. QED
    BY <2>1, <2>2, <2>3
<1>14. u.color[u.root] = "black"
  <2>1. CASE u.root = p
    BY <1>1, <1>2, <1>4, <1>11, <2>1, ConstantFacts
  <2>2. CASE t.root \notin {g, p} /\ u.root = t.root
    BY <1>1, <1>4, <1>11, <2>2, TreeFields DEF Outside
  <2>. QED
    BY <1>4, <1>6, <2>1, <2>2 DEF Turned, SameLinks
<1>15. u.color[z] = "red"
  BY <1>1, <1>2, <1>4, <1>11, ConstantFacts DEF Outside, Inserting
<1>16. z \in C[u.root]
  BY <1>8 DEF Outside, Inserting
<1>17. Inserting(u, C, G, z)
  BY <1>8, <1>12, <1>13, <1>14, <1>15, <1>16 DEF Inserting
<1>18. u.color[u.parent[z]] = "black"
  <2>1. z # nil /\ u.child[d][p] = z
    BY <1>1, <1>11, ConstantFacts
  <2>2. u.parent[z] = p
    BY <1>1, <1>8, <2>1, Children
  <2>. QED
    BY <1>1, <1>2, <1>4, <1>11, <2>2, ConstantFacts
<1>. QED
  BY <1>8, <1>17, <1>18

\* z, its red parent p and its grandparent g, which has p on the side d.
Family(t, B, H, z, p, g, d) ==
    /\ Inserting(t, B, H, z) /\ z # t.root
    /\ d \in Dir /\ p \in B[t.root] /\ g \in B[t.root]
    /\ t.parent[z] = p /\ t.parent[p] = g /\ t.child[d][g] = p
    /\ \E e \in Dir : t.child[e][p] = z
    /\ t.color[p] = "red" /\ t.color[g] = "black" /\ t.color[t.root] = "black"

\* The red uncle and the parent become black, the grandparent red.
LEMMA RecolorKeeps ==
    ASSUME NEW t, NEW B, NEW H, NEW z, NEW p, NEW g, NEW d, Family(t, B, H, z, p, g, d),
           NEW y, t.child[Other(d)][g] = y, t.color[y] = "red",
           NEW u, u = Recolored(t, p, y, g)
    PROVE  SameLinks(t, u) /\ \E G : Inserting(u, B, G, g)
<1>1. /\ Tree(t, B) /\ t \in TreeType /\ d \in Dir /\ Other(d) \in Dir
      /\ g \in Key /\ p \in Key /\ z \in Key /\ t.root \in Key
  BY Sides, ParentOf DEF Family, Inserting, Tree
<1>0. /\ t.parent[z] = p /\ t.parent[p] = g /\ t.child[d][g] = p /\ t.child[Other(d)][g] = y
      /\ t.color[p] = "red" /\ t.color[g] = "black" /\ t.color[y] = "red"
      /\ H \in [Node -> Nat] /\ H[nil] = 0 /\ t.color[nil] = "black"
  BY DEF Family, Inserting, Heights
<1>2. y \in Key /\ y # g /\ y # p /\ p # g /\ t.parent[y] = g
  <2>1. y # nil
    BY <1>0
  <2>2. y \in Key /\ y # g /\ t.parent[y] = g
    BY <1>0, <1>1, <2>1, Children
  <2>3. p # g /\ p # y
    BY <1>0, <1>1, Children, ConstantFacts
  <2>. QED
    BY <2>2, <2>3
<1>3. PICK s : s = SetColor(SetColor(t, p, "black"), y, "black")
  OBVIOUS
<1>4. /\ SameLinks(t, s)
      /\ \A q \in Node : s.color[q] = IF q \in {p, y} THEN "black" ELSE t.color[q]
  <2>1. p \in Node /\ y \in Node
    BY <1>1, <1>2, ConstantFacts
  <2>. QED
    BY <1>1, <1>3, <2>1, TwoColors
<1>5. ColorSet(s, u, g, "red")
  <2>1. s \in TreeType /\ u = SetColor(s, g, "red") /\ g \in Node
    BY <1>1, <1>3, <1>4, ConstantFacts DEF SameLinks, Recolored
  <2>. QED
    BY <2>1, SetColorIs
<1>6. /\ SameLinks(t, u)
      /\ \A q \in Node : u.color[q] = IF q = g THEN "red"
                                      ELSE IF q \in {p, y} THEN "black" ELSE t.color[q]
  BY <1>4, <1>5 DEF SameLinks, ColorSet
<1>7. Tree(u, B)
  BY <1>1, <1>6, ColorsKeepTree
<1>8. PICK G : G = [H EXCEPT ![p] = H[p] + 1, ![y] = H[y] + 1]
  OBVIOUS
<1>9. /\ H \in [Node -> Nat] /\ G \in [Node -> Nat]
      /\ G[p] = H[p] + 1 /\ G[y] = H[y] + 1 /\ \A n \in Node \ {p, y} : G[n] = H[n]
  <2>1. p \in Node /\ y \in Node /\ p # y /\ H \in [Node -> Nat]
    BY <1>0, <1>1, <1>2, ConstantFacts
  <2>2. H[p] + 1 \in Nat /\ H[y] + 1 \in Nat
    BY <2>1
  <2>. QED
    BY <1>8, <2>1, <2>2
<1>10. \A n \in Key : Balanced(t, H, nil, "left", n)
  BY DEF Family, Inserting, Heights
<1>11. \A n \in Key : \A e \in Dir : t.child[e][n] \in {p, y} => n = g
  BY <1>0, <1>1, <1>2, ConstantFacts DEF Tree
<1>12. Heights(u, G, nil, "left")
  <2>1. ASSUME NEW n \in Key \ {g}
        PROVE  Balanced(u, G, nil, "left", n)
    <3>1. \A e \in Dir : t.child[e][n] \in Node \ {p, y} /\ u.child[e][n] = t.child[e][n]
      BY <1>1, <1>6, <1>11, TreeFields, ConstantFacts DEF SameLinks
    <3>0. \A e \in Dir : Extra(n, e, nil, "left") = 0
      BY NoExtra, ConstantFacts
    <3>2. \A e \in Dir : G[u.child[e][n]] = H[t.child[e][n]] /\ Extra(n, e, nil, "left") = 0
                         /\ H[t.child[e][n]] \in Nat
      BY <1>9, <3>0, <3>1
    <3>3. \A e \in Dir : H[n] = H[t.child[e][n]] + 0 + Black(t, n)
      BY <1>10, <3>2 DEF Balanced
    <3>4. G[n] - H[n] = Black(u, n) - Black(t, n) /\ G[n] \in Nat /\ H[n] \in Nat
      <4>1. CASE n \in {p, y}
        <5>1. t.color[n] = "red" /\ u.color[n] = "black"
          BY <1>0, <1>6, <4>1, ConstantFacts
        <5>. QED
          BY <1>9, <4>1, <5>1, BlackIs, ConstantFacts
      <4>2. CASE n \notin {p, y}
        <5>1. t.color[n] = u.color[n]
          BY <1>6, <4>2, ConstantFacts
        <5>. QED
          BY <1>9, <4>2, <5>1, ConstantFacts DEF Black
      <4>. QED
        BY <4>1, <4>2
    <3>5. Black(u, n) \in Int /\ Black(t, n) \in Int
      BY DEF Black
    <3>. QED
      BY <3>2, <3>3, <3>4, <3>5 DEF Balanced
  <2>2. Balanced(u, G, nil, "left", g)
    <3>1. Black(u, g) = 0 /\ Black(t, g) = 1 /\ \A e \in Dir : Extra(g, e, nil, "left") = 0
      BY <1>0, <1>1, <1>6, BlackIs, NoExtra, ConstantFacts
    <3>2. H[g] = H[p] + 0 + 1 /\ H[g] = H[y] + 0 + 1
      BY <1>0, <1>1, <1>10, <3>1 DEF Balanced
    <3>3. G[g] = G[p] + 0 + 0 /\ G[g] = G[y] + 0 + 0
      <4>1. G[g] = H[g] /\ H[p] \in Nat /\ H[y] \in Nat
        BY <1>1, <1>2, <1>9, ConstantFacts
      <4>. QED
        BY <1>9, <3>2, <4>1
    <3>4. p = u.child[d][g] /\ y = u.child[Other(d)][g]
      BY <1>0, <1>6 DEF SameLinks
    <3>. QED
      BY <1>1, <3>1, <3>3, <3>4, BalancedIs
  <2>3. G[nil] = 0 /\ u.color[nil] = "black"
    BY <1>0, <1>1, <1>2, <1>6, <1>9, ConstantFacts
  <2>. QED
    BY <1>9, <2>1, <2>2, <2>3 DEF Heights
<1>13. \A n \in Key : \A e \in Dir : RedPair(u, n, e) => u.child[e][n] = g
  <2>. SUFFICES ASSUME NEW n \in Key, NEW e \in Dir, RedPair(u, n, e), u.child[e][n] # g
                PROVE  FALSE
    OBVIOUS
  <2>1. t.child[e][n] \in Node /\ u.child[e][n] = t.child[e][n]
    BY <1>1, <1>6, TreeFields, ConstantFacts DEF SameLinks
  <2>2. t.child[e][n] \notin {p, y} /\ n \notin {p, y}
    BY <1>2, <1>6, <2>1, ConstantFacts DEF RedPair
  <2>3. n # g
    BY <1>0, <1>1, <2>2, Sides
  <2>4. RedPair(t, n, e)
    BY <1>6, <2>1, <2>2, <2>3, ConstantFacts DEF RedPair
  <2>5. t.child[e][n] = z
    BY <2>4 DEF Family, Inserting
  <2>6. n = p
    BY <1>0, <1>1, <2>5, ConstantFacts DEF Tree
  <2>. QED
    BY <2>2, <2>6
<1>14. u.color[g] = "red" /\ g \in B[u.root] /\ u.root = t.root
  BY <1>1, <1>6, ConstantFacts DEF SameLinks, Family
<1>15. u.color[u.root] = "red" => g = u.root
  <2>1. t.color[t.root] = "black" /\ t.root \in Node
    BY <1>1, ConstantFacts DEF Family
  <2>2. u.color[t.root] = IF t.root = g THEN "red"
                          ELSE IF t.root \in {p, y} THEN "black" ELSE t.color[t.root]
    BY <1>6, <2>1
  <2>. QED
    BY <1>14, <2>1, <2>2
<1>16. Inserting(u, B, G, g)
  BY <1>7, <1>12, <1>13, <1>14, <1>15 DEF Inserting
<1>. QED
  BY <1>6, <1>16

\* z is turned to the outer side of its parent: they exchange their roles.
LEMMA InnerRotation ==
    ASSUME NEW t, NEW B, NEW H, NEW z, NEW p, NEW g, NEW d, Family(t, B, H, z, p, g, d),
           Inner(t, z, d), t.color[t.child[Other(d)][g]] = "black",
           NEW u, u = rotate(t, d, p)
    PROVE  /\ u.parent[p] = z /\ u.parent[z] = g
           /\ \E C : Outside(u, C, H, p, z, g, d) /\ C[u.root] = B[t.root]
<1>1. /\ Tree(t, B) /\ t \in TreeType /\ d \in Dir /\ Other(d) \in Dir
      /\ g \in Key /\ p \in Key /\ z \in Key /\ t.root \in Key /\ z # nil
  <2>1. Tree(t, B) /\ d \in Dir /\ {g, p, z} \subseteq B[t.root]
    BY DEF Family, Inserting
  <2>2. g \in Key /\ p \in Key /\ z \in Key /\ t.root \in Key
    BY <2>1, ParentOf
  <2>. QED
    BY <2>1, <2>2, Sides, ConstantFacts DEF Tree
<1>0. /\ t.parent[z] = p /\ t.parent[p] = g /\ t.child[d][g] = p /\ t.child[Other(d)][p] = z
      /\ t.color[p] = "red" /\ t.color[g] = "black" /\ t.color[z] = "red"
      /\ t.color[nil] = "black" /\ t.color[t.root] = "black"
      /\ H \in [Node -> Nat] /\ H[nil] = 0
  BY DEF Family, Inserting, Heights, Inner
<1>2. z # p /\ p # g /\ z # g
  BY <1>0, <1>1, Children, ConstantFacts
<1>3. Turned(t, u, d, p, z)
  BY <1>0, <1>1, RotateTurns DEF Family
<1>4. PICK C : Tree(u, C) /\ C[u.root] = B[t.root]
  BY <1>1, <1>3, TurnKeepsTree
<1>5. /\ u.child[d][g] = z /\ u.child[Other(d)][g] = t.child[Other(d)][g]
  <2>1. g \in Node \ {p, z} /\ t.child[Other(d)][g] # p
    BY <1>0, <1>1, <1>2, Children, ConstantFacts
  <2>. QED
    BY <1>0, <1>1, <1>2, <1>3, <2>1 DEF Turned
<1>6. /\ u.child[d][z] = p /\ u.color = t.color /\ u.parent[p] = z /\ u.parent[z] = g
      /\ u.child[Other(d)][z] = t.child[Other(d)][z]
      /\ u.child[d][p] = t.child[d][p] /\ u.child[Other(d)][p] = t.child[d][z]
  BY <1>0, <1>3 DEF Turned
<1>7. \A n \in Key : Balanced(t, H, nil, "left", n)
  BY DEF Family, Inserting, Heights
<1>8. PICK a, b, c : a = t.child[d][p] /\ b = t.child[d][z] /\ c = t.child[Other(d)][z]
  OBVIOUS
<1>9. a \in Node /\ b \in Node /\ c \in Node
  BY <1>1, <1>8, TreeFields, ConstantFacts
<1>10. /\ \A e \in Dir : Extra(p, e, nil, "left") = 0 /\ Extra(z, e, nil, "left") = 0
       /\ Black(t, p) = 0 /\ Black(t, z) = 0 /\ Black(u, p) = 0 /\ Black(u, z) = 0
  BY <1>0, <1>1, <1>6, NoExtra, BlackIs, ConstantFacts
<1>11. /\ H[p] = H[a] + 0 + 0 /\ H[p] = H[z] + 0 + 0
       /\ H[z] = H[b] + 0 + 0 /\ H[z] = H[c] + 0 + 0
       /\ H[p] \in Nat /\ H[z] \in Nat /\ H[a] \in Nat /\ H[b] \in Nat /\ H[c] \in Nat
  <2>1. Balanced(t, H, nil, "left", p) /\ Balanced(t, H, nil, "left", z)
    BY <1>1, <1>7
  <2>. QED
    BY <1>0, <1>1, <1>8, <1>9, <1>10, <2>1, ConstantFacts DEF Balanced
<1>12. Heights(u, H, nil, "left")
  <2>1. H[p] = H[z] /\ H[b] = H[p] /\ H[c] = H[p] /\ H[a] = H[p]
    BY <1>11
  <2>2. ASSUME NEW n \in Key \ {p, z} PROVE Balanced(u, H, nil, "left", n)
    BY <1>1, <1>3, <1>7, <2>1, TurnKeepsBalance
  <2>3. Balanced(u, H, nil, "left", p)
    <3>1. H[p] = H[a] + 0 + 0 /\ H[p] = H[b] + 0 + 0
      BY <1>11
    <3>. QED
      BY <1>1, <1>6, <1>8, <1>10, <3>1, BalancedIs
  <2>4. Balanced(u, H, nil, "left", z)
    <3>1. H[z] = H[p] + 0 + 0 /\ H[z] = H[c] + 0 + 0
      BY <1>11
    <3>. QED
      BY <1>1, <1>6, <1>8, <1>10, <3>1, BalancedIs
  <2>. QED
    BY <1>0, <1>6, <2>2, <2>3, <2>4 DEF Heights
<1>13. \A n \in Key : \A e \in Dir : RedPair(u, n, e) => u.child[e][n] = p
  <2>. SUFFICES ASSUME NEW n \in Key, NEW e \in Dir, RedPair(u, n, e), u.child[e][n] # p
                PROVE  FALSE
    OBVIOUS
  <2>0. /\ \A q \in Key : \A f \in Dir : RedPair(t, q, f) => t.child[f][q] = z
        /\ \A q \in Key : \A f \in Dir : t.child[f][q] = z => q = p /\ f = Other(d)
    <3>1. \A q \in Key : \A f \in Dir : t.child[f][q] = z => q = p
      BY <1>0, <1>1, ConstantFacts DEF Tree
    <3>2. t.child[d][p] # z
      BY <1>0, <1>1, Children, Sides
    <3>3. \A q \in Key : \A f \in Dir : RedPair(t, q, f) => t.child[f][q] = z
      BY DEF Family, Inserting
    <3>. QED
      BY <1>1, <3>1, <3>2, <3>3, Sides
  <2>1. t.color[b] # "red" /\ t.color[c] # "red" /\ t.color[a] # "red"
    <3>1. /\ ~ RedPair(t, z, d) /\ ~ RedPair(t, z, Other(d)) /\ ~ RedPair(t, p, d)
      BY <1>1, <1>2, <2>0, Sides
    <3>. QED
      BY <1>0, <1>8, <3>1 DEF RedPair
  <2>2. n # p
    BY <1>1, <1>6, <1>8, <2>1, Sides DEF RedPair
  <2>3. n # z
    BY <1>1, <1>6, <1>8, <2>1, Sides DEF RedPair
  <2>4. \/ u.child[e][n] = t.child[e][n]
        \/ u.child[e][n] = z /\ t.child[e][n] = p
    BY <1>3, <2>2, <2>3, ConstantFacts DEF Turned
  <2>5. RedPair(t, n, e)
    BY <1>0, <1>6, <2>4 DEF RedPair
  <2>. QED
    BY <2>0, <2>2, <2>5
<1>14. u.color[u.root] = "black" /\ g \in C[u.root] /\ p \in C[u.root]
  <2>2. u.root = t.root
    BY <1>0, <1>3 DEF Turned
  <2>. QED
    BY <1>0, <1>4, <1>6, <2>2 DEF Family
<1>15. Inserting(u, C, H, p)
  BY <1>0, <1>4, <1>6, <1>12, <1>13, <1>14 DEF Inserting
<1>16. Outside(u, C, H, p, z, g, d)
  BY <1>0, <1>1, <1>5, <1>6, <1>14, <1>15 DEF Outside
<1>. QED
  BY <1>4, <1>6, <1>16

\* Above a red parent there is a black grandparent.
LEMMA InsertFamily ==
    ASSUME NEW t, NEW B, NEW H, NEW z, Inserting(t, B, H, z), t.color[t.parent[z]] = "red"
    PROVE  \E p, g, d : /\ Family(t, B, H, z, p, g, d)
                        /\ p = t.parent[z] /\ g = t.parent[p] /\ d = Side(t, g, p)
<1>1. Tree(t, B) /\ t \in TreeType /\ t.color[nil] = "black" /\ t.root \in Key /\ z \in Key
  BY ParentOf DEF Inserting, Tree, Heights
<1>2. z # t.root
  BY <1>1, ParentOf DEF Inserting
<1>3. PICK p : p = t.parent[z]
  OBVIOUS
<1>4. p \in B[t.root] /\ p \in Key /\ t.color[p] = "red"
  BY <1>1, <1>2, <1>3, ParentOf DEF Inserting
<1>5. PICK f \in Dir : t.child[f][p] = z
  BY <1>1, <1>2, <1>3, ParentOf DEF Inserting
<1>6. t.color[t.root] = "black"
  BY <1>1, <1>2, TreeFields DEF Inserting
<1>7. p # t.root
  BY <1>4, <1>6
<1>8. PICK g : g = t.parent[p]
  OBVIOUS
<1>9. g \in B[t.root] /\ g \in Key
  BY <1>1, <1>4, <1>7, <1>8, ParentOf
<1>10. \E e \in Dir : t.child[e][g] = p
  BY <1>1, <1>4, <1>7, <1>8, ParentOf
<1>11. PICK d : d = Side(t, g, p)
  OBVIOUS
<1>12. d \in Dir /\ t.child[d][g] = p
  BY <1>10, <1>11, Sides DEF Side
<1>13. p # z
  BY <1>1, <1>4, <1>5, Children
<1>14. t.color[g] = "black"
  <2>1. \A n \in Key : \A e \in Dir : RedPair(t, n, e) => t.child[e][n] = z
    BY DEF Inserting
  <2>2. t.color[g] # "red"
    BY <1>4, <1>9, <1>12, <1>13, <2>1 DEF RedPair
  <2>. QED
    BY <1>1, <1>9, <2>2, TreeFields, ConstantFacts
<1>15. Family(t, B, H, z, p, g, d)
  BY <1>2, <1>3, <1>4, <1>5, <1>6, <1>8, <1>9, <1>12, <1>14 DEF Family
<1>. QED
  BY <1>3, <1>8, <1>11, <1>15

\* A turn that rotates is the last one; the others go two nodes up.
InsertTurnClimbs(t, z) ==
    LET r == InsertTurn(t, z)
    IN  r.t.color[r.t.parent[r.z]] = "red"
            => SameLinks(t, r.t) /\ r.z = t.parent[t.parent[z]]

LEMMA InsertTurnKeeps ==
    ASSUME NEW t, NEW B, NEW H, NEW z, Inserting(t, B, H, z), t.color[t.parent[z]] = "red"
    PROVE  /\ \E C, G : /\ Inserting(InsertTurn(t, z).t, C, G, InsertTurn(t, z).z)
                        /\ C[InsertTurn(t, z).t.root] = B[t.root]
           /\ InsertTurnClimbs(t, z)
<1>1. PICK p, g, d : /\ Family(t, B, H, z, p, g, d)
                     /\ p = t.parent[z] /\ g = t.parent[p] /\ d = Side(t, g, p)
  BY InsertFamily
<1>8. Family(t, B, H, z, p, g, d)
  BY <1>1
<1>2. d \in Dir /\ Other(d) \in Dir /\ p \in Key /\ g \in Key /\ t \in TreeType
  BY <1>8, ParentOf, Sides DEF Family, Inserting, Tree
<1>4. PICK y : y = t.child[Other(d)][g]
  OBVIOUS
<1>3. t.color[y] # "red" => t.color[y] = "black"
  BY <1>2, <1>4, TreeFields, ConstantFacts
<1>5. CASE t.color[y] = "red"
  <2>1. InsertTurn(t, z) = [t |-> Recolored(t, p, y, g), z |-> g]
    BY <1>1, <1>4, <1>5 DEF InsertTurn
  <2>2. InsertTurn(t, z).t = Recolored(t, p, y, g) /\ InsertTurn(t, z).z = g
    BY <2>1
  <2>3. SameLinks(t, InsertTurn(t, z).t) /\ \E G : Inserting(InsertTurn(t, z).t, B, G, g)
    BY <1>4, <1>5, <1>8, <2>2, RecolorKeeps
  <2>4. InsertTurnClimbs(t, z)
    BY <1>1, <2>2, <2>3 DEF InsertTurnClimbs
  <2>. QED
    BY <2>2, <2>3, <2>4 DEF SameLinks
<1>6. CASE t.color[y] # "red" /\ Inner(t, z, d)
  <2>1. PICK t1 : t1 = rotate(t, d, p)
    OBVIOUS
  <2>4. /\ t1.parent[p] = z /\ t1.parent[z] = g
        /\ \E C : Outside(t1, C, H, p, z, g, d) /\ C[t1.root] = B[t.root]
    BY <1>3, <1>4, <1>6, <1>8, <2>1, InnerRotation
  <2>5. PICK C : Outside(t1, C, H, p, z, g, d) /\ C[t1.root] = B[t.root]
    BY <2>4
  <2>6. PICK u : u = rotate(SetColor(SetColor(t1, z, "black"), g, "red"), Other(d), g)
    OBVIOUS
  <2>7. InsertTurn(t, z) = [t |-> u, z |-> p]
    BY <1>1, <1>4, <1>6, <2>1, <2>4, <2>6 DEF InsertTurn
  <2>8. InsertTurn(t, z).t = u /\ InsertTurn(t, z).z = p
    BY <2>7
  <2>9. /\ \E E, G : Inserting(u, E, G, p) /\ E[u.root] = C[t1.root]
        /\ u.color[u.parent[p]] = "black"
    BY <2>5, <2>6, LastInsertRotation
  <2>10. InsertTurnClimbs(t, z)
    BY <2>8, <2>9 DEF InsertTurnClimbs
  <2>. QED
    BY <2>5, <2>8, <2>9, <2>10
<1>7. CASE t.color[y] # "red" /\ ~ Inner(t, z, d)
  <2>1. t.child[d][p] = z
    BY <1>2, <1>7, <1>8, Sides DEF Inner, Family
  <2>3. Outside(t, B, H, z, p, g, d)
    BY <1>2, <1>3, <1>4, <1>7, <1>8, <2>1 DEF Outside, Family
  <2>4. PICK u : u = rotate(SetColor(SetColor(t, p, "black"), g, "red"), Other(d), g)
    OBVIOUS
  <2>5. InsertTurn(t, z) = [t |-> u, z |-> z]
    BY <1>1, <1>4, <1>7, <2>4 DEF InsertTurn
  <2>6. InsertTurn(t, z).t = u /\ InsertTurn(t, z).z = z
    BY <2>5
  <2>7. /\ \E E, G : Inserting(u, E, G, z) /\ E[u.root] = B[t.root]
        /\ u.color[u.parent[z]] = "black"
    BY <2>3, <2>4, LastInsertRotation
  <2>8. InsertTurnClimbs(t, z)
    BY <2>6, <2>7 DEF InsertTurnClimbs
  <2>. QED
    BY <2>6, <2>7, <2>8
<1>. QED
  BY <1>5, <1>6, <1>7
-----------------------------------------------------------------------------
(***************************************************************************)
(* The delete fixup at x, the child of p on the side d; w is its sibling.  *)
(***************************************************************************)
Deleting(t, B, H, x, p, w, d) ==
    /\ Tree(t, B) /\ Heights(t, H, p, d)
    /\ \A n \in Key : \A e \in Dir : ~ RedPair(t, n, e)
    /\ t.color[t.root] = "black" /\ t.color[x] = "black"
    /\ d \in Dir /\ p \in B[t.root] /\ t.parent[x] = p
    /\ t.child[d][p] = x /\ t.child[Other(d)][p] = w

\* The end of the loop: there is nothing to set right any more.
Resolved(t, B, H) ==
    /\ Tree(t, B) /\ Heights(t, H, nil, "left")
    /\ \A n \in Key : \A e \in Dir : ~ RedPair(t, n, e)
    /\ t.color[t.root] = "black"

\* The sibling is a node, since the way through it is one black node longer.
LEMMA SiblingIs ==
    ASSUME NEW t, NEW B, NEW H, NEW x, NEW p, NEW w, NEW d, Deleting(t, B, H, x, p, w, d)
    PROVE  /\ Tree(t, B) /\ t \in TreeType /\ d \in Dir /\ Other(d) \in Dir
           /\ p \in Key /\ w \in Key /\ x \in Node /\ p # w /\ x # w /\ x # p
           /\ w \in B[t.root] /\ p \in B[t.root] /\ p \notin B[w] /\ t.root \in Key
           /\ t.parent[w] = p /\ t.parent[x] = p
           /\ t.child[d][p] = x /\ t.child[Other(d)][p] = w
           /\ H \in [Node -> Nat] /\ H[nil] = 0 /\ t.color[nil] = "black"
           /\ H[x] \in Nat /\ H[w] = H[x] + 1 /\ H[p] = H[w] + Black(t, p)
           /\ Side(t, p, x) = d
<1>1. Tree(t, B) /\ t \in TreeType /\ d \in Dir /\ Other(d) \in Dir /\ d # Other(d)
  BY Sides DEF Deleting, Tree
<1>2. p \in Key /\ t.root \in Key
  BY <1>1, ParentOf DEF Deleting
<1>3. t.parent[x] = p /\ t.child[d][p] = x /\ t.child[Other(d)][p] = w
  BY DEF Deleting
<1>4. x \in Node /\ w \in Node /\ x # p
  BY <1>1, <1>2, <1>3, Children
<1>5. H \in [Node -> Nat] /\ H[nil] = 0 /\ t.color[nil] = "black" /\ Balanced(t, H, p, d, p)
  BY <1>2 DEF Deleting, Heights
<1>6. H[p] = H[x] + 1 + Black(t, p) /\ H[p] = H[w] + 0 + Black(t, p)
  <2>1. Extra(p, d, p, d) = 1 /\ Extra(p, Other(d), p, d) = 0
    BY <1>1 DEF Extra
  <2>. QED
    BY <1>1, <1>3, <1>5, <2>1 DEF Balanced
<1>7. H[x] \in Nat /\ H[w] \in Nat /\ Black(t, p) \in Nat
  BY <1>4, <1>5 DEF Black
<1>8. H[w] = H[x] + 1 /\ H[p] = H[w] + Black(t, p)
  BY <1>6, <1>7
<1>9. w # nil /\ w # x
  BY <1>5, <1>7, <1>8
<1>10. w \in Key /\ p # w /\ t.parent[w] = p /\ w \in B[p] /\ p \notin B[w]
  BY <1>1, <1>2, <1>3, <1>9, Children
<1>11. w \in B[t.root] /\ p \in B[t.root]
  <2>1. p \in B[t.root]
    BY DEF Deleting
  <2>. QED
    BY <1>1, <1>2, <1>10, <2>1, BelowBelow
<1>12. Side(t, p, x) = d
  BY <1>1, <1>3, <1>9, Sides DEF Side, Other
<1>. QED
  BY <1>1, <1>2, <1>3, <1>4, <1>5, <1>7, <1>8, <1>9, <1>10, <1>11, <1>12

\* The heights below a node that is not next to x.
LEMMA HeightsBelow ==
    ASSUME NEW t \in TreeType, NEW H, NEW p, NEW d, Heights(t, H, p, d), NEW n \in Key, n # p,
           NEW e \in Dir, NEW c, t.child[e][n] = c
    PROVE  H[n] = H[c] + Black(t, n) /\ H[c] \in Nat /\ H[n] \in Nat /\ c \in Node
<1>1. Extra(n, e, p, d) = 0
  BY NoExtra
<1>2. H[n] = H[c] + 0 + Black(t, n)
  BY <1>1 DEF Heights, Balanced
<1>3. c \in Node /\ n \in Node
  BY TreeFields, ConstantFacts
<1>4. H[c] \in Nat /\ H[n] \in Nat
  BY <1>3 DEF Heights
<1>5. Black(t, n) \in Nat
  BY DEF Black
<1>. QED
  BY <1>2, <1>3, <1>4, <1>5

LEMMA RedSiblingTurns ==
    ASSUME NEW t, NEW B, NEW H, NEW x, NEW p, NEW w, NEW d, Deleting(t, B, H, x, p, w, d),
           t.color[w] = "red",
           NEW u, u = rotate(SetColor(SetColor(t, w, "black"), p, "red"), d, p)
    PROVE  /\ \E C, G, v : /\ Deleting(u, C, G, x, p, v, d) /\ C[u.root] = B[t.root]
                           /\ u.color[v] = "black"
           /\ u.color[p] = "red"
<1>1. /\ Tree(t, B) /\ t \in TreeType /\ d \in Dir /\ Other(d) \in Dir
      /\ p \in Key /\ w \in Key /\ x \in Node /\ p # w /\ x # w /\ x # p
      /\ w \in B[t.root] /\ p \in B[t.root] /\ p \notin B[w] /\ t.root \in Key
      /\ t.parent[w] = p /\ t.parent[x] = p
      /\ t.child[d][p] = x /\ t.child[Other(d)][p] = w
      /\ H \in [Node -> Nat] /\ H[nil] = 0 /\ t.color[nil] = "black"
      /\ H[x] \in Nat /\ H[w] = H[x] + 1 /\ H[p] = H[w] + Black(t, p)
  BY SiblingIs
<1>2. /\ Heights(t, H, p, d) /\ \A n \in Key : \A e \in Dir : ~ RedPair(t, n, e)
      /\ t.color[t.root] = "black" /\ t.color[x] = "black"
  BY DEF Deleting
<1>3. PICK s : s = SetColor(SetColor(t, w, "black"), p, "red")
  OBVIOUS
<1>4. /\ SameLinks(t, s)
      /\ \A q \in Node : s.color[q] = IF q = p THEN "red" ELSE IF q = w THEN "black" ELSE t.color[q]
  BY <1>1, <1>3, TwoColors, ConstantFacts
<1>5. Tree(s, B) /\ s \in TreeType
  BY <1>1, <1>4, ColorsKeepTree DEF SameLinks
<1>6. Turned(s, u, d, p, w)
  <2>1. w = s.child[Other(d)][p] /\ p \in B[s.root] /\ w # nil
    BY <1>1, <1>4, ConstantFacts DEF SameLinks
  <2>. QED
    BY <1>1, <1>3, <1>5, <2>1, RotateTurns
<1>7. PICK C : Tree(u, C) /\ C[u.root] = B[t.root]
  BY <1>1, <1>4, <1>5, <1>6, TurnKeepsTree DEF SameLinks
<1>8. PICK v, f : t.child[d][w] = v /\ t.child[Other(d)][w] = f
  OBVIOUS
<1>9. /\ u.child[d][p] = x /\ u.child[Other(d)][p] = v
      /\ u.child[d][w] = p /\ u.child[Other(d)][w] = f
      /\ u.color = s.color /\ v \notin {p, w} /\ f \notin {p, w}
  BY <1>1, <1>4, <1>6, <1>8 DEF Turned, SameLinks
<1>10. v \in Node /\ f \in Node
  BY <1>1, <1>8, TreeFields, ConstantFacts
<1>11. t.color[v] = "black" /\ t.color[f] = "black" /\ t.color[p] = "black"
  <2>1. t.color[v] # "red" /\ t.color[f] # "red" /\ t.color[p] # "red"
    BY <1>1, <1>2, <1>8 DEF RedPair
  <2>. QED
    BY <1>1, <1>10, <2>1, TreeFields, ConstantFacts
<1>12. PICK G : G = [H EXCEPT ![p] = H[w], ![w] = H[p]]
  OBVIOUS
<1>13. /\ G \in [Node -> Nat]
       /\ G[p] = H[w] /\ G[w] = H[p] /\ \A n \in Node \ {p, w} : G[n] = H[n]
  <2>1. p \in Node /\ w \in Node
    BY <1>1, ConstantFacts
  <2>2. H[p] \in Nat /\ H[w] \in Nat
    BY <1>1, <2>1
  <2>. QED
    BY <1>1, <1>12, <2>1, <2>2
<1>14. u.color[w] = "black" /\ u.color[p] = "red"
  BY <1>1, <1>4, <1>9, ConstantFacts
<1>15. Heights(u, G, p, d)
  <2>1. \A n \in Key : Balanced(t, H, p, d, n)
    BY <1>2 DEF Heights
  <2>2. \A n \in Key \ {p, w} : Balanced(s, H, p, d, n)
    BY <1>4, <2>1, ConstantFacts DEF Balanced, Black, SameLinks
  <2>3. ASSUME NEW n \in Key \ {p, w} PROVE Balanced(u, G, p, d, n)
    BY <1>1, <1>5, <1>6, <1>13, <2>2, TurnKeepsBalance
  <2>4. Black(t, w) = 0 /\ Black(t, p) = 1 /\ Black(u, w) = 1 /\ Black(u, p) = 0
    BY <1>11, <1>14, BlackIs
  <2>5. /\ H[w] = H[v] + 0 /\ H[w] = H[f] + 0
        /\ H[v] \in Nat /\ H[f] \in Nat /\ H[w] \in Nat
    BY <1>1, <1>2, <1>8, <2>4, HeightsBelow
  <2>6. {x, v, f} \subseteq Node \ {p, w}
    BY <1>1, <1>9, <1>10
  <2>7. G[x] = H[x] /\ G[v] = H[v] /\ G[f] = H[f]
    BY <1>13, <2>6
  <2>8. Extra(p, d, p, d) = 1 /\ Extra(p, Other(d), p, d) = 0
    BY <1>1, Sides DEF Extra
  <2>9. Extra(w, d, p, d) = 0 /\ Extra(w, Other(d), p, d) = 0
    BY <1>1 DEF Extra
  <2>10. G[p] = G[x] + 1 + 0 /\ G[p] = G[v] + 0 + 0
    BY <1>1, <1>13, <2>5, <2>7
  <2>11. Balanced(u, G, p, d, p)
    BY <1>1, <1>9, <2>4, <2>8, <2>10, BalancedIs
  <2>12. G[w] = G[p] + 0 + 1 /\ G[w] = G[f] + 0 + 1
    BY <1>1, <1>13, <2>4, <2>5, <2>7
  <2>13. Balanced(u, G, p, d, w)
    BY <1>1, <1>9, <2>4, <2>9, <2>12, BalancedIs
  <2>14. G[nil] = 0 /\ u.color[nil] = "black"
    <3>1. nil \in Node \ {p, w} /\ H[nil] = 0 /\ t.color[nil] = "black"
      BY <1>1, ConstantFacts
    <3>. QED
      BY <1>4, <1>9, <1>13, <3>1
  <2>. QED
    BY <1>13, <2>3, <2>11, <2>13, <2>14 DEF Heights
<1>16. \A n \in Key : \A e \in Dir : ~ RedPair(u, n, e)
  <2>. SUFFICES ASSUME NEW n \in Key, NEW e \in Dir, RedPair(u, n, e)
                PROVE  FALSE
    OBVIOUS
  <2>1. n # w
    BY <1>14 DEF RedPair
  <2>2. u.color[x] = "black" /\ u.color[v] = "black"
    BY <1>1, <1>2, <1>4, <1>9, <1>10, <1>11
  <2>3. n # p
    BY <1>1, <1>9, <2>2, Sides DEF RedPair
  <2>4. n \in Node \ {p, w} /\ t.child[e][n] \in Node
    BY <1>1, <2>1, <2>3, TreeFields, ConstantFacts
  <2>5. \/ u.child[e][n] = t.child[e][n] /\ t.child[e][n] \notin {p, w}
        \/ u.child[e][n] = w
    BY <1>4, <1>6, <2>4 DEF Turned, SameLinks
  <2>6. u.child[e][n] # w
    BY <1>14 DEF RedPair
  <2>7. RedPair(t, n, e)
    BY <1>4, <1>9, <2>4, <2>5, <2>6 DEF RedPair
  <2>. QED
    BY <1>2, <2>7
<1>17. u.color[u.root] = "black"
  <2>1. CASE u.root = w
    BY <1>14, <2>1
  <2>2. CASE t.root \notin {p, w} /\ u.root = t.root
    <3>1. t.root \in Node
      BY <1>1, ConstantFacts
    <3>. QED
      BY <1>2, <1>4, <1>9, <2>2, <3>1
  <2>. QED
    BY <1>4, <1>6, <2>1, <2>2 DEF Turned, SameLinks
<1>18. u.parent[x] = p
  <2>1. x # v \/ x = nil
    BY <1>1, <1>8, ConstantFacts DEF Tree
  <2>. QED
    BY <1>1, <1>4, <1>6, <1>8, <2>1 DEF Turned, SameLinks
<1>19. u.color[x] = "black" /\ u.color[v] = "black"
  BY <1>1, <1>2, <1>4, <1>9, <1>10, <1>11
<1>20. Deleting(u, C, G, x, p, v, d)
  BY <1>1, <1>7, <1>9, <1>15, <1>16, <1>17, <1>18, <1>19 DEF Deleting
<1>21. u.color[p] = "red"
  BY <1>1, <1>4, <1>9, ConstantFacts
<1>. QED
  BY <1>7, <1>19, <1>20, <1>21

\* A red nephew on x's side only: it becomes the sibling, with the old one
\* as its red child on the far side.
LEMMA NearNephewTurns ==
    ASSUME NEW t, NEW B, NEW H, NEW x, NEW p, NEW w, NEW d, Deleting(t, B, H, x, p, w, d),
           t.color[w] = "black",
           NEW v, t.child[d][w] = v, t.color[v] = "red",
           NEW f, t.child[Other(d)][w] = f, t.color[f] = "black",
           NEW u, u = rotate(SetColor(SetColor(t, v, "black"), w, "red"), Other(d), w)
    PROVE  \E C, G : /\ Deleting(u, C, G, x, p, v, d) /\ C[u.root] = B[t.root]
                     /\ u.color[v] = "black" /\ u.child[Other(d)][v] = w
                     /\ u.color[w] = "red"
<1>1. /\ Tree(t, B) /\ t \in TreeType /\ d \in Dir /\ Other(d) \in Dir
      /\ p \in Key /\ w \in Key /\ x \in Node /\ p # w /\ x # w /\ x # p
      /\ w \in B[t.root] /\ p \in B[t.root] /\ p \notin B[w] /\ t.root \in Key
      /\ t.parent[w] = p /\ t.parent[x] = p
      /\ t.child[d][p] = x /\ t.child[Other(d)][p] = w
      /\ H \in [Node -> Nat] /\ H[nil] = 0 /\ t.color[nil] = "black"
      /\ H[x] \in Nat /\ H[w] = H[x] + 1 /\ H[p] = H[w] + Black(t, p)
  BY SiblingIs
<1>2. /\ Heights(t, H, p, d) /\ \A n \in Key : \A e \in Dir : ~ RedPair(t, n, e)
      /\ t.color[t.root] = "black" /\ t.color[x] = "black"
  BY DEF Deleting
<1>3. v # nil
  BY <1>1
<1>4. v \in Key /\ v # w /\ v \in B[w] /\ t.parent[v] = w
  BY <1>1, <1>3, Children
<1>5. v # p /\ v # x
  BY <1>1, <1>4
<1>6. PICK s : s = SetColor(SetColor(t, v, "black"), w, "red")
  OBVIOUS
<1>7. /\ SameLinks(t, s)
      /\ \A q \in Node : s.color[q] = IF q = w THEN "red" ELSE IF q = v THEN "black" ELSE t.color[q]
  BY <1>1, <1>4, <1>6, TwoColors, ConstantFacts
<1>8. Tree(s, B) /\ s \in TreeType
  BY <1>1, <1>7, ColorsKeepTree DEF SameLinks
<1>9. Turned(s, u, Other(d), w, v)
  <2>1. v = s.child[Other(Other(d))][w] /\ w \in B[s.root]
    BY <1>1, <1>7, Sides DEF SameLinks
  <2>. QED
    BY <1>1, <1>3, <1>6, <1>8, <2>1, RotateTurns
<1>10. PICK C : Tree(u, C) /\ C[u.root] = B[t.root]
  BY <1>1, <1>7, <1>8, <1>9, TurnKeepsTree DEF SameLinks
<1>11. PICK a, b : t.child[d][v] = a /\ t.child[Other(d)][v] = b
  OBVIOUS
<1>12. /\ u.child[d][w] = b /\ u.child[Other(d)][w] = f
       /\ u.child[d][v] = a /\ u.child[Other(d)][v] = w
       /\ u.color = s.color /\ a \notin {v, w} /\ b \notin {v, w} /\ f \notin {v, w}
  <2>1. Other(Other(d)) = d
    BY <1>1, Sides
  <2>. QED
    BY <1>7, <1>9, <1>11, <2>1 DEF Turned, SameLinks
<1>13. a \in Node /\ b \in Node /\ f \in Node
  BY <1>1, <1>4, <1>11, TreeFields, ConstantFacts
<1>14. t.color[a] = "black" /\ t.color[b] = "black"
  <2>1. t.color[a] # "red" /\ t.color[b] # "red"
    BY <1>1, <1>2, <1>4, <1>11 DEF RedPair
  <2>. QED
    BY <1>1, <1>13, <2>1, TreeFields
<1>15. PICK G : G = [H EXCEPT ![w] = H[v], ![v] = H[w]]
  OBVIOUS
<1>16. /\ G \in [Node -> Nat]
       /\ G[w] = H[v] /\ G[v] = H[w] /\ \A n \in Node \ {w, v} : G[n] = H[n]
  <2>1. v \in Node /\ w \in Node /\ v # w
    BY <1>1, <1>4, ConstantFacts
  <2>2. H[v] \in Nat /\ H[w] \in Nat
    BY <1>1, <2>1
  <2>. QED
    BY <1>1, <1>15, <2>1, <2>2
<1>17. u.color[v] = "black" /\ u.color[w] = "red"
  BY <1>1, <1>4, <1>7, <1>12, ConstantFacts
<1>18. Heights(u, G, p, d)
  <2>1. \A n \in Key : Balanced(t, H, p, d, n)
    BY <1>2 DEF Heights
  <2>2. \A n \in Key \ {w, v} : Balanced(s, H, p, d, n)
    BY <1>7, <2>1, ConstantFacts DEF Balanced, Black, SameLinks
  <2>3. ASSUME NEW n \in Key \ {w, v} PROVE Balanced(u, G, p, d, n)
    BY <1>1, <1>8, <1>9, <1>16, <2>2, TurnKeepsBalance
  <2>4. Black(t, w) = 1 /\ Black(t, v) = 0 /\ Black(u, w) = 0 /\ Black(u, v) = 1
    BY <1>17, BlackIs
  <2>5. /\ H[w] = H[v] + 1 /\ H[w] = H[f] + 1
        /\ H[v] \in Nat /\ H[f] \in Nat /\ H[w] \in Nat
    BY <1>1, <1>2, <2>4, HeightsBelow
  <2>6. H[v] = H[a] + 0 /\ H[v] = H[b] + 0 /\ H[a] \in Nat /\ H[b] \in Nat
    BY <1>1, <1>2, <1>4, <1>5, <1>11, <2>4, HeightsBelow
  <2>7. {a, b, f} \subseteq Node \ {w, v}
    BY <1>12, <1>13
  <2>8. G[a] = H[a] /\ G[b] = H[b] /\ G[f] = H[f]
    BY <1>16, <2>7
  <2>9. /\ Extra(w, d, p, d) = 0 /\ Extra(w, Other(d), p, d) = 0
        /\ Extra(v, d, p, d) = 0 /\ Extra(v, Other(d), p, d) = 0
    BY <1>1, <1>5 DEF Extra
  <2>10. G[w] = G[b] + 0 + 0 /\ G[w] = G[f] + 0 + 0
    BY <1>16, <2>5, <2>6, <2>8
  <2>11. Balanced(u, G, p, d, w)
    BY <1>1, <1>12, <2>4, <2>9, <2>10, BalancedIs
  <2>12. G[v] = G[a] + 0 + 1 /\ G[v] = G[w] + 0 + 1
    BY <1>16, <2>5, <2>6, <2>8
  <2>13. Balanced(u, G, p, d, v)
    BY <1>1, <1>12, <2>4, <2>9, <2>12, BalancedIs
  <2>14. G[nil] = 0 /\ u.color[nil] = "black"
    <3>1. nil \in Node \ {w, v}
      BY <1>1, <1>4, ConstantFacts
    <3>. QED
      BY <1>1, <1>7, <1>12, <1>16, <3>1
  <2>. QED
    BY <1>16, <2>3, <2>11, <2>13, <2>14 DEF Heights
<1>19. \A n \in Key : \A e \in Dir : ~ RedPair(u, n, e)
  <2>. SUFFICES ASSUME NEW n \in Key, NEW e \in Dir, RedPair(u, n, e)
                PROVE  FALSE
    OBVIOUS
  <2>1. n # v
    BY <1>17 DEF RedPair
  <2>2. u.color[b] = "black" /\ u.color[f] = "black"
    BY <1>7, <1>12, <1>13, <1>14
  <2>3. n # w
    BY <1>1, <1>12, <2>2, Sides DEF RedPair
  <2>4. n \in Node \ {w, v} /\ t.child[e][n] \in Node
    BY <1>1, <2>1, <2>3, TreeFields, ConstantFacts
  <2>5. \/ u.child[e][n] = t.child[e][n] /\ t.child[e][n] \notin {w, v}
        \/ u.child[e][n] = v
    BY <1>7, <1>9, <2>4 DEF Turned, SameLinks
  <2>6. u.child[e][n] # v
    BY <1>17 DEF RedPair
  <2>7. RedPair(t, n, e)
    BY <1>7, <1>12, <2>4, <2>5, <2>6 DEF RedPair
  <2>. QED
    BY <1>2, <2>7
<1>20. u.color[u.root] = "black"
  <2>1. CASE u.root = v
    BY <1>17, <2>1
  <2>2. CASE t.root \notin {w, v} /\ u.root = t.root
    <3>1. t.root \in Node
      BY <1>1, ConstantFacts
    <3>. QED
      BY <1>2, <1>7, <1>12, <2>2, <3>1
  <2>. QED
    BY <1>7, <1>9, <2>1, <2>2 DEF Turned, SameLinks
<1>21. u.parent[x] = p
  <2>1. x # b \/ x = nil
    BY <1>1, <1>4, <1>5, <1>11, ConstantFacts DEF Tree
  <2>. QED
    BY <1>1, <1>5, <1>7, <1>9, <1>11, <2>1 DEF Turned, SameLinks
<1>22. u.child[d][p] = x /\ u.child[Other(d)][p] = v
  <2>1. p \in Node \ {w, v}
    BY <1>1, <1>5, ConstantFacts
  <2>. QED
    BY <1>1, <1>5, <1>7, <1>9, <2>1 DEF Turned, SameLinks
<1>23. u.color[x] = "black"
  BY <1>1, <1>2, <1>5, <1>7, <1>12
<1>24. Deleting(u, C, G, x, p, v, d)
  BY <1>1, <1>10, <1>18, <1>19, <1>20, <1>21, <1>22, <1>23 DEF Deleting
<1>. QED
  BY <1>10, <1>12, <1>17, <1>24

\* The last rotation.
LEMMA FarNephewTurns ==
    ASSUME NEW t, NEW B, NEW H, NEW x, NEW p, NEW w, NEW d, Deleting(t, B, H, x, p, w, d),
           t.color[w] = "black", NEW f, t.child[Other(d)][w] = f, t.color[f] = "red",
           NEW s, SameLinks(t, s),
           \A q \in Node : s.color[q] = IF q = f THEN "black" ELSE IF q = p THEN "black"
                                        ELSE IF q = w THEN t.color[p] ELSE t.color[q],
           NEW u, u = rotate(s, d, p)
    PROVE  \E C, G : Resolved(u, C, G) /\ C[u.root] = B[t.root]
<1>1. /\ Tree(t, B) /\ t \in TreeType /\ d \in Dir /\ Other(d) \in Dir
      /\ p \in Key /\ w \in Key /\ x \in Node /\ p # w /\ x # w /\ x # p
      /\ w \in B[t.root] /\ p \in B[t.root] /\ p \notin B[w] /\ t.root \in Key
      /\ t.parent[w] = p /\ t.parent[x] = p
      /\ t.child[d][p] = x /\ t.child[Other(d)][p] = w
      /\ H \in [Node -> Nat] /\ H[nil] = 0 /\ t.color[nil] = "black"
      /\ H[x] \in Nat /\ H[w] = H[x] + 1 /\ H[p] = H[w] + Black(t, p)
  BY SiblingIs
<1>2. /\ Heights(t, H, p, d) /\ \A n \in Key : \A e \in Dir : ~ RedPair(t, n, e)
      /\ t.color[t.root] = "black" /\ t.color[x] = "black"
  BY DEF Deleting
<1>3. f # nil
  BY <1>1
<1>4. f \in Key /\ f # w /\ f \in B[w] /\ t.parent[f] = w
  BY <1>1, <1>3, Children
<1>5. f # p /\ f # x
  BY <1>1, <1>4
<1>6. Tree(s, B) /\ s \in TreeType
  BY <1>1, ColorsKeepTree DEF SameLinks
<1>7. Turned(s, u, d, p, w)
  <2>1. w = s.child[Other(d)][p] /\ p \in B[s.root] /\ w # nil
    BY <1>1, ConstantFacts DEF SameLinks
  <2>. QED
    BY <1>1, <1>6, <2>1, RotateTurns
<1>8. PICK C : Tree(u, C) /\ C[u.root] = B[t.root]
  BY <1>1, <1>6, <1>7, TurnKeepsTree DEF SameLinks
<1>9. PICK v : t.child[d][w] = v
  OBVIOUS
<1>10. /\ u.child[d][p] = x /\ u.child[Other(d)][p] = v
       /\ u.child[d][w] = p /\ u.child[Other(d)][w] = f
       /\ u.color = s.color /\ v \notin {p, w}
  BY <1>1, <1>7, <1>9 DEF Turned, SameLinks
<1>11. v \in Node /\ v # f
  BY <1>1, <1>4, <1>9, Children, TreeFields, ConstantFacts
<1>12. /\ u.color[p] = "black" /\ u.color[f] = "black" /\ u.color[w] = t.color[p]
       /\ \A q \in Node \ {p, f, w} : u.color[q] = t.color[q]
  BY <1>1, <1>4, <1>5, <1>10, ConstantFacts
<1>13. PICK F : F = [H EXCEPT ![f] = H[f] + 1]
  OBVIOUS
<1>14. /\ F \in [Node -> Nat] /\ F[f] = H[f] + 1 /\ \A n \in Node \ {f} : F[n] = H[n]
  <2>1. f \in Node
    BY <1>4, ConstantFacts
  <2>2. H[f] + 1 \in Nat
    BY <1>1, <2>1
  <2>. QED
    BY <1>1, <1>13, <2>1, <2>2
<1>15. PICK G : G = [F EXCEPT ![p] = F[w], ![w] = F[p]]
  OBVIOUS
<1>16. /\ G \in [Node -> Nat]
       /\ G[p] = F[w] /\ G[w] = F[p] /\ \A n \in Node \ {p, w} : G[n] = F[n]
  <2>1. p \in Node /\ w \in Node
    BY <1>1, ConstantFacts
  <2>2. F[p] \in Nat /\ F[w] \in Nat
    BY <1>14, <2>1
  <2>. QED
    BY <1>1, <1>14, <1>15, <2>1, <2>2
<1>17. Heights(u, G, nil, "left")
  <2>1. \A n \in Key : Balanced(t, H, p, d, n)
    BY <1>2 DEF Heights
  <2>2. ASSUME NEW n \in Key \ {p, w} PROVE Balanced(s, F, nil, "left", n)
    <3>1. \A e \in Dir : t.child[e][n] \in Node \ {f} /\ s.child[e][n] = t.child[e][n]
      BY <1>1, <1>4, TreeFields, ConstantFacts DEF Tree, SameLinks
    <3>2. \A e \in Dir : /\ F[s.child[e][n]] = H[t.child[e][n]]
                         /\ H[t.child[e][n]] \in Nat
      BY <1>1, <1>14, <3>1
    <3>3. \A e \in Dir : Extra(n, e, p, d) = 0 /\ Extra(n, e, nil, "left") = 0
      BY NoExtra, ConstantFacts
    <3>4. \A e \in Dir : H[n] = H[t.child[e][n]] + 0 + Black(t, n)
      BY <2>1, <3>3 DEF Balanced
    <3>5. CASE n = f
      <4>1. Black(t, n) = 0 /\ Black(s, n) = 1
        BY <1>4, <3>5, BlackIs, ConstantFacts
      <4>2. \A e \in Dir : F[n] = F[s.child[e][n]] + 0 + 1
        BY <1>14, <3>2, <3>4, <3>5, <4>1
      <4>. QED
        BY <3>3, <4>1, <4>2 DEF Balanced
    <3>6. CASE n # f
      <4>1. Black(t, n) = Black(s, n) /\ F[n] = H[n]
        BY <1>14, <3>6, ConstantFacts DEF Black
      <4>2. \A e \in Dir : F[n] = F[s.child[e][n]] + 0 + Black(s, n)
        BY <3>2, <3>4, <4>1
      <4>. QED
        BY <3>3, <4>2 DEF Balanced
    <3>. QED
      BY <3>5, <3>6
  <2>3. ASSUME NEW n \in Key \ {p, w} PROVE Balanced(u, G, nil, "left", n)
    BY <1>1, <1>6, <1>7, <1>16, <2>2, TurnKeepsBalance
  <2>4. Black(t, w) = 1 /\ Black(u, p) = 1 /\ Black(u, w) = Black(t, p) /\ Black(t, p) \in Nat
    BY <1>12, BlackIs DEF Black
  <2>5. /\ H[w] = H[v] + 1 /\ H[w] = H[f] + 1
        /\ H[v] \in Nat /\ H[f] \in Nat /\ H[w] \in Nat
    BY <1>1, <1>2, <1>9, <2>4, HeightsBelow
  <2>6. {x, v, f} \subseteq Node \ {p, w} /\ {x, v, p, w} \subseteq Node \ {f}
    BY <1>1, <1>4, <1>5, <1>10, <1>11, ConstantFacts
  <2>7. G[x] = H[x] /\ G[v] = H[v] /\ G[f] = H[f] + 1 /\ G[p] = H[w] /\ G[w] = H[p]
    BY <1>14, <1>16, <2>6
  <2>8. \A e \in Dir : Extra(p, e, nil, "left") = 0 /\ Extra(w, e, nil, "left") = 0
    BY <1>1, NoExtra, ConstantFacts
  <2>10. G[p] = G[x] + 0 + 1 /\ G[p] = G[v] + 0 + 1
    BY <1>1, <2>5, <2>7
  <2>11. Balanced(u, G, nil, "left", p)
    BY <1>1, <1>10, <2>4, <2>8, <2>10, BalancedIs
  <2>12. G[w] = G[p] + 0 + Black(u, w) /\ G[w] = G[f] + 0 + Black(u, w)
    BY <1>1, <2>4, <2>5, <2>7
  <2>13. Balanced(u, G, nil, "left", w)
    BY <1>1, <1>10, <2>4, <2>8, <2>12, BalancedIs
  <2>14. G[nil] = 0 /\ u.color[nil] = "black"
    <3>1. nil \in Node \ {p, f, w}
      BY <1>1, <1>4, ConstantFacts
    <3>. QED
      BY <1>1, <1>12, <1>14, <1>16, <3>1
  <2>. QED
    BY <1>16, <2>3, <2>11, <2>13, <2>14 DEF Heights
<1>18. \A n \in Key : \A e \in Dir : ~ RedPair(u, n, e)
  <2>. SUFFICES ASSUME NEW n \in Key, NEW e \in Dir, RedPair(u, n, e)
                PROVE  FALSE
    OBVIOUS
  <2>1. n # p /\ n # f /\ u.child[e][n] # p /\ u.child[e][n] # f
    BY <1>12 DEF RedPair
  <2>2. n # w
    BY <1>1, <1>10, <2>1, Sides
  <2>4. n \in Node \ {p, f, w} /\ t.child[e][n] \in Node
    BY <1>1, <2>1, <2>2, TreeFields, ConstantFacts
  <2>5. \/ u.child[e][n] = t.child[e][n] /\ t.child[e][n] \notin {p, w}
        \/ u.child[e][n] = w /\ t.child[e][n] = p
    BY <1>7, <2>4 DEF Turned, SameLinks
  <2>6. RedPair(t, n, e)
    BY <1>12, <2>1, <2>4, <2>5 DEF RedPair
  <2>. QED
    BY <1>2, <2>6
<1>19. u.color[u.root] = "black"
  <2>1. CASE t.root = p /\ u.root = w
    BY <1>2, <1>12, <2>1
  <2>2. CASE t.root \notin {p, w} /\ u.root = t.root
    <3>1. t.root \in Node
      BY <1>1, ConstantFacts
    <3>. QED
      BY <1>2, <1>12, <2>2, <3>1
  <2>. QED
    BY <1>7, <2>1, <2>2 DEF Turned, SameLinks
<1>20. Resolved(u, C, G)
  BY <1>8, <1>17, <1>18, <1>19 DEF Resolved
<1>. QED
  BY <1>8, <1>20

\* What the delete fixup keeps, with x its node: x is the root, or the way
\* through x is one black node short; the colour of x may clash with that of
\* its parent or of a child.
DeleteInv(t, B, H, x) ==
    /\ Tree(t, B)
    /\ \A n \in Key : \A e \in Dir : RedPair(t, n, e) => x \in {n, t.child[e][n]}
    /\ t.color[t.root] = "red" => x = t.root
    /\ \/ x = t.root /\ t.parent[x] = nil /\ Heights(t, H, nil, "left")
       \/ \E d \in Dir : /\ t.parent[x] \in B[t.root] /\ t.child[d][t.parent[x]] = x
                         /\ Heights(t, H, t.parent[x], d)

\* The sibling becomes red and the loop goes on with the parent.
LEMMA MovesUp ==
    ASSUME NEW t, NEW B, NEW H, NEW x, NEW p, NEW w, NEW d, Deleting(t, B, H, x, p, w, d),
           t.color[w] = "black", \A e \in Dir : t.color[t.child[e][w]] = "black",
           NEW u, u = SetColor(t, w, "red")
    PROVE  /\ SameLinks(t, u) /\ u.color[p] = t.color[p]
           /\ \E G : DeleteInv(u, B, G, p)
<1>1. /\ Tree(t, B) /\ t \in TreeType /\ d \in Dir /\ Other(d) \in Dir
      /\ p \in Key /\ w \in Key /\ x \in Node /\ p # w /\ x # w /\ x # p
      /\ w \in B[t.root] /\ p \in B[t.root] /\ p \notin B[w] /\ t.root \in Key
      /\ t.parent[w] = p /\ t.parent[x] = p
      /\ t.child[d][p] = x /\ t.child[Other(d)][p] = w
      /\ H \in [Node -> Nat] /\ H[nil] = 0 /\ t.color[nil] = "black"
      /\ H[x] \in Nat /\ H[w] = H[x] + 1 /\ H[p] = H[w] + Black(t, p)
  BY SiblingIs
<1>2. /\ Heights(t, H, p, d) /\ \A n \in Key : \A e \in Dir : ~ RedPair(t, n, e)
      /\ t.color[t.root] = "black"
  BY DEF Deleting
<1>3. /\ SameLinks(t, u)
      /\ \A q \in Node : u.color[q] = IF q = w THEN "red" ELSE t.color[q]
  <2>1. ColorSet(t, u, w, "red")
    BY <1>1, SetColorIs, ConstantFacts
  <2>. QED
    BY <2>1 DEF ColorSet, SameLinks
<1>0. u.color[p] = t.color[p]
  BY <1>1, <1>3, ConstantFacts
<1>4. Tree(u, B)
  BY <1>1, <1>3, ColorsKeepTree
<1>5. Black(t, w) = 1 /\ Black(u, w) = 0 /\ Black(u, p) = Black(t, p) /\ Black(t, p) \in Nat
  BY <1>1, <1>3, ConstantFacts DEF Black
<1>6. PICK G : G = [H EXCEPT ![w] = H[x], ![p] = H[x] + Black(t, p)]
  OBVIOUS
<1>7. /\ G \in [Node -> Nat] /\ G[w] = H[x] /\ G[p] = H[x] + Black(t, p)
      /\ \A n \in Node \ {p, w} : G[n] = H[n]
  <2>1. p \in Node /\ w \in Node /\ H[x] + Black(t, p) \in Nat
    BY <1>1, <1>5, ConstantFacts
  <2>. QED
    BY <1>1, <1>6, <2>1
<1>8. ASSUME NEW hp, NEW hd, hp # p, hp # w,
             \A n \in Key : \A e \in Dir : t.child[e][n] = p <=> n = hp /\ e = hd
      PROVE  Heights(u, G, hp, hd)
  <2>1. ASSUME NEW n \in Key \ {p, w} PROVE Balanced(u, G, hp, hd, n)
    <3>1. Balanced(t, H, p, d, n) /\ Black(u, n) = Black(t, n) /\ G[n] = H[n]
      BY <1>2, <1>3, <1>7, ConstantFacts DEF Heights, Black
    <3>2. ASSUME NEW e \in Dir
          PROVE  H[t.child[e][n]] = G[u.child[e][n]] + Extra(n, e, hp, hd)
      <4>1. u.child[e][n] = t.child[e][n] /\ t.child[e][n] \in Node /\ t.child[e][n] # w
        BY <1>1, <1>3, TreeFields, ConstantFacts DEF SameLinks, Tree
      <4>2. CASE t.child[e][n] = p
        <5>1. Extra(n, e, hp, hd) = 1
          BY <1>8, <4>2 DEF Extra
        <5>2. H[p] = G[p] + 1
          BY <1>1, <1>5, <1>7
        <5>. QED
          BY <4>1, <4>2, <5>1, <5>2
      <4>3. CASE t.child[e][n] # p
        <5>1. Extra(n, e, hp, hd) = 0
          BY <1>8, <4>3 DEF Extra
        <5>2. H[t.child[e][n]] = G[t.child[e][n]] /\ H[t.child[e][n]] \in Nat
          BY <1>1, <1>7, <4>1, <4>3
        <5>. QED
          BY <4>1, <5>1, <5>2
      <4>. QED
        BY <4>2, <4>3
    <3>3. \A e \in Dir : /\ Extra(n, e, p, d) = 0 /\ H[t.child[e][n]] \in Nat
                         /\ H[n] = H[t.child[e][n]] + 0 + Black(t, n)
      <4>1. \A e \in Dir : Extra(n, e, p, d) = 0
        BY NoExtra
      <4>2. \A e \in Dir : t.child[e][n] \in Node
        BY <1>1, TreeFields, ConstantFacts
      <4>. QED
        BY <1>1, <3>1, <4>1, <4>2 DEF Balanced
    <3>4. \A e \in Dir : H[n] = (G[u.child[e][n]] + Extra(n, e, hp, hd)) + 0 + Black(u, n)
      BY <3>1, <3>2, <3>3
    <3>5. \A e \in Dir : G[u.child[e][n]] \in Nat /\ Extra(n, e, hp, hd) \in Nat /\ Black(u, n) \in Nat
      <4>1. \A e \in Dir : u.child[e][n] \in Node
        BY <1>3, TreeFields, ConstantFacts DEF SameLinks
      <4>. QED
        BY <1>7, <4>1 DEF Extra, Black
    <3>. QED
      BY <3>1, <3>4, <3>5 DEF Balanced
  <2>2. Balanced(u, G, hp, hd, w)
    <3>1. PICK v, f : t.child[d][w] = v /\ t.child[Other(d)][w] = f
      OBVIOUS
    <3>2. /\ H[w] = H[v] + 1 /\ H[v] \in Nat /\ v \in Node
          /\ H[w] = H[f] + 1 /\ H[f] \in Nat /\ f \in Node
      BY <1>1, <1>2, <1>5, <3>1, HeightsBelow
    <3>3. v # w /\ f # w /\ v # p /\ f # p
      BY <1>1, <3>1, Children, ConstantFacts
    <3>4. G[v] = H[v] /\ G[f] = H[f]
      BY <1>7, <3>2, <3>3
    <3>5. G[w] = G[v] + 0 + 0 /\ G[w] = G[f] + 0 + 0
      BY <1>1, <1>7, <3>2, <3>4
    <3>6. \A e \in Dir : Extra(w, e, hp, hd) = 0
      BY <1>8, NoExtra
    <3>7. u.child[d][w] = v /\ u.child[Other(d)][w] = f
      BY <1>3, <3>1 DEF SameLinks
    <3>. QED
      BY <1>1, <1>5, <3>5, <3>6, <3>7, BalancedIs
  <2>3. Balanced(u, G, hp, hd, p)
    <3>1. \A e \in Dir : Extra(p, e, hp, hd) = 0
      BY <1>8, NoExtra
    <3>2. G[x] = H[x]
      BY <1>1, <1>7
    <3>3. G[p] = G[x] + 0 + Black(u, p) /\ G[p] = G[w] + 0 + Black(u, p)
      BY <1>1, <1>5, <1>7, <3>2
    <3>4. u.child[d][p] = x /\ u.child[Other(d)][p] = w
      BY <1>1, <1>3 DEF SameLinks
    <3>. QED
      BY <1>1, <3>1, <3>3, <3>4, BalancedIs
  <2>4. G[nil] = 0 /\ u.color[nil] = "black"
    <3>1. nil \in Node \ {p, w}
      BY <1>1, ConstantFacts
    <3>. QED
      BY <1>1, <1>3, <1>7, <3>1
  <2>. QED
    BY <1>7, <2>1, <2>2, <2>3, <2>4 DEF Heights
<1>9. \A n \in Key : \A e \in Dir : RedPair(u, n, e) => p \in {n, u.child[e][n]}
  <2>. SUFFICES ASSUME NEW n \in Key, NEW e \in Dir, RedPair(u, n, e), n # p
                PROVE  FALSE
    OBVIOUS
  <2>1. u.child[e][n] = t.child[e][n] /\ t.child[e][n] \in Node /\ t.child[e][n] # w
    BY <1>1, <1>3, TreeFields, ConstantFacts DEF SameLinks, Tree
  <2>2. n # w
    BY <1>3, <2>1 DEF RedPair
  <2>3. RedPair(t, n, e)
    BY <1>3, <2>1, <2>2, ConstantFacts DEF RedPair
  <2>. QED
    BY <1>2, <2>3
<1>10. u.root = t.root /\ u.color[u.root] = "black" /\ u.parent = t.parent /\ u.child = t.child
  <2>1. t.root # w
    BY <1>1, ConstantFacts DEF Tree
  <2>2. t.root \in Node
    BY <1>1, ConstantFacts
  <2>. QED
    BY <1>2, <1>3, <2>1, <2>2 DEF SameLinks
<1>11. CASE p = t.root
  <2>1. t.parent[p] = nil
    BY <1>1, <1>11, ConstantFacts DEF Tree
  <2>2. \A n \in Key : \A e \in Dir : t.child[e][n] # p
    BY <1>1, <2>1, ConstantFacts DEF Tree
  <2>3. Heights(u, G, nil, "left")
    BY <1>1, <1>8, <2>2, ConstantFacts
  <2>4. DeleteInv(u, B, G, p)
    BY <1>4, <1>9, <1>10, <1>11, <2>1, <2>3 DEF DeleteInv
  <2>. QED
    BY <1>0, <1>3, <2>4
<1>12. CASE p # t.root
  <2>1. PICK q : q = t.parent[p]
    OBVIOUS
  <2>2. q \in B[t.root] /\ q \in Key
    BY <1>1, <1>12, <2>1, ParentOf
  <2>3. PICK e \in Dir : t.child[e][q] = p
    BY <1>1, <1>12, <2>1, ParentOf
  <2>4. q # p /\ q # w /\ t.child[Other(e)][q] # p
    BY <1>1, <2>2, <2>3, Children, ConstantFacts
  <2>5. \A n \in Key : \A g \in Dir : t.child[g][n] = p <=> n = q /\ g = e
    <3>1. \A n \in Key : \A g \in Dir : t.child[g][n] = p => n = q
      BY <1>1, <2>1, ConstantFacts DEF Tree
    <3>. QED
      BY <2>3, <2>4, <3>1, Sides
  <2>6. Heights(u, G, q, e)
    BY <1>8, <2>4, <2>5
  <2>7. DeleteInv(u, B, G, p)
    BY <1>4, <1>9, <1>10, <2>1, <2>2, <2>3, <2>6 DEF DeleteInv
  <2>. QED
    BY <1>0, <1>3, <2>7
<1>. QED
  BY <1>11, <1>12

LEMMA RedSiblingKeeps ==
    ASSUME NEW t, NEW B, NEW H, NEW x, NEW p, NEW w, NEW d, Deleting(t, B, H, x, p, w, d),
           NEW u, u = RedSibling(t, x, d)
    PROVE  /\ \E C, G, v : /\ Deleting(u, C, G, x, p, v, d) /\ C[u.root] = B[t.root]
                           /\ u.color[v] = "black"
           /\ u = t \/ u.color[p] = "red"
<1>1. /\ t.parent[x] = p /\ t.child[Other(d)][p] = w /\ t \in TreeType /\ w \in Node
  BY SiblingIs, ConstantFacts
<1>2. CASE t.color[w] = "red"
  <2>1. u = rotate(SetColor(SetColor(t, w, "black"), p, "red"), d, p)
    BY <1>1, <1>2 DEF RedSibling
  <2>. QED
    BY <1>2, <2>1, RedSiblingTurns
<1>3. CASE t.color[w] # "red"
  <2>1. u = t /\ t.color[w] = "black"
    BY <1>1, <1>3, TreeFields DEF RedSibling
  <2>. QED
    BY <2>1
<1>. QED
  BY <1>2, <1>3

LEMMA NearNephewKeeps ==
    ASSUME NEW t, NEW B, NEW H, NEW x, NEW p, NEW w, NEW d, Deleting(t, B, H, x, p, w, d),
           t.color[w] = "black", ~ \A e \in Dir : t.color[t.child[e][w]] = "black",
           NEW u, u = NearNephew(t, x, d)
    PROVE  \E C, G, v : /\ Deleting(u, C, G, x, p, v, d) /\ C[u.root] = B[t.root]
                        /\ u.color[v] = "black" /\ u.color[u.child[Other(d)][v]] = "red"
<1>1. /\ t.parent[x] = p /\ t.child[Other(d)][p] = w /\ t \in TreeType /\ w \in Node
      /\ d \in Dir /\ Other(d) \in Dir
  BY SiblingIs, ConstantFacts
<1>2. PICK v, f : t.child[d][w] = v /\ t.child[Other(d)][w] = f
  OBVIOUS
<1>3. t.color[v] \in {"red", "black"} /\ t.color[f] \in {"red", "black"}
  BY <1>1, <1>2, TreeFields
<1>4. CASE t.color[f] = "black"
  <2>1. u = rotate(SetColor(SetColor(t, v, "black"), w, "red"), Other(d), w)
    BY <1>1, <1>2, <1>4 DEF NearNephew
  <2>2. t.color[v] = "red"
    BY <1>1, <1>2, <1>3, <1>4, Sides
  <2>3. \E C, G : /\ Deleting(u, C, G, x, p, v, d) /\ C[u.root] = B[t.root]
                  /\ u.color[v] = "black" /\ u.child[Other(d)][v] = w
                  /\ u.color[w] = "red"
    BY <1>2, <1>4, <2>1, <2>2, NearNephewTurns
  <2>. QED
    BY <2>3
<1>5. CASE t.color[f] = "red"
  <2>1. u = t
    BY <1>1, <1>2, <1>5 DEF NearNephew
  <2>. QED
    BY <1>2, <1>5, <2>1
<1>. QED
  BY <1>3, <1>4, <1>5

LEMMA FarNephewKeeps ==
    ASSUME NEW t, NEW B, NEW H, NEW x, NEW p, NEW w, NEW d, Deleting(t, B, H, x, p, w, d),
           t.color[w] = "black", t.color[t.child[Other(d)][w]] = "red",
           NEW u, u = FarNephew(t, x, d)
    PROVE  \E C, G : Resolved(u, C, G) /\ C[u.root] = B[t.root]
<1>1. /\ t.parent[x] = p /\ t.child[Other(d)][p] = w /\ t \in TreeType
      /\ w \in Node /\ p \in Node /\ d \in Dir /\ Other(d) \in Dir
  BY SiblingIs, ConstantFacts
<1>2. PICK f : t.child[Other(d)][w] = f
  OBVIOUS
<1>3. f \in Node /\ t.color[p] \in {"red", "black"}
  BY <1>1, <1>2, TreeFields
<1>4. PICK r : r = SetColor(SetColor(t, w, t.color[p]), p, "black")
  OBVIOUS
<1>5. /\ SameLinks(t, r)
      /\ \A q \in Node : r.color[q] = IF q = p THEN "black" ELSE IF q = w THEN t.color[p] ELSE t.color[q]
  BY <1>1, <1>3, <1>4, TwoColors
<1>6. PICK s : s = SetColor(r, f, "black")
  OBVIOUS
<1>7. ColorSet(r, s, f, "black")
  <2>1. r \in TreeType
    BY <1>5 DEF SameLinks
  <2>. QED
    BY <1>3, <1>6, <2>1, SetColorIs
<1>8. /\ SameLinks(t, s)
      /\ \A q \in Node : s.color[q] = IF q = f THEN "black" ELSE IF q = p THEN "black"
                                      ELSE IF q = w THEN t.color[p] ELSE t.color[q]
  BY <1>5, <1>7 DEF ColorSet, SameLinks
<1>9. u = rotate(s, d, p)
  BY <1>1, <1>2, <1>4, <1>6 DEF FarNephew
<1>. QED
  BY <1>2, <1>8, <1>9, FarNephewTurns

\* In the loop nothing but the missing black node is wrong.
LEMMA DeleteFamily ==
    ASSUME NEW t, NEW B, NEW H, NEW x, DeleteInv(t, B, H, x), x # t.root, t.color[x] = "black"
    PROVE  \E p, w, d : Deleting(t, B, H, x, p, w, d)
<1>1. PICK p : p = t.parent[x]
  OBVIOUS
<1>2. PICK d \in Dir : p \in B[t.root] /\ t.child[d][p] = x /\ Heights(t, H, p, d)
  BY <1>1 DEF DeleteInv
<1>3. PICK w : w = t.child[Other(d)][p]
  OBVIOUS
<1>4. \A n \in Key : \A e \in Dir : ~ RedPair(t, n, e)
  BY DEF DeleteInv, RedPair
<1>5. Tree(t, B) /\ t \in TreeType /\ t.root \in Node
  BY TreeFields DEF DeleteInv, Tree
<1>6. t.color[t.root] = "black"
  BY <1>5, TreeFields DEF DeleteInv
<1>7. Deleting(t, B, H, x, p, w, d)
  BY <1>1, <1>2, <1>3, <1>4, <1>5, <1>6 DEF Deleting
<1>. QED
  BY <1>7

\* A turn that rotates is the last one: x becomes the root or comes to a red
\* parent.  The others go one node up.
DeleteTurnClimbs(t, x) ==
    LET r == DeleteTurn(t, x)
    IN  r.x # r.t.root /\ r.t.color[r.x] = "black"
            => SameLinks(t, r.t) /\ r.x = t.parent[x] /\ r.x \in Key

LEMMA DeleteTurnKeeps ==
    ASSUME NEW t, NEW B, NEW H, NEW x, DeleteInv(t, B, H, x), x # t.root, t.color[x] = "black"
    PROVE  /\ \E C, G : /\ DeleteInv(DeleteTurn(t, x).t, C, G, DeleteTurn(t, x).x)
                        /\ C[DeleteTurn(t, x).t.root] = B[t.root]
           /\ DeleteTurnClimbs(t, x)
<1>1. PICK p, w0, d : Deleting(t, B, H, x, p, w0, d)
  BY DeleteFamily
<1>2. /\ d = Side(t, t.parent[x], x) /\ p \in B[t.root]
  BY <1>1, SiblingIs
<1>3. PICK t1 : t1 = RedSibling(t, x, d)
  OBVIOUS
<1>4. PICK C1, H1, w : /\ Deleting(t1, C1, H1, x, p, w, d) /\ C1[t1.root] = B[t.root]
                       /\ t1.color[w] = "black"
  BY <1>1, <1>3, RedSiblingKeeps
<1>8. t1 = t \/ t1.color[p] = "red"
  BY <1>1, <1>3, RedSiblingKeeps
<1>5. t1.parent[x] = p /\ t1.child[Other(d)][p] = w
  BY <1>4, SiblingIs
<1>6. CASE \A e \in Dir : t1.color[t1.child[e][w]] = "black"
  <2>1. DeleteTurn(t, x) = [t |-> SetColor(t1, w, "red"), x |-> p]
    BY <1>2, <1>3, <1>5, <1>6 DEF DeleteTurn, Up
  <2>2. DeleteTurn(t, x).t = SetColor(t1, w, "red") /\ DeleteTurn(t, x).x = p
    BY <2>1
  <2>3. PICK u : u = SetColor(t1, w, "red")
    OBVIOUS
  <2>4. /\ SameLinks(t1, u) /\ u.color[p] = t1.color[p]
        /\ \E G : DeleteInv(u, C1, G, p)
    BY <1>4, <1>6, <2>3, MovesUp
  <2>5. DeleteTurnClimbs(t, x)
    <3>1. t.parent[x] = p /\ p \in Key
      BY <1>1, SiblingIs
    <3>. QED
      BY <1>8, <2>2, <2>3, <2>4, <3>1 DEF DeleteTurnClimbs
  <2>. QED
    BY <1>4, <2>2, <2>3, <2>4, <2>5 DEF SameLinks
<1>7. CASE ~ \A e \in Dir : t1.color[t1.child[e][w]] = "black"
  <2>1. PICK t2 : t2 = NearNephew(t1, x, d)
    OBVIOUS
  <2>2. PICK C2, H2, v : /\ Deleting(t2, C2, H2, x, p, v, d) /\ C2[t2.root] = C1[t1.root]
                         /\ t2.color[v] = "black" /\ t2.color[t2.child[Other(d)][v]] = "red"
    BY <1>4, <1>7, <2>1, NearNephewKeeps
  <2>3. PICK u : u = FarNephew(t2, x, d)
    OBVIOUS
  <2>4. PICK C, G : Resolved(u, C, G) /\ C[u.root] = C2[t2.root]
    BY <2>2, <2>3, FarNephewKeeps
  <2>5. DeleteTurn(t, x) = [t |-> u, x |-> u.root]
    BY <1>2, <1>3, <1>5, <1>7, <2>1, <2>3 DEF DeleteTurn
  <2>6. DeleteTurn(t, x).t = u /\ DeleteTurn(t, x).x = u.root
    BY <2>5
  <2>7. C[u.root] = B[t.root]
    BY <1>4, <2>2, <2>4
  <2>8. u.root # nil
    BY <1>2, <2>4, <2>7 DEF Resolved, Tree
  <2>9. u.parent[u.root] = nil
    BY <2>4, <2>8 DEF Resolved, Tree
  <2>10. DeleteInv(u, C, G, u.root)
    BY <2>4, <2>9 DEF Resolved, DeleteInv
  <2>11. DeleteTurnClimbs(t, x)
    BY <2>6 DEF DeleteTurnClimbs
  <2>. QED
    BY <2>6, <2>7, <2>10, <2>11
<1>. QED
  BY <1>6, <1>7
-----------------------------------------------------------------------------
(***************************************************************************)
(* The recursive functions of the model.                                   *)
(***************************************************************************)
\* The side of n on which k belongs.
Toward(k, n) == IF k < n THEN "left" ELSE "right"

LEMMA TowardIs ==
    ASSUME NEW k \in Key, NEW n \in Key, k # n
    PROVE  /\ Toward(k, n) \in Dir /\ Before(Toward(k, n), k, n)
           /\ \A e \in Dir : Before(e, k, n) => e = Toward(k, n)
BY ConstantFacts DEF Toward, Before, Dir

\* What is below a node on k's way down.
LEMMA WayDown ==
    ASSUME NEW t, NEW B, Tree(t, B), NEW k \in Key, NEW n \in Key, k # n
    PROVE  k \in B[n] <=> k \in B[t.child[Toward(k, n)][n]]
BY TowardIs DEF Tree

\* The search finds the key if it is in the tree.
LEMMA SearchIs ==
    ASSUME NEW B, Tree(T, B), NEW k \in Key
    PROVE  rbtree_search(k) = IF k \in B[T.root] THEN k ELSE nil
<1>. DEFINE W == [n \in Node |-> IF k \in B[n] THEN k ELSE nil]
            from == CHOOSE f : f = [n \in Node |->
                        IF n = nil \/ n = k THEN n ELSE f[T.child[Toward(k, n)][n]]]
<1>1. \A n \in Key : \A e \in Dir : T.child[e][n] \in Node
  BY TreeFields, ConstantFacts DEF Tree
<1>2. ASSUME NEW n \in Node
      PROVE  W[n] = IF n = nil \/ n = k THEN n ELSE W[T.child[Toward(k, n)][n]]
  <2>1. CASE n = nil
    BY <2>1 DEF Tree
  <2>2. CASE n = k
    BY <2>2 DEF Tree
  <2>3. CASE n # nil /\ n # k
    <3>1. n \in Key
      BY <2>3, ConstantFacts
    <3>2. T.child[Toward(k, n)][n] \in Node
      BY <1>1, <2>3, <3>1, TowardIs
    <3>. QED
      BY <2>3, <3>1, <3>2, WayDown
  <2>. QED
    BY <2>1, <2>2, <2>3
<1>3. W = [n \in Node |-> IF n = nil \/ n = k THEN n ELSE W[T.child[Toward(k, n)][n]]]
  BY <1>2
<1>. HIDE DEF W
<1>4. from = [n \in Node |-> IF n = nil \/ n = k THEN n ELSE from[T.child[Toward(k, n)][n]]]
  BY <1>3
<1>5. rbtree_search(k) = from[T.root]
  BY DEF rbtree_search, Toward
<1>. HIDE DEF from
<1>6. \A n \in Node : from[n] = IF n = nil \/ n = k THEN n ELSE from[T.child[Toward(k, n)][n]]
  BY <1>4
<1>. DEFINE Wrong == {n \in Key : from[n] # W[n]}
<1>7. Wrong = {}
  <2>. SUFFICES ASSUME Wrong # {} PROVE FALSE
    OBVIOUS
  <2>1. PICK n \in Wrong : \A e \in Dir : T.child[e][n] \notin Wrong
    BY LowestExists
  <2>2. n \in Key /\ n \in Node /\ n # nil
    BY <2>1, ConstantFacts
  <2>3. n # k
    BY <1>2, <1>6, <2>1, <2>2
  <2>4. PICK c : c = T.child[Toward(k, n)][n]
    OBVIOUS
  <2>5. c \in Node /\ c \notin Wrong
    BY <1>1, <2>1, <2>2, <2>3, <2>4, TowardIs
  <2>6. from[n] = from[c] /\ W[n] = W[c]
    BY <1>2, <1>6, <2>2, <2>3, <2>4
  <2>7. c = nil => from[c] = W[c]
    BY <1>2, <1>6, <2>5
  <2>. QED
    BY <2>1, <2>5, <2>6, <2>7, ConstantFacts
<1>8. from[nil] = nil /\ W[nil] = nil /\ T.root \in Node
  BY <1>2, <1>6, TreeFields, ConstantFacts DEF Tree
<1>9. from[T.root] = W[T.root]
  BY <1>7, <1>8, ConstantFacts
<1>. QED
  BY <1>5, <1>8, <1>9 DEF W

\* y has an empty link for k, and every node above it below n sends k there.
Slot(t, B, k, n) ==
    {y \in B[n] : /\ t.child[Toward(k, y)][y] = nil
                  /\ \A m \in B[n] : m # y /\ y \in B[m] => y \in B[t.child[Toward(k, m)][m]]}

LEMMA SlotsBelow ==
    ASSUME NEW t, NEW B, Tree(t, B), NEW k \in Key, NEW n \in Key, k \notin B[n],
           NEW c, c = t.child[Toward(k, n)][n]
    PROVE  /\ c \in Node
           /\ c = nil => Slot(t, B, k, n) = {n}
           /\ c # nil => c \in Key /\ k \notin B[c] /\ Slot(t, B, k, n) = Slot(t, B, k, c)
<1>1. n \in B[n] /\ k # n /\ B[n] \subseteq Key
  BY ConstantFacts DEF Tree
<1>2. PICK d : d = Toward(k, n)
  OBVIOUS
<1>3. d \in Dir /\ Other(d) \in Dir
  BY <1>1, <1>2, TowardIs, Sides
<1>4. PICK o : o = t.child[Other(d)][n]
  OBVIOUS
<1>5. /\ c \in Node /\ B[c] \subseteq B[n] /\ n \notin B[c]
      /\ c # nil => c \in Key /\ c \in B[n]
      /\ B[o] \cap B[c] = {}
  BY <1>2, <1>3, <1>4, Children
<1>6. o \in Node /\ B[o] \subseteq B[n]
  BY <1>3, <1>4, Children
<1>7. \A m \in Key : m \in B[n] <=> m = n \/ m \in B[c] \/ m \in B[o]
  BY <1>2, <1>3, <1>4, Sides DEF Tree
<1>8. \A y \in Slot(t, B, k, n) : y # n => y \in B[c]
  BY <1>1, <1>2 DEF Slot
<1>9. ASSUME c = nil PROVE Slot(t, B, k, n) = {n}
  <2>1. \A y \in Slot(t, B, k, n) : y = n
    BY <1>8, <1>9 DEF Tree
  <2>2. \A m \in B[n] : m # n => n \notin B[m]
    BY BelowBelow
  <2>3. n \in Slot(t, B, k, n)
    BY <1>1, <1>9, <2>2 DEF Slot
  <2>. QED
    BY <2>1, <2>3
<1>10. ASSUME c # nil PROVE Slot(t, B, k, n) = Slot(t, B, k, c)
  <2>1. ASSUME NEW y \in Slot(t, B, k, n) PROVE y \in Slot(t, B, k, c)
    <3>1. y # n
      BY <1>10 DEF Slot
    <3>. QED
      BY <1>5, <1>8, <3>1 DEF Slot
  <2>2. ASSUME NEW y \in Slot(t, B, k, c) PROVE y \in Slot(t, B, k, n)
    <3>1. y \in B[c] /\ y \in B[n] /\ y \in Key
      BY <1>1, <1>5 DEF Slot
    <3>2. ASSUME NEW m \in B[n], m # y, y \in B[m] PROVE y \in B[t.child[Toward(k, m)][m]]
      <4>1. CASE m = n
        BY <1>2, <3>1, <4>1
      <4>2. CASE m \in B[c]
        BY <3>2, <4>2 DEF Slot
      <4>3. CASE m \in B[o]
        <5>1. o \in Key
          BY <1>6, <4>3, ConstantFacts DEF Tree
        <5>2. y \in B[o]
          BY <3>2, <4>3, <5>1, BelowBelow
        <5>. QED
          BY <1>5, <3>1, <5>2
      <4>. QED
        BY <1>1, <1>7, <4>1, <4>2, <4>3
    <3>. QED
      BY <3>1, <3>2 DEF Slot
  <2>. QED
    BY <2>1, <2>2
<1>. QED
  BY <1>5, <1>9, <1>10

\* The search for k that rbtree_insert makes ends at such a node.
LEMMA InsertBelowIs ==
    ASSUME NEW B, Tree(T, B), NEW k \in Key, k \notin B[T.root]
    PROVE  /\ T.root = nil => InsertBelow(k) = nil
           /\ T.root # nil => InsertBelow(k) \in Slot(T, B, k, T.root)
<1>. DEFINE W == [n \in Node |-> IF n \in {nil, k} THEN n
                                 ELSE CHOOSE y : y \in Slot(T, B, k, n)]
            from == CHOOSE f : f = [n \in Node |->
                        IF T.child[Toward(k, n)][n] = nil THEN n
                        ELSE f[T.child[Toward(k, n)][n]]]
<1>1. T \in TreeType /\ T.root \in Node /\ \A n : Toward(k, n) \in Dir
  BY TreeFields DEF Tree, Toward, Dir
<1>2. T.child[Toward(k, nil)][nil] = nil /\ T.child[Toward(k, k)][k] = nil
  BY <1>1 DEF Tree
<1>3. \A n \in Key \ {k} : k \notin B[n]
  <2>. SUFFICES ASSUME NEW n \in Key, n # k, k \in B[n] PROVE FALSE
    OBVIOUS
  <2>1. CASE n \in B[T.root]
    <3>1. T.root \in Key
      BY <1>1, <2>1, ConstantFacts DEF Tree
    <3>. QED
      BY <2>1, <3>1, BelowBelow
  <2>2. CASE n \notin B[T.root]
    BY <2>2 DEF Tree
  <2>. QED
    BY <2>1, <2>2
<1>4. ASSUME NEW n \in Node, NEW c, c = T.child[Toward(k, n)][n]
      PROVE  /\ c \in Node
             /\ n \in {nil, k} => c = nil
             /\ n \notin {nil, k} /\ c = nil => Slot(T, B, k, n) = {n}
             /\ n \notin {nil, k} /\ c # nil => c \in Key \ {k} /\ Slot(T, B, k, n) = Slot(T, B, k, c)
  <2>1. CASE n \in {nil, k}
    BY <1>2, <1>4, <2>1, ConstantFacts
  <2>2. CASE n \notin {nil, k}
    <3>1. n \in Key /\ k \notin B[n]
      BY <1>3, <2>2, ConstantFacts
    <3>2. /\ c \in Node /\ (c = nil => Slot(T, B, k, n) = {n})
          /\ c # nil => c \in Key /\ k \notin B[c] /\ Slot(T, B, k, n) = Slot(T, B, k, c)
      BY <1>4, <3>1, SlotsBelow
    <3>3. k \in B[k]
      BY DEF Tree
    <3>. QED
      BY <2>2, <3>2, <3>3
  <2>. QED
    BY <2>1, <2>2
<1>5. ASSUME NEW n \in Node
      PROVE  W[n] = IF T.child[Toward(k, n)][n] = nil THEN n ELSE W[T.child[Toward(k, n)][n]]
  <2>1. PICK c : c = T.child[Toward(k, n)][n]
    OBVIOUS
  <2>2. CASE n \in {nil, k}
    BY <1>4, <2>1, <2>2
  <2>3. CASE n \notin {nil, k} /\ c = nil
    <3>1. Slot(T, B, k, n) = {n}
      BY <1>4, <2>1, <2>3
    <3>2. (CHOOSE y : y \in Slot(T, B, k, n)) = n
      BY <3>1
    <3>. QED
      BY <2>1, <2>3, <3>2
  <2>4. CASE n \notin {nil, k} /\ c # nil
    <3>1. c \in Node /\ c \in Key \ {k} /\ Slot(T, B, k, n) = Slot(T, B, k, c)
      BY <1>4, <2>1, <2>4
    <3>2. W[n] = CHOOSE y : y \in Slot(T, B, k, n)
      BY <2>4
    <3>3. W[c] = CHOOSE y : y \in Slot(T, B, k, c)
      BY <2>4, <3>1
    <3>4. W[n] = W[c]
      BY <3>1, <3>2, <3>3
    <3>. QED
      BY <2>1, <2>4, <3>4
  <2>. QED
    BY <2>2, <2>3, <2>4
<1>6. W = [n \in Node |-> IF T.child[Toward(k, n)][n] = nil THEN n ELSE W[T.child[Toward(k, n)][n]]]
  <2>1. W = [n \in Node |-> W[n]]
    OBVIOUS
  <2>. HIDE DEF W
  <2>. QED
    BY <1>5, <2>1
<1>. HIDE DEF W
<1>7. from = [n \in Node |-> IF T.child[Toward(k, n)][n] = nil THEN n
                             ELSE from[T.child[Toward(k, n)][n]]]
  BY <1>6
<1>8. InsertBelow(k) = IF T.root = nil THEN nil ELSE from[T.root]
  BY DEF InsertBelow, Toward
<1>. HIDE DEF from
<1>9. \A n \in Node : from[n] = IF T.child[Toward(k, n)][n] = nil THEN n
                                ELSE from[T.child[Toward(k, n)][n]]
  BY <1>7
<1>. DEFINE Wrong == {n \in Key \ {k} : from[n] \notin Slot(T, B, k, n)}
<1>10. Wrong = {}
  <2>. SUFFICES ASSUME Wrong # {} PROVE FALSE
    OBVIOUS
  <2>1. PICK n \in Wrong : \A e \in Dir : T.child[e][n] \notin Wrong
    BY LowestExists
  <2>2. n \in Key /\ n \in Node /\ n \notin {nil, k}
    BY <2>1, ConstantFacts
  <2>3. PICK c : c = T.child[Toward(k, n)][n]
    OBVIOUS
  <2>4. CASE c = nil
    <3>1. Slot(T, B, k, n) = {n}
      BY <1>4, <2>2, <2>3, <2>4
    <3>2. from[n] = n
      BY <1>9, <2>2, <2>3, <2>4
    <3>. QED
      BY <2>1, <3>1, <3>2
  <2>5. CASE c # nil
    <3>1. c \in Key \ {k} /\ Slot(T, B, k, n) = Slot(T, B, k, c)
      BY <1>4, <2>2, <2>3, <2>5
    <3>2. from[n] = from[c]
      BY <1>9, <2>2, <2>3, <2>5
    <3>3. c \notin Wrong
      BY <1>1, <2>1, <2>3
    <3>. QED
      BY <2>1, <3>1, <3>2, <3>3
  <2>. QED
    BY <2>4, <2>5
<1>11. T.root # nil => T.root \in Key \ {k}
  BY <1>1, ConstantFacts DEF Tree
<1>. QED
  BY <1>8, <1>10, <1>11
-----------------------------------------------------------------------------
(***************************************************************************)
(* rbtree_insert before its fixup.                                         *)
(***************************************************************************)
\* k becomes a red leaf below y, or the root when y is nil.
Grown(t, u, k, y) ==
    /\ u \in TreeType
    /\ u.root = IF y = nil THEN k ELSE t.root
    /\ \A m \in Node : /\ u.parent[m] = IF m = k THEN y ELSE t.parent[m]
                       /\ u.color[m] = IF m = k THEN "red" ELSE t.color[m]
    /\ \A e \in Dir : \A m \in Node :
         u.child[e][m] = IF m = k THEN nil
                         ELSE IF y # nil /\ m = y /\ e = Toward(k, y) THEN k
                         ELSE t.child[e][m]

\* Where k belongs.
Place(t, B, k, y) ==
    /\ t.root = nil => y = nil
    /\ t.root # nil => y \in Slot(t, B, k, t.root)

LEMMA AttachedIs ==
    ASSUME T \in TreeType, NEW k \in Key, NEW y \in Node, y # k, InsertBelow(k) = y
    PROVE  Grown(T, Attached(k), k, y)
<1>1. PICK t1 : t1 = [T EXCEPT !.parent[k] = y, !.color[k] = "red",
                               !.child["left"][k] = nil, !.child["right"][k] = nil]
  OBVIOUS
<1>2. /\ t1 \in TreeType /\ t1.root = T.root
      /\ \A m \in Node : /\ t1.parent[m] = IF m = k THEN y ELSE T.parent[m]
                         /\ t1.color[m] = IF m = k THEN "red" ELSE T.color[m]
      /\ \A e \in Dir : \A m \in Node :
           t1.child[e][m] = IF m = k THEN nil ELSE T.child[e][m]
  <2>1. k \in Node /\ nil \in Node
    BY ConstantFacts
  <2>2. t1 \in TreeType /\ t1.root = T.root
    BY <1>1, <2>1 DEF TreeType, Dir
  <2>3. \A m \in Node : /\ t1.parent[m] = IF m = k THEN y ELSE T.parent[m]
                        /\ t1.color[m] = IF m = k THEN "red" ELSE T.color[m]
    BY <1>1, <2>1 DEF TreeType, Dir
  <2>4. \A m \in Node : /\ t1.child["left"][m] = IF m = k THEN nil ELSE T.child["left"][m]
                        /\ t1.child["right"][m] = IF m = k THEN nil ELSE T.child["right"][m]
    BY <1>1, <2>1 DEF TreeType, Dir
  <2>. QED
    BY <2>2, <2>3, <2>4 DEF Dir
<1>3. Attached(k) = IF y = nil THEN [t1 EXCEPT !.root = k] ELSE SetChild(t1, Toward(k, y), y, k)
  BY <1>1 DEF Attached, Toward
<1>4. CASE y = nil
  <2>1. Attached(k) = [t1 EXCEPT !.root = k]
    BY <1>3, <1>4
  <2>2. /\ Attached(k) \in TreeType /\ Attached(k).root = k
        /\ Attached(k).parent = t1.parent /\ Attached(k).color = t1.color
        /\ Attached(k).child = t1.child
    BY <1>2, <2>1, ConstantFacts DEF TreeType
  <2>. QED
    BY <1>2, <1>4, <2>2 DEF Grown
<1>5. CASE y # nil
  <2>1. Attached(k) = SetChild(t1, Toward(k, y), y, k)
    BY <1>3, <1>5
  <2>2. Toward(k, y) \in Dir /\ k \in Node
    BY ConstantFacts DEF Toward, Dir
  <2>3. ChildSet(t1, Attached(k), Toward(k, y), y, k)
    BY <1>2, <2>1, <2>2, SetChildIs
  <2>. QED
    BY <1>2, <1>5, <2>3 DEF Grown, ChildSet
<1>. QED
  BY <1>4, <1>5

\* What is not in the tree is below no other node and nobody's child.
LEMMA NotBelow ==
    ASSUME NEW t, NEW B, Tree(t, B), NEW k \in Key, k \notin B[t.root]
    PROVE  /\ \A n \in Key \ {k} : k \notin B[n]
           /\ \A n \in Key : \A e \in Dir : t.child[e][n] # k
           /\ B[k] = {k}
<1>1. \A n \in Key \ {k} : k \notin B[n]
  <2>. SUFFICES ASSUME NEW n \in Key, n # k, k \in B[n] PROVE FALSE
    OBVIOUS
  <2>1. CASE n \in B[t.root]
    <3>1. t.root \in Key
      BY <2>1, TreeFields, ConstantFacts DEF Tree
    <3>. QED
      BY <2>1, <3>1, BelowBelow
  <2>2. CASE n \notin B[t.root]
    BY <2>2 DEF Tree
  <2>. QED
    BY <2>1, <2>2
<1>2. \A m \in Key : m \in B[k] <=> m = k
  BY DEF Tree
<1>3. B[k] = {k}
  BY <1>2, ConstantFacts DEF Tree
<1>4. ASSUME NEW n \in Key, NEW e \in Dir, t.child[e][n] = k PROVE FALSE
  <2>1. k \in B[n] /\ n # k
    BY <1>4, Children, ConstantFacts
  <2>. QED
    BY <1>1, <2>1
<1>. QED
  BY <1>1, <1>3, <1>4

LEMMA GrownKeepsTree ==
    ASSUME NEW t, NEW B, Tree(t, B), NEW k \in Key, k \notin B[t.root], NEW y, Place(t, B, k, y),
           NEW u, Grown(t, u, k, y)
    PROVE  \E C : Tree(u, C) /\ C[u.root] = B[t.root] \cup {k}
<1>. DEFINE C == [n \in Node |-> IF y \in B[n] THEN B[n] \cup {k} ELSE B[n]]
<1>1. /\ t \in TreeType /\ u \in TreeType /\ t.root \in Node /\ k \in Node /\ k # nil
      /\ nil \in Node /\ B \in [Node -> SUBSET Key] /\ B[nil] = {}
      /\ \A e \in Dir : \A n \in Node : t.child[e][n] \in Node
  BY TreeFields, ConstantFacts DEF Tree, Grown
<1>2. /\ \A n \in Key \ {k} : k \notin B[n]
      /\ \A n \in Key : \A e \in Dir : t.child[e][n] # k
      /\ B[k] = {k}
  BY NotBelow
<1>3. y # nil => /\ y \in Key /\ y \in B[t.root] /\ t.child[Toward(k, y)][y] = nil
                 /\ \A m \in B[t.root] : m # y /\ y \in B[m] => y \in B[t.child[Toward(k, m)][m]]
  BY <1>1 DEF Place, Slot
<1>4. y = nil => t.root = nil
  BY <1>1, ConstantFacts DEF Place, Slot
<1>5. y # k /\ y \in Node
  BY <1>1, <1>3, ConstantFacts
<1>6. Toward(k, y) \in Dir
  BY DEF Toward, Dir
<1>7. C \in [Node -> SUBSET Key] /\ C[nil] = {} /\ C[k] = {k}
  BY <1>1, <1>2, <1>5
<1>8. \A n \in Node : \A m \in Key : m \in C[n] <=> m \in B[n] \/ (m = k /\ y \in B[n])
  BY <1>1
<1>9. \A e \in Dir : \A n \in Key \ {k, y} : u.child[e][n] = t.child[e][n]
  BY ConstantFacts DEF Grown
<1>10. \A e \in Dir : u.child[e][k] = nil
  BY <1>1 DEF Grown
<1>11. ASSUME y # nil
       PROVE  /\ u.child[Toward(k, y)][y] = k
              /\ u.child[Other(Toward(k, y))][y] = t.child[Other(Toward(k, y))][y]
  BY <1>5, <1>6, <1>11, Sides DEF Grown
<1>. HIDE DEF C
<1>12. ASSUME NEW n \in Key, NEW m \in Key
       PROVE  m \in C[n] <=> m = n \/ \E e \in Dir : m \in C[u.child[e][n]]
  <2>0. m \in B[n] <=> m = n \/ \E e \in Dir : m \in B[t.child[e][n]]
    BY DEF Tree
  <2>1. CASE n = k
    BY <1>7, <1>10, <2>1
  <2>2. CASE n = y
    <3>0. y # nil
      BY <2>2, ConstantFacts
    <3>1. PICK o : o = t.child[Other(Toward(k, y))][y]
      OBVIOUS
    <3>2. u.child[Toward(k, y)][y] = k /\ u.child[Other(Toward(k, y))][y] = o
      BY <1>11, <3>0, <3>1
    <3>3. o \in Node /\ y \notin B[o] /\ y \in B[y] /\ Other(Toward(k, y)) \in Dir
      BY <1>6, <2>2, <3>1, Children, Sides
    <3>4. m \in B[y] <=> m = y \/ m \in B[o]
      <4>1. t.child[Toward(k, y)][y] = nil
        BY <1>3, <3>0
      <4>. QED
        BY <1>1, <1>6, <2>0, <2>2, <3>1, <4>1, Sides
    <3>5. m \in C[o] <=> m \in B[o]
      BY <1>8, <3>3
    <3>6. m \in C[y] <=> m \in B[y] \/ m = k
      BY <1>5, <1>8, <3>3
    <3>7. (\E e \in Dir : m \in C[u.child[e][y]]) <=> m = k \/ m \in C[o]
      BY <1>6, <1>7, <3>2, <3>3, Sides
    <3>. QED
      BY <2>2, <3>4, <3>5, <3>6, <3>7
  <2>3. CASE n # k /\ n # y
    <3>1. \A e \in Dir : u.child[e][n] = t.child[e][n] /\ t.child[e][n] \in Node
      BY <1>1, <1>9, <2>3, ConstantFacts
    <3>2. y \in B[n] <=> \E e \in Dir : y \in B[t.child[e][n]]
      <4>1. CASE y = nil
        BY <1>1, <3>1, <4>1, ConstantFacts
      <4>2. CASE y # nil
        BY <1>3, <2>3, <4>2 DEF Tree
      <4>. QED
        BY <4>1, <4>2
    <3>3. n \in Node
      BY ConstantFacts
    <3>4. m \in C[n] <=> m \in B[n] \/ (m = k /\ y \in B[n])
      BY <1>8, <3>3
    <3>5. \A e \in Dir : m \in C[t.child[e][n]] <=>
                           m \in B[t.child[e][n]] \/ (m = k /\ y \in B[t.child[e][n]])
      BY <1>8, <3>1
    <3>. QED
      BY <2>0, <2>3, <3>1, <3>2, <3>4, <3>5
  <2>. QED
    BY <2>1, <2>2, <2>3
<1>13. ASSUME NEW n \in Key, NEW e \in Dir, NEW m \in C[u.child[e][n]]
       PROVE  Before(e, m, n)
  <2>0. \A q \in B[t.child[e][n]] : Before(e, q, n)
    BY DEF Tree
  <2>1. CASE n = k
    BY <1>7, <1>10, <2>1
  <2>2. CASE n = y /\ e = Toward(k, y)
    <3>1. u.child[e][n] = k
      BY <1>11, <2>2, ConstantFacts
    <3>2. m = k
      BY <1>7, <3>1
    <3>. QED
      BY <1>5, <2>2, <3>2, TowardIs
  <2>3. CASE n = y /\ e # Toward(k, y)
    <3>1. e = Other(Toward(k, y))
      BY <1>6, <2>3, Sides
    <3>2. u.child[e][n] = t.child[e][n]
      BY <1>11, <2>3, <3>1, ConstantFacts
    <3>3. t.child[e][n] \in Node /\ y \notin B[t.child[e][n]]
      BY <2>3, Children
    <3>4. m \in Key
      BY <1>7, <3>2, <3>3
    <3>5. m \in B[t.child[e][n]]
      BY <1>8, <3>2, <3>3, <3>4
    <3>. QED
      BY <2>0, <3>5
  <2>4. CASE n # k /\ n # y
    <3>1. PICK c : c = t.child[e][n]
      OBVIOUS
    <3>2. c \in Node /\ u.child[e][n] = c /\ n \in Node
      BY <1>1, <1>9, <2>4, <3>1, ConstantFacts
    <3>3. m \in Key
      BY <1>7, <3>2
    <3>4. CASE m \in B[c]
      BY <2>0, <3>1, <3>4
    <3>5. CASE m = k /\ y \in B[c]
      <4>1. y # nil
        BY <1>1, <3>2, <3>5, ConstantFacts
      <4>2. y \in B[n]
        BY <3>1, <3>5, Children
      <4>3. n \in B[t.root]
        <5>1. c # nil
          BY <1>1, <3>5
        <5>. QED
          BY <3>1, <5>1 DEF Tree
      <4>4. y \in B[t.child[Toward(k, n)][n]]
        BY <1>3, <2>4, <4>1, <4>2, <4>3
      <4>5. Toward(k, n) \in Dir /\ Before(Toward(k, n), k, n)
        BY <2>4, TowardIs
      <4>6. e = Toward(k, n)
        <5>1. B[t.child[Other(e)][n]] \cap B[c] = {}
          BY <3>1, Children
        <5>2. e # Toward(k, n) => Toward(k, n) = Other(e)
          BY <4>5, Sides
        <5>. QED
          BY <3>5, <4>4, <5>1, <5>2
      <4>. QED
        BY <3>5, <4>5, <4>6
    <3>. QED
      BY <1>8, <3>2, <3>3, <3>4, <3>5
  <2>. QED
    BY <2>1, <2>2, <2>3, <2>4
<1>14. \A e \in Dir : u.child[e][nil] = nil
  BY <1>1 DEF Grown, Tree
<1>15. ASSUME NEW n \in Key, NEW e \in Dir, u.child[e][n] # nil
       PROVE  u.parent[u.child[e][n]] = n
  <2>1. CASE u.child[e][n] = k
    <3>1. n = y
      BY <1>2, <1>9, <1>10, <2>1, <1>1
    <3>. QED
      BY <1>1, <2>1, <3>1 DEF Grown
  <2>2. CASE u.child[e][n] # k
    <3>1. u.child[e][n] = t.child[e][n] /\ t.child[e][n] \in Node
      BY <1>1, <1>15, <2>2, ConstantFacts DEF Grown
    <3>2. t.parent[t.child[e][n]] = n
      BY <1>15, <3>1 DEF Tree
    <3>. QED
      BY <2>2, <3>1, <3>2 DEF Grown
  <2>. QED
    BY <2>1, <2>2
<1>16. C[u.root] = B[t.root] \cup {k}
  <2>1. CASE y = nil
    BY <1>1, <1>4, <1>7, <2>1 DEF Grown
  <2>2. CASE y # nil
    BY <1>1, <1>3, <2>2 DEF Grown, C
  <2>. QED
    BY <2>1, <2>2
<1>17. u.root # nil => u.parent[u.root] = nil
  <2>1. CASE y = nil
    BY <1>1, <2>1 DEF Grown
  <2>2. CASE y # nil
    <3>1. u.root = t.root /\ t.root # k /\ t.root # nil
      <4>1. t.root # k
        BY <1>2
      <4>2. t.root # nil
        BY <1>1, <1>3, <2>2
      <4>. QED
        BY <2>2, <4>1, <4>2 DEF Grown
    <3>2. t.parent[t.root] = nil
      BY <3>1 DEF Tree
    <3>. QED
      BY <1>1, <3>1, <3>2 DEF Grown
  <2>. QED
    BY <2>1, <2>2
<1>18. ASSUME NEW n \in Key, n \notin C[u.root], NEW e \in Dir
       PROVE  u.child[e][n] = nil
  <2>1. n # k /\ n # y /\ n \notin B[t.root]
    BY <1>3, <1>16, <1>18, ConstantFacts
  <2>2. t.child[e][n] = nil
    BY <2>1 DEF Tree
  <2>. QED
    BY <1>9, <2>1, <2>2
<1>19. Tree(u, C)
  BY <1>1, <1>7, <1>12, <1>13, <1>14, <1>15, <1>17, <1>18 DEF Tree
<1>. QED
  BY <1>16, <1>19

\* The new leaf is red: no black height changes, and only it may clash.
LEMMA AttachedKeeps ==
    ASSUME NEW B, NEW H, Resolved(T, B, H), NEW k \in Key, k \notin B[T.root]
    PROVE  \E C, G : /\ Inserting(Attached(k), C, G, k)
                     /\ C[Attached(k).root] = B[T.root] \cup {k}
<1>1. Tree(T, B) /\ T \in TreeType /\ T.root \in Node /\ k \in Node /\ nil \in Node /\ k # nil
  BY TreeFields, ConstantFacts DEF Resolved, Tree
<1>2. PICK y : y = InsertBelow(k)
  OBVIOUS
<1>3. Place(T, B, k, y)
  BY <1>1, <1>2, InsertBelowIs DEF Place
<1>4. y \in Node /\ y # k /\ (y = nil <=> T.root = nil)
      /\ (y # nil => T.child[Toward(k, y)][y] = nil)
  <2>1. T.root # nil => y \in B[T.root] /\ B[T.root] \subseteq Key /\ T.child[Toward(k, y)][y] = nil
    BY <1>1, <1>3 DEF Place, Slot, Tree
  <2>. QED
    BY <1>3, <2>1, ConstantFacts DEF Place
<1>5. PICK u : u = Attached(k)
  OBVIOUS
<1>6. Grown(T, u, k, y)
  BY <1>1, <1>2, <1>4, <1>5, AttachedIs
<1>7. PICK C : Tree(u, C) /\ C[u.root] = B[T.root] \cup {k}
  BY <1>1, <1>3, <1>6, GrownKeepsTree
<1>8. \A n \in Key : \A e \in Dir : T.child[e][n] # k /\ T.child[e][n] \in Node
  BY <1>1, NotBelow, TreeFields, ConstantFacts
<1>9. PICK G : G = [H EXCEPT ![k] = 0]
  OBVIOUS
<1>10. H \in [Node -> Nat] /\ H[nil] = 0 /\ T.color[nil] = "black" /\ T.color[T.root] = "black"
  BY DEF Resolved, Heights
<1>11. G \in [Node -> Nat] /\ G[k] = 0 /\ \A n \in Node \ {k} : G[n] = H[n]
  BY <1>1, <1>9, <1>10
<1>12. u.color[k] = "red" /\ \A n \in Node \ {k} : u.color[n] = T.color[n]
  BY <1>1, <1>6 DEF Grown
<1>13. \A e \in Dir : u.child[e][k] = nil
  BY <1>1, <1>6 DEF Grown
<1>14. ASSUME NEW n \in Key \ {k}, NEW e \in Dir
       PROVE  \/ u.child[e][n] = T.child[e][n]
              \/ u.child[e][n] = k /\ T.child[e][n] = nil
  BY <1>4, <1>6, ConstantFacts DEF Grown
<1>15. ASSUME NEW n \in Key PROVE Balanced(u, G, nil, "left", n)
  <2>1. \A e : Extra(n, e, nil, "left") = 0
    BY ConstantFacts DEF Extra
  <2>2. CASE n = k
    <3>1. Black(u, k) = 0
      BY <1>12 DEF Black
    <3>2. G[nil] = 0 /\ G[k] = 0
      BY <1>1, <1>10, <1>11
    <3>. QED
      BY <1>13, <2>1, <2>2, <3>1, <3>2 DEF Balanced
  <2>3. CASE n # k
    <3>1. Balanced(T, H, nil, "left", n)
      BY DEF Resolved, Heights
    <3>2. Black(u, n) = Black(T, n) /\ G[n] = H[n]
      BY <1>11, <1>12, <2>3, ConstantFacts DEF Black
    <3>3. ASSUME NEW e \in Dir PROVE G[u.child[e][n]] = H[T.child[e][n]]
      <4>1. T.child[e][n] \in Node /\ T.child[e][n] # k
        BY <1>8
      <4>. QED
        BY <1>10, <1>11, <1>14, <2>3, <4>1
    <3>. QED
      BY <3>1, <3>2, <3>3 DEF Balanced
  <2>. QED
    BY <2>2, <2>3
<1>16. Heights(u, G, nil, "left")
  BY <1>1, <1>10, <1>11, <1>12, <1>15 DEF Heights
<1>17. ASSUME NEW n \in Key, NEW e \in Dir, RedPair(u, n, e) PROVE u.child[e][n] = k
  <2>1. CASE n = k
    BY <1>1, <1>10, <1>12, <1>13, <1>17, <2>1 DEF RedPair
  <2>2. CASE n # k /\ u.child[e][n] # k
    <3>1. u.child[e][n] = T.child[e][n] /\ T.child[e][n] \in Node \ {k} /\ n \in Node \ {k}
      BY <1>8, <1>14, <2>2, ConstantFacts
    <3>2. RedPair(T, n, e)
      BY <1>12, <1>17, <3>1 DEF RedPair
    <3>. QED
      BY <3>2 DEF Resolved
  <2>. QED
    BY <2>1, <2>2
<1>18. u.color[u.root] = "red" => u.root = k
  BY <1>1, <1>4, <1>6, <1>10, <1>12 DEF Grown
<1>19. k \in C[u.root]
  BY <1>7
<1>. QED
  BY <1>5, <1>7, <1>12, <1>16, <1>17, <1>18, <1>19 DEF Inserting
-----------------------------------------------------------------------------
(***************************************************************************)
(* rbtree_delete before its fixup.                                         *)
(***************************************************************************)
\* The node below n that has no left child and no smaller node.
Leftmost(t, B, n) == {y \in B[n] : t.child["left"][y] = nil /\ \A m \in B[n] : m = y \/ y < m}

LEMMA LeftmostBelow ==
    ASSUME NEW t, NEW B, Tree(t, B), NEW n \in Key, NEW c, c = t.child["left"][n]
    PROVE  /\ c \in Node
           /\ c = nil => Leftmost(t, B, n) = {n}
           /\ c # nil => c \in Key /\ Leftmost(t, B, n) = Leftmost(t, B, c)
<1>1. "left" \in Dir /\ "right" \in Dir /\ Other("left") = "right"
  BY DEF Dir, Other
<1>2. PICK o : o = t.child["right"][n]
  OBVIOUS
<1>3. /\ c \in Node /\ n \in B[n] /\ B[c] \subseteq B[n] /\ n \notin B[c] /\ o \in Node
      /\ c # nil => c \in Key /\ c \in B[c]
  BY <1>1, <1>2, Children
<1>4. /\ \A m \in Key : m \in B[n] <=> m = n \/ m \in B[c] \/ m \in B[o]
      /\ \A m \in B[c] : m < n
      /\ \A m \in B[o] : n < m
      /\ B[n] \subseteq Key /\ B[nil] = {}
  <2>1. \A m \in B[c] : Before("left", m, n)
    BY <1>1 DEF Tree
  <2>2. \A m \in B[o] : Before("right", m, n)
    BY <1>1, <1>2 DEF Tree
  <2>3. \A m \in Key : m \in B[n] <=> m = n \/ m \in B[c] \/ m \in B[o]
    BY <1>2 DEF Tree, Dir
  <2>4. B[n] \subseteq Key /\ B[nil] = {}
    BY ConstantFacts DEF Tree
  <2>. QED
    BY <2>1, <2>2, <2>3, <2>4 DEF Before
<1>5. ASSUME c = nil PROVE Leftmost(t, B, n) = {n}
  <2>1. \A m \in B[n] : m = n \/ n < m
    BY <1>4, <1>5
  <2>2. \A y \in B[n] : y # n => ~ (y < n)
    <3>. SUFFICES ASSUME NEW y \in B[n], y # n, y < n PROVE FALSE
      OBVIOUS
    <3>1. n < y /\ n \in Int /\ y \in Int
      BY <1>4, <2>1, ConstantFacts
    <3>. QED
      BY <3>1
  <2>. QED
    BY <1>3, <1>5, <2>1, <2>2 DEF Leftmost
<1>6. ASSUME c # nil PROVE Leftmost(t, B, n) = Leftmost(t, B, c)
  <2>1. c \in B[c] /\ c < n /\ c \in Int /\ n \in Int
    BY <1>3, <1>4, <1>6, ConstantFacts
  <2>2. ASSUME NEW y \in Leftmost(t, B, n) PROVE y \in Leftmost(t, B, c)
    <3>1. y \in B[n] /\ y \in Int /\ (c = y \/ y < c)
      BY <1>3, <1>4, <2>1, ConstantFacts DEF Leftmost
    <3>2. y < n
      BY <2>1, <3>1
    <3>3. y # n /\ ~ (n < y)
      BY <2>1, <3>1, <3>2
    <3>4. y \in B[c]
      BY <1>4, <3>1, <3>3
    <3>. QED
      BY <1>3, <3>4 DEF Leftmost
  <2>3. ASSUME NEW y \in Leftmost(t, B, c) PROVE y \in Leftmost(t, B, n)
    <3>1. y \in B[c] /\ y \in B[n] /\ y < n /\ y \in Int
      BY <1>3, <1>4, ConstantFacts DEF Leftmost
    <3>2. ASSUME NEW m \in B[n] PROVE m = y \/ y < m
      <4>1. CASE m = n
        BY <3>1, <4>1
      <4>2. CASE m \in B[c]
        BY <4>2 DEF Leftmost
      <4>3. CASE m \in B[o]
        <5>1. n < m /\ m \in Int
          BY <1>4, <4>3, ConstantFacts
        <5>. QED
          BY <2>1, <3>1, <5>1
      <4>. QED
        BY <1>4, <4>1, <4>2, <4>3
    <3>. QED
      BY <3>1, <3>2 DEF Leftmost
  <2>. QED
    BY <2>2, <2>3
<1>. QED
  BY <1>3, <1>5, <1>6

\* The node that is unlinked: z itself, or the least node right of it.
LEMMA UnlinkedIs ==
    ASSUME NEW B, Tree(T, B), NEW z \in Key
    PROVE  \/ Unlinked(z) = z /\ \E d \in Dir : T.child[d][z] = nil
           \/ Unlinked(z) \in Leftmost(T, B, T.child["right"][z])
<1>. DEFINE W == [n \in Node |-> IF n = nil THEN n
                                 ELSE CHOOSE y : y \in Leftmost(T, B, n)]
            mini == CHOOSE f : f = [n \in Node |->
                        IF T.child["left"][n] = nil THEN n ELSE f[T.child["left"][n]]]
<1>1. T \in TreeType /\ T.child["left"][nil] = nil /\ T.child["right"][z] \in Node
  BY TreeFields, ConstantFacts DEF Tree, Dir
<1>2. ASSUME NEW n \in Node
      PROVE  W[n] = IF T.child["left"][n] = nil THEN n ELSE W[T.child["left"][n]]
  <2>1. PICK c : c = T.child["left"][n]
    OBVIOUS
  <2>2. CASE n = nil
    BY <1>1, <2>2
  <2>3. CASE n # nil
    <3>1. n \in Key
      BY <2>3, ConstantFacts
    <3>2. /\ c \in Node
          /\ c = nil => Leftmost(T, B, n) = {n}
          /\ c # nil => c \in Key /\ Leftmost(T, B, n) = Leftmost(T, B, c)
      BY <2>1, <3>1, LeftmostBelow
    <3>3. W[n] = CHOOSE y : y \in Leftmost(T, B, n)
      BY <2>3
    <3>4. c # nil => W[c] = CHOOSE y : y \in Leftmost(T, B, c)
      BY <3>2
    <3>5. c = nil => (CHOOSE y : y \in Leftmost(T, B, n)) = n
      BY <3>2
    <3>. HIDE DEF W
    <3>6. c # nil => W[n] = W[c]
      BY <3>2, <3>3, <3>4
    <3>. QED
      BY <2>1, <3>3, <3>5, <3>6
  <2>. QED
    BY <2>2, <2>3
<1>3. W = [n \in Node |-> IF T.child["left"][n] = nil THEN n ELSE W[T.child["left"][n]]]
  <2>1. W = [n \in Node |-> W[n]]
    OBVIOUS
  <2>. HIDE DEF W
  <2>. QED
    BY <1>2, <2>1
<1>. HIDE DEF W
<1>4. mini = [n \in Node |-> IF T.child["left"][n] = nil THEN n ELSE mini[T.child["left"][n]]]
  BY <1>3
<1>5. Unlinked(z) = IF \E d \in Dir : T.child[d][z] = nil THEN z ELSE mini[T.child["right"][z]]
  BY DEF Unlinked
<1>. HIDE DEF mini
<1>6. \A n \in Node : mini[n] = IF T.child["left"][n] = nil THEN n ELSE mini[T.child["left"][n]]
  BY <1>4
<1>. DEFINE Wrong == {n \in Key : mini[n] \notin Leftmost(T, B, n)}
<1>7. Wrong = {}
  <2>. SUFFICES ASSUME Wrong # {} PROVE FALSE
    OBVIOUS
  <2>1. PICK n \in Wrong : \A e \in Dir : T.child[e][n] \notin Wrong
    BY LowestExists
  <2>2. PICK c : c = T.child["left"][n]
    OBVIOUS
  <2>3. /\ c = nil => Leftmost(T, B, n) = {n}
        /\ c # nil => c \in Key /\ Leftmost(T, B, n) = Leftmost(T, B, c)
    BY <2>1, <2>2, LeftmostBelow
  <2>4. mini[n] = IF c = nil THEN n ELSE mini[c]
    BY <1>6, <2>1, <2>2, ConstantFacts
  <2>5. c \notin Wrong
    BY <2>1, <2>2 DEF Dir
  <2>. QED
    BY <2>1, <2>3, <2>4, <2>5
<1>8. CASE \E d \in Dir : T.child[d][z] = nil
  BY <1>5, <1>8
<1>9. CASE ~ \E d \in Dir : T.child[d][z] = nil
  <2>1. T.child["right"][z] \in Key /\ Unlinked(z) = mini[T.child["right"][z]]
    BY <1>1, <1>5, <1>9, ConstantFacts DEF Dir
  <2>. QED
    BY <1>7, <2>1
<1>. QED
  BY <1>8, <1>9

\* y, with x its only child or nil, is taken out from below p.
Pruned(t, u, y, x, p, d) ==
    /\ u \in TreeType
    /\ u.root = IF p = nil THEN x ELSE t.root
    /\ \A m \in Node : /\ u.parent[m] = IF m = y THEN NULL ELSE IF m = x THEN p ELSE t.parent[m]
                       /\ u.color[m] = IF m = y THEN "black" ELSE t.color[m]
    /\ \A e \in Dir : \A m \in Node :
         u.child[e][m] = IF m = y THEN nil
                         ELSE IF p # nil /\ m = p /\ e = d THEN x ELSE t.child[e][m]

\* z and y exchange their names.
Swap(n, z, y) == IF n = z THEN y ELSE IF n = y THEN z ELSE n

Swapped(t, u, z, y) ==
    /\ u \in TreeType
    /\ u.root = Swap(t.root, z, y)
    /\ \A n \in Node : /\ t.parent[n] # y =>
                            u.parent[Swap(n, z, y)] = Swap(t.parent[n], z, y)
                       /\ u.color[Swap(n, z, y)] = t.color[n]
    /\ \A e \in Dir : \A n \in Node :
         u.child[e][Swap(n, z, y)] = Swap(t.child[e][n], z, y)

LEMMA SwapIs ==
    ASSUME NEW z \in Key, NEW y \in Key
    PROVE  /\ \A n \in Node : Swap(n, z, y) \in Node
           /\ \A n \in Key : Swap(n, z, y) \in Key
           /\ \A n : Swap(Swap(n, z, y), z, y) = n
           /\ Swap(nil, z, y) = nil /\ Swap(z, z, y) = y /\ Swap(y, z, y) = z
BY ConstantFacts DEF Swap

\* Clearing a name, and giving z the name of a node that is not linked.
LEMMA RenamedClears ==
    ASSUME NEW t \in TreeType, NEW y \in Key, NEW u, u = Renamed(t, y, y)
    PROVE  /\ u \in TreeType /\ u.root = t.root
           /\ \A m \in Node : /\ u.parent[m] = IF m = y THEN NULL ELSE t.parent[m]
                              /\ u.color[m] = IF m = y THEN "black" ELSE t.color[m]
           /\ \A e \in Dir : \A m \in Node :
                u.child[e][m] = IF m = y THEN nil ELSE t.child[e][m]
<1>1. u = [root   |-> t.root,
           child  |-> [d \in Dir |-> [n \in Node |-> IF n = y THEN nil ELSE t.child[d][n]]],
           parent |-> [n \in Node |-> IF n = y THEN NULL ELSE t.parent[n]],
           color  |-> [n \in Node |-> IF n = y THEN "black" ELSE t.color[n]]]
  BY DEF Renamed
<1>2. /\ u.root = t.root
      /\ u.child = [d \in Dir |-> [n \in Node |-> IF n = y THEN nil ELSE t.child[d][n]]]
      /\ u.parent = [n \in Node |-> IF n = y THEN NULL ELSE t.parent[n]]
      /\ u.color = [n \in Node |-> IF n = y THEN "black" ELSE t.color[n]]
  BY <1>1
<1>3. u \in TreeType
  <2>1. u.root \in Node /\ u.child \in [Dir -> [Node -> Node]]
    <3>1. \A d \in Dir : [n \in Node |-> IF n = y THEN nil ELSE t.child[d][n]] \in [Node -> Node]
      BY TreeFields, ConstantFacts
    <3>. QED
      BY <1>2, <3>1, TreeFields
  <2>2. u.parent \in [Node -> Node \cup {NULL}] /\ u.color \in [Node -> {"red", "black"}]
    BY <1>2, TreeFields
  <2>. QED
    BY <1>1, <1>2, <2>1, <2>2 DEF TreeType
<1>. QED
  BY <1>2, <1>3

LEMMA RenamedSwaps ==
    ASSUME NEW t \in TreeType, NEW z \in Key, NEW y \in Key, z # y, t.root # y,
           \A e \in Dir : \A n \in Node \ {y} : t.child[e][n] # y
    PROVE  Swapped(Renamed(t, y, y), Renamed(t, z, y), z, y)
<1>. DEFINE new(n) == IF n = z THEN y ELSE n
            old(n) == IF n = y THEN z ELSE n
<1>1. PICK u : u = Renamed(t, z, y)
  OBVIOUS
<1>2. u = [root   |-> new(t.root),
           child  |-> [d \in Dir |-> [n \in Node |-> IF n = z THEN nil ELSE new(t.child[d][old(n)])]],
           parent |-> [n \in Node |-> IF n = z THEN NULL ELSE new(t.parent[old(n)])],
           color  |-> [n \in Node |-> IF n = z THEN "black" ELSE t.color[old(n)]]]
  BY <1>1 DEF Renamed
<1>3. /\ u.root = new(t.root)
      /\ u.child = [d \in Dir |-> [n \in Node |-> IF n = z THEN nil ELSE new(t.child[d][old(n)])]]
      /\ u.parent = [n \in Node |-> IF n = z THEN NULL ELSE new(t.parent[old(n)])]
      /\ u.color = [n \in Node |-> IF n = z THEN "black" ELSE t.color[old(n)]]
  BY <1>2
<1>4. /\ \A n \in Node : old(n) \in Node /\ new(n) \in Node
      /\ new(NULL) = NULL
  BY ConstantFacts
<1>5. u \in TreeType
  <2>1. u.root \in Node
    BY <1>3, TreeFields, ConstantFacts
  <2>2. u.child \in [Dir -> [Node -> Node]]
    <3>1. \A d \in Dir : \A n \in Node : new(t.child[d][old(n)]) \in Node
      BY <1>4, TreeFields
    <3>. HIDE DEF new, old
    <3>2. \A d \in Dir :
            [n \in Node |-> IF n = z THEN nil ELSE new(t.child[d][old(n)])] \in [Node -> Node]
      BY <3>1, ConstantFacts
    <3>. QED
      BY <1>3, <3>2
  <2>3. u.parent \in [Node -> Node \cup {NULL}]
    <3>1. \A n \in Node : new(t.parent[old(n)]) \in Node \cup {NULL}
      BY <1>4, TreeFields
    <3>. HIDE DEF new, old
    <3>. QED
      BY <1>3, <3>1
  <2>4. u.color \in [Node -> {"red", "black"}]
    <3>1. \A n \in Node : t.color[old(n)] \in {"red", "black"}
      BY <1>4, TreeFields
    <3>. HIDE DEF new, old
    <3>. QED
      BY <1>3, <3>1
  <2>. QED
    BY <1>2, <1>3, <2>1, <2>2, <2>3, <2>4 DEF TreeType
<1>6. PICK s : s = Renamed(t, y, y)
  OBVIOUS
<1>7. /\ s.root = t.root
      /\ \A m \in Node : /\ s.parent[m] = IF m = y THEN NULL ELSE t.parent[m]
                         /\ s.color[m] = IF m = y THEN "black" ELSE t.color[m]
      /\ \A e \in Dir : \A m \in Node :
           s.child[e][m] = IF m = y THEN nil ELSE t.child[e][m]
  BY <1>6, RenamedClears
<1>8. u.root = Swap(s.root, z, y)
  BY <1>3, <1>7 DEF Swap
<1>9. z \in Node /\ y \in Node /\ nil \notin {z, y} /\ NULL \notin {z, y}
  BY ConstantFacts
<1>10. ASSUME NEW n \in Node
       PROVE  /\ s.parent[n] # y => u.parent[Swap(n, z, y)] = Swap(s.parent[n], z, y)
              /\ u.color[Swap(n, z, y)] = s.color[n]
              /\ \A e \in Dir : u.child[e][Swap(n, z, y)] = Swap(s.child[e][n], z, y)
  <2>1. CASE n = y
    <3>1. Swap(n, z, y) = z
      BY <2>1 DEF Swap
    <3>2. u.parent[z] = NULL /\ u.color[z] = "black" /\ \A e \in Dir : u.child[e][z] = nil
      BY <1>3, <1>9
    <3>. QED
      BY <1>7, <1>9, <2>1, <3>1, <3>2 DEF Swap
  <2>2. CASE n # y
    <3>1. Swap(n, z, y) \in Node \ {z} /\ old(Swap(n, z, y)) = n
      BY <1>9, <2>2 DEF Swap
    <3>2. PICK m : m = Swap(n, z, y)
      OBVIOUS
    <3>3. /\ u.parent[m] = new(t.parent[n]) /\ u.color[m] = t.color[n]
          /\ \A e \in Dir : u.child[e][m] = new(t.child[e][n])
      BY <1>3, <3>1, <3>2
    <3>4. \A e \in Dir : t.child[e][n] # y
      BY <2>2
    <3>5. \A q : q # y => new(q) = Swap(q, z, y)
      BY DEF Swap
    <3>. HIDE DEF new, old
    <3>. QED
      BY <1>7, <2>2, <3>2, <3>3, <3>4, <3>5
  <2>. QED
    BY <2>1, <2>2
<1>. QED
  BY <1>1, <1>5, <1>6, <1>8, <1>10 DEF Swapped

\* y is in the tree below p on the side d, and x is its only child, or nil.
Prunable(t, B, y, x, p, d, f) ==
    /\ Tree(t, B) /\ y \in B[t.root] /\ d \in Dir /\ f \in Dir
    /\ t.child[f][y] = x /\ t.child[Other(f)][y] = nil
    /\ t.parent[y] = p
    /\ p = nil => t.root = y
    /\ p # nil => p \in B[t.root] /\ t.child[d][p] = y /\ t.root # y

LEMMA PrunableFacts ==
    ASSUME NEW t, NEW B, NEW y, NEW x, NEW p, NEW d, NEW f, Prunable(t, B, y, x, p, d, f)
    PROVE  /\ Tree(t, B) /\ t \in TreeType /\ t.root \in Key /\ d \in Dir
           /\ y \in Key /\ x \in Node /\ p \in Node /\ x # y /\ p # y
           /\ B[y] = B[x] \cup {y} /\ y \notin B[x]
           /\ x # nil => t.parent[x] = y
           /\ t.parent[y] = p
           /\ \A n \in Key : \A e \in Dir : t.child[e][n] = y <=> n = p /\ e = d
           /\ \A n \in Key : \A e \in Dir : t.child[e][n] = x /\ x # nil => n = y
<1>1. /\ Tree(t, B) /\ t \in TreeType /\ d \in Dir /\ f \in Dir /\ Other(f) \in Dir
      /\ t.parent[y] = p /\ t.child[f][y] = x /\ t.child[Other(f)][y] = nil
  BY Sides DEF Prunable, Tree
<1>2. y \in Key /\ t.root \in Key
  BY <1>1, ParentOf DEF Prunable
<1>3. p \in Node
  <2>1. B[t.root] \subseteq Key
    BY <1>1, <1>2, ConstantFacts DEF Tree
  <2>2. p = nil \/ p \in B[t.root]
    BY DEF Prunable
  <2>. QED
    BY <2>1, <2>2, ConstantFacts
<1>4. x \in Node /\ x # y /\ y \notin B[x] /\ (x # nil => t.parent[x] = y)
  BY <1>1, <1>2, Children
<1>5. B[y] = B[x] \cup {y}
  <2>1. \A m \in Key : m \in B[y] <=> m = y \/ m \in B[x]
    <3>1. B[t.child[Other(f)][y]] = {} /\ B[t.child[f][y]] = B[x]
      BY <1>1 DEF Tree
    <3>2. \A m \in Key : m \in B[y] <=> m = y \/ \E e \in Dir : m \in B[t.child[e][y]]
      BY <1>1, <1>2 DEF Tree
    <3>. QED
      BY <1>1, <3>1, <3>2, Sides
  <2>2. B[y] \subseteq Key /\ B[x] \subseteq Key
    BY <1>1, <1>2, <1>4, ConstantFacts DEF Tree
  <2>. QED
    BY <1>2, <2>1, <2>2
<1>6. \A n \in Key : \A e \in Dir : t.child[e][n] # nil => t.parent[t.child[e][n]] = n
  BY <1>1 DEF Tree
<1>7. ASSUME NEW n \in Key, NEW e \in Dir, t.child[e][n] = y PROVE n = p /\ e = d
  <2>1. t.parent[y] = n
    BY <1>2, <1>6, <1>7, ConstantFacts
  <2>2. n = p /\ p # nil
    BY <1>1, <2>1, ConstantFacts
  <2>3. t.child[d][p] = y
    BY <2>2 DEF Prunable
  <2>4. e = d
    <3>1. y # t.child[Other(e)][n]
      BY <1>1, <1>2, <1>7, Children, ConstantFacts
    <3>2. d = e \/ d = Other(e)
      BY <1>1, Sides
    <3>. QED
      BY <2>2, <2>3, <3>1, <3>2
  <2>. QED
    BY <2>2, <2>4
<1>8. ASSUME NEW n \in Key, NEW e \in Dir, n = p, e = d PROVE t.child[e][n] = y
  BY <1>8, ConstantFacts DEF Prunable
<1>9. p # y
  <2>1. CASE p = nil
    BY <1>2, <2>1, ConstantFacts
  <2>2. CASE p # nil
    <3>1. p \in Key /\ t.child[d][p] = y
      BY <1>3, <2>2, ConstantFacts DEF Prunable
    <3>. QED
      BY <1>1, <3>1, Children
  <2>. QED
    BY <2>1, <2>2
<1>10. ASSUME NEW n \in Key, NEW e \in Dir, t.child[e][n] = x, x # nil PROVE n = y
  BY <1>4, <1>6, <1>10
<1>. QED
  BY <1>1, <1>2, <1>3, <1>4, <1>5, <1>7, <1>8, <1>9, <1>10

LEMMA PrunedKeepsTree ==
    ASSUME NEW t, NEW B, NEW y, NEW x, NEW p, NEW d, NEW f, Prunable(t, B, y, x, p, d, f),
           NEW u, Pruned(t, u, y, x, p, d)
    PROVE  \E C : /\ Tree(u, C) /\ C[u.root] = B[t.root] \ {y}
                  /\ \A n \in Node \ {y} : C[n] = B[n] \ {y}
<1>. DEFINE C == [n \in Node |-> IF n = y THEN {y} ELSE B[n] \ {y}]
<1>1. /\ Tree(t, B) /\ t \in TreeType /\ t.root \in Key /\ d \in Dir
      /\ y \in Key /\ x \in Node /\ p \in Node /\ x # y /\ p # y
      /\ B[y] = B[x] \cup {y} /\ y \notin B[x]
  BY PrunableFacts
<1>2. /\ x # nil => t.parent[x] = y
      /\ t.parent[y] = p
      /\ \A n \in Key : \A e \in Dir : t.child[e][n] = y <=> n = p /\ e = d
      /\ \A n \in Key : \A e \in Dir : t.child[e][n] = x /\ x # nil => n = y
  BY PrunableFacts
<1>3. B \in [Node -> SUBSET Key] /\ B[nil] = {} /\ nil \in Node /\ y \in Node /\ y # nil
      /\ u \in TreeType
  BY <1>1, ConstantFacts DEF Tree, Pruned
<1>4. C \in [Node -> SUBSET Key] /\ C[nil] = {} /\ C[y] = {y} /\ C[x] = B[x]
      /\ \A n \in Node \ {y} : C[n] = B[n] \ {y}
  BY <1>1, <1>3
<1>. HIDE DEF C
<1>5. \A e \in Dir : u.child[e][y] = nil
  BY <1>3 DEF Pruned
<1>6. ASSUME NEW n \in Key \ {y}, NEW e \in Dir
      PROVE  /\ u.child[e][n] \in Node \ {y}
             /\ t.child[e][n] = y => u.child[e][n] = x
             /\ t.child[e][n] # y => u.child[e][n] = t.child[e][n]
             /\ t.child[e][n] \in Node
  <2>1. t.child[e][n] \in Node
    BY <1>1, TreeFields, ConstantFacts
  <2>2. CASE t.child[e][n] = y
    <3>1. n = p /\ e = d /\ p # nil
      BY <1>2, <2>2, ConstantFacts
    <3>2. u.child[e][n] = x
      BY <1>1, <3>1 DEF Pruned
    <3>. QED
      BY <1>1, <2>1, <2>2, <3>2
  <2>3. CASE t.child[e][n] # y
    <3>1. ~ (n = p /\ e = d)
      BY <1>2, <2>3
    <3>2. u.child[e][n] = t.child[e][n]
      BY <3>1, ConstantFacts DEF Pruned
    <3>. QED
      BY <2>1, <2>3, <3>2
  <2>. QED
    BY <2>2, <2>3
<1>7. ASSUME NEW n \in Key \ {y}, NEW e \in Dir
      PROVE  C[u.child[e][n]] = B[t.child[e][n]] \ {y}
  <2>1. CASE t.child[e][n] = y
    <3>1. C[u.child[e][n]] = B[x]
      BY <1>4, <1>6, <2>1
    <3>. QED
      BY <1>1, <2>1, <3>1
  <2>2. CASE t.child[e][n] # y
    <3>1. u.child[e][n] = t.child[e][n] /\ t.child[e][n] \in Node \ {y}
      BY <1>6, <2>2
    <3>. QED
      BY <1>4, <3>1
  <2>. QED
    BY <2>1, <2>2
<1>8. ASSUME NEW n \in Key, NEW m \in Key
      PROVE  m \in C[n] <=> m = n \/ \E e \in Dir : m \in C[u.child[e][n]]
  <2>1. CASE n = y
    BY <1>4, <1>5, <2>1
  <2>2. CASE n # y
    <3>1. m \in B[n] <=> m = n \/ \E e \in Dir : m \in B[t.child[e][n]]
      BY <1>1 DEF Tree
    <3>2. m \in C[n] <=> m \in B[n] /\ m # y
      BY <1>4, <2>2, ConstantFacts
    <3>3. \A e \in Dir : m \in C[u.child[e][n]] <=> m \in B[t.child[e][n]] /\ m # y
      BY <1>7, <2>2
    <3>. QED
      BY <2>2, <3>1, <3>2, <3>3
  <2>. QED
    BY <2>1, <2>2
<1>9. ASSUME NEW n \in Key, NEW e \in Dir, NEW m \in C[u.child[e][n]]
      PROVE  Before(e, m, n)
  <2>1. n # y
    BY <1>4, <1>5
  <2>2. m \in B[t.child[e][n]]
    BY <1>7, <2>1
  <2>. QED
    BY <1>1, <2>2 DEF Tree
<1>10. \A e \in Dir : u.child[e][nil] = nil
  <2>1. \A e \in Dir : t.child[e][nil] = nil
    BY <1>1 DEF Tree
  <2>. QED
    BY <1>3, <2>1 DEF Pruned
<1>11. ASSUME NEW n \in Key, NEW e \in Dir, u.child[e][n] # nil
       PROVE  u.parent[u.child[e][n]] = n
  <2>1. n # y
    BY <1>5, <1>11
  <2>2. CASE t.child[e][n] = y
    <3>1. n = p /\ u.child[e][n] = x
      BY <1>2, <1>6, <2>1, <2>2
    <3>. QED
      BY <1>1, <3>1 DEF Pruned
  <2>3. CASE t.child[e][n] # y
    <3>1. PICK c : c = t.child[e][n]
      OBVIOUS
    <3>2. u.child[e][n] = c /\ c \in Node /\ c # y /\ c # nil
      BY <1>6, <1>11, <2>1, <2>3, <3>1
    <3>3. c # x
      BY <1>2, <2>1, <3>1, <3>2
    <3>4. t.parent[c] = n
      BY <1>1, <3>1, <3>2 DEF Tree
    <3>. QED
      BY <3>2, <3>3, <3>4 DEF Pruned
  <2>. QED
    BY <2>2, <2>3
<1>12. C[u.root] = B[t.root] \ {y} /\ (u.root # nil => u.parent[u.root] = nil)
  <2>1. CASE p = nil
    <3>1. u.root = x /\ t.root = y /\ u.parent[x] = nil
      BY <1>1, <2>1 DEF Pruned, Prunable
    <3>2. C[x] = B[y] \ {y}
      BY <1>1, <1>4
    <3>. QED
      BY <3>1, <3>2
  <2>2. CASE p # nil
    <3>1. u.root = t.root /\ t.root # y /\ t.root \in Node
      BY <1>1, <2>2, ConstantFacts DEF Pruned, Prunable
    <3>2. t.parent[t.root] = nil
      BY <1>1, ConstantFacts DEF Tree
    <3>3. t.root # x
      BY <1>1, <1>2, <1>3, <3>2, ConstantFacts
    <3>. QED
      BY <1>4, <3>1, <3>2, <3>3 DEF Pruned
  <2>. QED
    BY <2>1, <2>2
<1>13. ASSUME NEW n \in Key, n \notin C[u.root], NEW e \in Dir
       PROVE  u.child[e][n] = nil
  <2>1. CASE n = y
    BY <1>5, <2>1
  <2>2. CASE n # y
    <3>1. n \notin B[t.root]
      BY <1>12, <1>13, <2>2
    <3>2. t.child[e][n] = nil
      BY <1>1, <3>1 DEF Tree
    <3>. QED
      BY <1>3, <1>6, <2>2, <3>2
  <2>. QED
    BY <2>1, <2>2
<1>14. Tree(u, C)
  BY <1>3, <1>4, <1>8, <1>9, <1>10, <1>11, <1>12, <1>13 DEF Tree
<1>. QED
  BY <1>4, <1>12, <1>14

\* A red node leaves a red-black tree; below a black one every way down is
\* one black node short.
LEMMA PrunedKeeps ==
    ASSUME NEW t, NEW B, NEW H, Resolved(t, B, H),
           NEW y, NEW x, NEW p, NEW d, NEW f, Prunable(t, B, y, x, p, d, f),
           NEW u, Pruned(t, u, y, x, p, d)
    PROVE  \E C, G : /\ t.color[y] = "red" => Resolved(u, C, G)
                     /\ t.color[y] = "black" => DeleteInv(u, C, G, x)
                     /\ Tree(u, C) /\ C[u.root] = B[t.root] \ {y}
                     /\ \A n \in Node \ {y} : C[n] = B[n] \ {y}
<1>1. /\ Tree(t, B) /\ t \in TreeType /\ t.root \in Key /\ d \in Dir
      /\ y \in Key /\ x \in Node /\ p \in Node /\ x # y /\ p # y
  BY PrunableFacts
<1>2. \A n \in Key : \A e \in Dir : t.child[e][n] = y <=> n = p /\ e = d
  BY PrunableFacts
<1>3. PICK C : /\ Tree(u, C) /\ C[u.root] = B[t.root] \ {y}
               /\ \A n \in Node \ {y} : C[n] = B[n] \ {y}
  BY PrunedKeepsTree
<1>4. /\ Heights(t, H, nil, "left") /\ H \in [Node -> Nat] /\ H[nil] = 0
      /\ t.color[nil] = "black" /\ t.color[t.root] = "black"
      /\ \A n \in Key : \A e \in Dir : ~ RedPair(t, n, e)
  BY DEF Resolved, Heights
<1>5. PICK G : G = [H EXCEPT ![y] = 1]
  OBVIOUS
<1>6. nil \in Node /\ y \in Node /\ y # nil
  BY <1>1, ConstantFacts
<1>7. G \in [Node -> Nat] /\ G[y] = 1 /\ G[nil] = 0 /\ \A n \in Node \ {y} : G[n] = H[n]
  BY <1>4, <1>5, <1>6
<1>8. u.color[y] = "black" /\ \A n \in Node \ {y} : u.color[n] = t.color[n]
  BY <1>6 DEF Pruned
<1>9. \A e \in Dir : u.child[e][y] = nil
  BY <1>6 DEF Pruned
<1>10. ASSUME NEW n \in Key \ {y}, NEW e \in Dir
       PROVE  /\ t.child[e][n] = y => u.child[e][n] = x /\ n = p /\ e = d
              /\ t.child[e][n] # y => u.child[e][n] = t.child[e][n] /\ ~ (n = p /\ e = d)
              /\ t.child[e][n] \in Node
  <2>1. t.child[e][n] \in Node
    BY <1>1, TreeFields, ConstantFacts
  <2>2. t.child[e][n] = y => n = p /\ e = d /\ p # nil
    BY <1>2, ConstantFacts
  <2>3. t.child[e][n] # y => ~ (n = p /\ e = d)
    BY <1>2
  <2>. QED
    BY <2>1, <2>2, <2>3, ConstantFacts DEF Pruned
<1>11. H[y] = H[x] + Black(t, y) /\ H[x] \in Nat
  <2>1. Balanced(t, H, nil, "left", y) /\ f \in Dir /\ t.child[f][y] = x
    BY <1>1 DEF Resolved, Heights, Prunable
  <2>2. H[y] = H[x] + 0 + Black(t, y)
    <3>1. Extra(y, f, nil, "left") = 0
      BY <1>6 DEF Extra
    <3>. QED
      BY <2>1, <3>1 DEF Balanced
  <2>3. H[x] \in Nat /\ Black(t, y) \in Nat
    BY <1>1, <1>4 DEF Black
  <2>. QED
    BY <2>2, <2>3
<1>12. ASSUME NEW hp, NEW hd, IF t.color[y] = "black" THEN hp = p /\ hd = d ELSE hp = nil
       PROVE  Heights(u, G, hp, hd)
  <2>1. ASSUME NEW n \in Key PROVE Balanced(u, G, hp, hd, n)
    <3>1. CASE n = y
      <4>1. \A e : Extra(y, e, hp, hd) = 0
        BY <1>1, <1>6, <1>12 DEF Extra
      <4>2. Black(u, y) = 1
        BY <1>8 DEF Black
      <4>. QED
        BY <1>7, <1>9, <3>1, <4>1, <4>2 DEF Balanced
    <3>2. CASE n # y
      <4>1. Balanced(t, H, nil, "left", n) /\ Black(u, n) = Black(t, n) /\ G[n] = H[n] /\ n # nil
        BY <1>4, <1>7, <1>8, <3>2, ConstantFacts DEF Heights, Black
      <4>2. ASSUME NEW e \in Dir PROVE H[t.child[e][n]] = G[u.child[e][n]] + Extra(n, e, hp, hd)
        <5>1. CASE t.child[e][n] = y
          <6>1. u.child[e][n] = x /\ n = p /\ e = d
            BY <1>10, <3>2, <5>1
          <6>2. G[x] = H[x]
            BY <1>1, <1>7
          <6>3. Extra(n, e, hp, hd) = Black(t, y)
            BY <1>12, <4>1, <6>1 DEF Extra, Black
          <6>. QED
            BY <1>11, <5>1, <6>1, <6>2, <6>3
        <5>2. CASE t.child[e][n] # y
          <6>1. u.child[e][n] = t.child[e][n] /\ ~ (n = p /\ e = d) /\ t.child[e][n] \in Node
            BY <1>10, <3>2, <5>2
          <6>2. Extra(n, e, hp, hd) = 0
            BY <1>12, <4>1, <6>1 DEF Extra
          <6>3. G[u.child[e][n]] = H[t.child[e][n]] /\ H[t.child[e][n]] \in Nat
            BY <1>4, <1>7, <5>2, <6>1
          <6>. QED
            BY <6>2, <6>3
        <5>. QED
          BY <5>1, <5>2
      <4>3. ASSUME NEW e \in Dir
            PROVE  G[n] = G[u.child[e][n]] + Extra(n, e, hp, hd) + Black(u, n)
        <5>1. H[n] = H[t.child[e][n]] + 0 + Black(t, n)
          <6>1. Extra(n, e, nil, "left") = 0
            BY <4>1 DEF Extra
          <6>. QED
            BY <4>1, <6>1 DEF Balanced
        <5>2. H[t.child[e][n]] \in Nat /\ Black(t, n) \in Nat
          BY <1>4, <1>10, <3>2 DEF Black
        <5>3. H[n] = H[t.child[e][n]] + Black(t, n)
          BY <5>1, <5>2
        <5>. QED
          BY <4>1, <4>2, <5>3
      <4>. QED
        BY <4>3 DEF Balanced
    <3>. QED
      BY <3>1, <3>2
  <2>2. u.color[nil] = "black"
    BY <1>4, <1>6, <1>8
  <2>. QED
    BY <1>7, <2>1, <2>2 DEF Heights
<1>13. ASSUME NEW n \in Key, NEW e \in Dir, RedPair(u, n, e)
       PROVE  u.child[e][n] = x /\ t.color[y] = "black"
  <2>1. n # y
    BY <1>8, <1>13 DEF RedPair
  <2>2. n \in Node \ {y} /\ u.color[n] = t.color[n]
    BY <1>8, <2>1, ConstantFacts
  <2>3. CASE t.child[e][n] = y
    <3>1. u.child[e][n] = x
      BY <1>10, <2>1, <2>3
    <3>2. t.color[y] # "red"
      BY <1>4, <1>13, <2>2, <2>3 DEF RedPair
    <3>3. t.color[y] \in {"red", "black"}
      BY <1>1, <1>6, TreeFields
    <3>. QED
      BY <3>1, <3>2, <3>3
  <2>4. CASE t.child[e][n] # y
    <3>1. u.child[e][n] = t.child[e][n] /\ t.child[e][n] \in Node \ {y}
      BY <1>10, <2>1, <2>4
    <3>2. RedPair(t, n, e)
      BY <1>8, <1>13, <2>2, <3>1 DEF RedPair
    <3>. QED
      BY <1>4, <3>2
  <2>. QED
    BY <2>3, <2>4
<1>14. p # nil => u.root = t.root /\ u.color[u.root] = "black"
  <2>1. p # nil => u.root = t.root /\ t.root # y
    BY DEF Pruned, Prunable
  <2>. QED
    BY <1>1, <1>4, <1>8, <2>1, ConstantFacts
<1>15. p = nil => u.root = x /\ t.root = y
  BY DEF Pruned, Prunable
<1>16. u.parent[x] = p
  BY <1>1 DEF Pruned
<1>17. ASSUME t.color[y] = "red" PROVE Resolved(u, C, G)
  <2>1. Heights(u, G, nil, "left")
    BY <1>12, <1>17
  <2>2. p # nil
    BY <1>4, <1>15, <1>17
  <2>3. \A n \in Key : \A e \in Dir : ~ RedPair(u, n, e)
    BY <1>13, <1>17
  <2>. QED
    BY <1>3, <1>14, <2>1, <2>2, <2>3 DEF Resolved
<1>18. ASSUME t.color[y] = "black" PROVE DeleteInv(u, C, G, x)
  <2>1. \A n \in Key : \A e \in Dir : RedPair(u, n, e) => x \in {n, u.child[e][n]}
    BY <1>13
  <2>2. u.color[u.root] = "red" => x = u.root
    BY <1>14, <1>15
  <2>3. CASE p = nil
    <3>1. Heights(u, G, nil, d)
      BY <1>12, <1>18, <2>3
    <3>2. Heights(u, G, nil, "left")
      <4>1. \A n \in Key : \A e : Extra(n, e, nil, d) = Extra(n, e, nil, "left")
        BY ConstantFacts DEF Extra
      <4>. QED
        BY <3>1, <4>1 DEF Heights, Balanced
    <3>3. x = u.root /\ u.parent[x] = nil
      BY <1>15, <1>16, <2>3
    <3>. QED
      BY <1>3, <2>1, <2>2, <3>2, <3>3 DEF DeleteInv
  <2>4. CASE p # nil
    <3>1. Heights(u, G, p, d)
      BY <1>12, <1>18
    <3>2. p \in C[u.root]
      BY <1>1, <1>3, <2>4 DEF Prunable
    <3>3. u.child[d][p] = x
      <4>1. p \in Key
        BY <1>1, <2>4, ConstantFacts
      <4>. QED
        BY <1>1, <1>2, <1>10, <4>1
    <3>. QED
      BY <1>1, <1>3, <1>16, <2>1, <2>2, <3>1, <3>2, <3>3 DEF DeleteInv
  <2>. QED
    BY <2>3, <2>4
<1>. QED
  BY <1>3, <1>17, <1>18

\* y is not in the tree, and stands to the nodes below and above z as z does.
Exchangeable(t, B, z, y) ==
    /\ Tree(t, B) /\ z \in Key /\ y \in Key /\ z # y /\ y \notin B[t.root]
    /\ \A e \in Dir : \A m \in B[t.child[e][z]] : Before(e, m, y)
    /\ \A e \in Dir : \A n \in Key : z \in B[t.child[e][n]] => Before(e, y, n)

LEMMA SwappedKeepsTree ==
    ASSUME NEW t, NEW B, NEW z, NEW y, Exchangeable(t, B, z, y), NEW u, Swapped(t, u, z, y),
           NEW C, C = [n \in Node |-> {Swap(m, z, y) : m \in B[Swap(n, z, y)]}]
    PROVE  /\ Tree(u, C)
           /\ \A n \in Node : \A m \in Key : m \in C[n] <=> Swap(m, z, y) \in B[Swap(n, z, y)]
<1>1. Tree(t, B) /\ t \in TreeType /\ z \in Key /\ y \in Key /\ z # y /\ y \notin B[t.root]
  BY DEF Exchangeable, Tree
<1>2. /\ \A n \in Key \ {y} : y \notin B[n]
      /\ \A n \in Key : \A e \in Dir : t.child[e][n] # y
      /\ B[y] = {y} /\ \A e \in Dir : t.child[e][y] = nil
  <2>1. \A e \in Dir : t.child[e][y] = nil
    BY <1>1 DEF Tree
  <2>. QED
    BY <1>1, <2>1, NotBelow
<1>3. PICK s : s = [n \in Node |-> Swap(n, z, y)]
  OBVIOUS
<1>4. /\ \A n \in Node : s[n] \in Node /\ s[s[n]] = n /\ s[n] = Swap(n, z, y)
      /\ \A n \in Key : s[n] \in Key /\ n \in Node
      /\ s[nil] = nil /\ s[z] = y /\ s[y] = z /\ nil \in Node /\ z \in Node /\ y \in Node
      /\ \A n \in Node \ {z, y} : s[n] = n
  <2>1. nil \in Node /\ z \in Node /\ y \in Node /\ \A n \in Key : n \in Node
    BY <1>1, ConstantFacts
  <2>2. \A n \in Node : s[n] = Swap(n, z, y)
    BY <1>3
  <2>3. \A n \in Node \ {z, y} : s[n] = n
    BY <2>2 DEF Swap
  <2>. QED
    BY <1>1, <2>1, <2>2, <2>3, SwapIs
<1>5. B \in [Node -> SUBSET Key] /\ B[nil] = {} /\ \A n \in Node : B[n] \subseteq Key
  BY <1>1 DEF Tree
<1>6. ASSUME NEW n \in Node, NEW m \in Key
      PROVE  m \in C[n] <=> s[m] \in B[s[n]]
  <2>1. C[n] = {Swap(q, z, y) : q \in B[s[n]]}
    BY <1>4
  <2>2. s[n] \in Node /\ B[s[n]] \subseteq Key
    BY <1>4, <1>5
  <2>3. \A q \in B[s[n]] : q \in Node /\ Swap(q, z, y) = s[q]
    BY <1>4, <2>2
  <2>4. s[s[m]] = m /\ s[m] \in Node /\ m \in Node
    BY <1>4
  <2>5. ASSUME m \in C[n] PROVE s[m] \in B[s[n]]
    <3>1. PICK q \in B[s[n]] : m = Swap(q, z, y)
      BY <2>1, <2>5
    <3>2. s[m] = q
      BY <1>4, <2>3, <3>1
    <3>. QED
      BY <3>2
  <2>6. ASSUME s[m] \in B[s[n]] PROVE m \in C[n]
    <3>1. Swap(s[m], z, y) = m
      BY <2>3, <2>4, <2>6
    <3>. QED
      BY <2>1, <2>6, <3>1
  <2>. QED
    BY <2>5, <2>6
<1>7. C \in [Node -> SUBSET Key] /\ C[nil] = {}
  <2>1. ASSUME NEW n \in Node PROVE C[n] \subseteq Key
    <3>1. C[n] = {Swap(q, z, y) : q \in B[s[n]]}
      BY <1>4
    <3>2. \A q \in B[s[n]] : q \in Key
      BY <1>4, <1>5
    <3>. QED
      BY <1>1, <3>1, <3>2, SwapIs
  <2>2. C[nil] = {}
    <3>1. C[nil] = {Swap(q, z, y) : q \in B[s[nil]]}
      BY <1>4
    <3>. QED
      BY <1>4, <1>5, <3>1
  <2>3. C = [n \in Node |-> C[n]]
    OBVIOUS
  <2>. QED
    BY <2>1, <2>2, <2>3
<1>8. ASSUME NEW n \in Node, NEW e \in Dir
      PROVE  u.child[e][n] = s[t.child[e][s[n]]] /\ t.child[e][s[n]] \in Node
  <2>1. t.child[e][s[n]] \in Node /\ s[n] \in Node
    BY <1>1, <1>4, TreeFields
  <2>2. u.child[e][Swap(s[n], z, y)] = Swap(t.child[e][s[n]], z, y)
    BY <2>1 DEF Swapped
  <2>. QED
    BY <1>4, <2>1, <2>2
<1>9. ASSUME NEW n \in Key, NEW m \in Key
      PROVE  m \in C[n] <=> m = n \/ \E e \in Dir : m \in C[u.child[e][n]]
  <2>1. s[m] \in Key /\ s[n] \in Key /\ n \in Node /\ m \in Node
    BY <1>4
  <2>2. s[m] \in B[s[n]] <=> s[m] = s[n] \/ \E e \in Dir : s[m] \in B[t.child[e][s[n]]]
    BY <1>1, <2>1 DEF Tree
  <2>3. \A e \in Dir : m \in C[u.child[e][n]] <=> s[m] \in B[t.child[e][s[n]]]
    <3>. TAKE e \in Dir
    <3>1. PICK c : c = t.child[e][s[n]]
      OBVIOUS
    <3>2. u.child[e][n] = s[c] /\ c \in Node /\ s[c] \in Node /\ s[s[c]] = c
      BY <1>4, <1>8, <2>1, <3>1
    <3>. QED
      BY <1>6, <3>1, <3>2
  <2>4. s[m] = s[n] <=> m = n
    BY <1>4, <2>1
  <2>. QED
    BY <1>6, <2>1, <2>2, <2>3, <2>4
<1>10. ASSUME NEW n \in Key, NEW e \in Dir, NEW m \in C[u.child[e][n]]
       PROVE  Before(e, m, n)
  <2>1. PICK c : c = t.child[e][s[n]]
    OBVIOUS
  <2>2. u.child[e][n] = s[c] /\ c \in Node /\ s[c] \in Node /\ s[s[c]] = c /\ s[n] \in Key
    BY <1>4, <1>8, <2>1
  <2>3. m \in Key
    BY <1>7, <2>2
  <2>4. s[m] \in B[c] /\ s[m] \in Key
    BY <1>4, <1>6, <2>2, <2>3
  <2>5. Before(e, s[m], s[n])
    BY <1>1, <2>1, <2>2, <2>4 DEF Tree
  <2>6. s[n] # y
    BY <1>2, <1>5, <2>1, <2>4
  <2>7. s[m] # y
    <3>1. c \in Key /\ c # y
      BY <1>2, <1>5, <2>1, <2>2, <2>4, ConstantFacts
    <3>. QED
      BY <1>2, <2>4, <3>1
  <2>8. m # z /\ n # z
    BY <1>4, <2>6, <2>7
  <2>9. CASE n = y
    <3>1. s[n] = z
      BY <1>4, <2>9
    <3>2. s[m] # z
      BY <2>2, <2>5, <3>1, Order
    <3>3. m # y
      BY <1>4, <3>2
    <3>4. s[m] = m
      BY <1>4, <2>3, <2>8, <3>3
    <3>5. m \in B[t.child[e][z]]
      BY <2>1, <2>4, <3>1, <3>4
    <3>. QED
      BY <2>9, <3>5 DEF Exchangeable
  <2>10. CASE n # y /\ m = y
    <3>1. s[n] = n /\ s[m] = z
      BY <1>4, <2>8, <2>10
    <3>2. z \in B[t.child[e][n]]
      BY <2>1, <2>4, <3>1
    <3>. QED
      BY <2>10, <3>2 DEF Exchangeable
  <2>11. CASE n # y /\ m # y
    <3>1. s[n] = n /\ s[m] = m
      BY <1>4, <2>3, <2>8, <2>11
    <3>. QED
      BY <2>5, <3>1
  <2>. QED
    BY <2>9, <2>10, <2>11
<1>11. \A e \in Dir : u.child[e][nil] = nil
  <2>1. \A e \in Dir : t.child[e][nil] = nil
    BY <1>1 DEF Tree
  <2>. QED
    BY <1>4, <1>8, <2>1
<1>12. ASSUME NEW n \in Key, NEW e \in Dir, u.child[e][n] # nil
       PROVE  u.parent[u.child[e][n]] = n
  <2>1. PICK c : c = t.child[e][s[n]]
    OBVIOUS
  <2>2. u.child[e][n] = s[c] /\ c \in Node /\ s[n] \in Key /\ n \in Node
    BY <1>4, <1>8, <2>1
  <2>3. c # nil
    BY <1>4, <1>12, <2>2
  <2>4. t.parent[c] = s[n]
    BY <1>1, <2>1, <2>2, <2>3 DEF Tree
  <2>5. s[n] # y
    BY <1>2, <2>1, <2>3
  <2>6. u.parent[Swap(c, z, y)] = Swap(s[n], z, y)
    BY <2>2, <2>4, <2>5 DEF Swapped
  <2>. QED
    BY <1>4, <2>2, <2>6
<1>13. u.root # nil => u.parent[u.root] = nil
  <2>1. t.root \in Node /\ u.root = s[t.root]
    BY <1>1, <1>4, TreeFields DEF Swapped
  <2>2. ASSUME u.root # nil PROVE u.parent[u.root] = nil
    <3>1. t.root # nil
      BY <1>4, <2>1, <2>2
    <3>2. t.parent[t.root] = nil /\ nil # y
      BY <1>1, <3>1, ConstantFacts DEF Tree
    <3>3. u.parent[Swap(t.root, z, y)] = Swap(nil, z, y)
      BY <2>1, <3>2 DEF Swapped
    <3>. QED
      BY <1>4, <2>1, <3>3
  <2>. QED
    BY <2>2
<1>14. ASSUME NEW n \in Key, n \notin C[u.root], NEW e \in Dir
       PROVE  u.child[e][n] = nil
  <2>1. t.root \in Node /\ u.root = s[t.root] /\ s[t.root] \in Node /\ s[s[t.root]] = t.root
    BY <1>1, <1>4, TreeFields DEF Swapped
  <2>2. s[n] \notin B[t.root] /\ s[n] \in Key /\ n \in Node
    BY <1>4, <1>6, <1>14, <2>1
  <2>3. t.child[e][s[n]] = nil
    BY <1>1, <2>2 DEF Tree
  <2>. QED
    BY <1>4, <1>8, <2>2, <2>3
<1>15. u \in TreeType
  BY DEF Swapped
<1>16. Tree(u, C)
  BY <1>7, <1>9, <1>10, <1>11, <1>12, <1>13, <1>14, <1>15 DEF Tree
<1>17. \A n \in Node : \A m \in Key : m \in C[n] <=> Swap(m, z, y) \in B[Swap(n, z, y)]
  BY <1>4, <1>6
<1>. QED
  BY <1>16, <1>17

HeightsSwapped(H, z, y) == [n \in Node |-> H[Swap(n, z, y)]]

ColorsSwapped(t, u, H, G, z, y) ==
    /\ \A n \in Key : \A e \in Dir :
         RedPair(u, n, e) => /\ Swap(n, z, y) \in Key /\ RedPair(t, Swap(n, z, y), e)
                             /\ t.child[e][Swap(n, z, y)] = Swap(u.child[e][n], z, y)
    /\ u.color[u.root] = t.color[t.root]
    /\ \A hp, hd : Heights(t, H, hp, hd) => Heights(u, G, Swap(hp, z, y), hd)

LEMMA SwappedKeepsColors ==
    ASSUME NEW t, NEW u, NEW z \in Key, NEW y \in Key, t \in TreeType, Swapped(t, u, z, y),
           NEW H, NEW G, G = HeightsSwapped(H, z, y)
    PROVE  ColorsSwapped(t, u, H, G, z, y)
<1>1. /\ \A n \in Node : Swap(n, z, y) \in Node
      /\ \A n \in Key : Swap(n, z, y) \in Key /\ n \in Node
      /\ \A n : Swap(Swap(n, z, y), z, y) = n
      /\ Swap(nil, z, y) = nil /\ nil \in Node
  BY SwapIs, ConstantFacts
<1>2. \A n \in Node : u.color[n] = t.color[Swap(n, z, y)]
  <2>. TAKE n \in Node
  <2>1. u.color[Swap(Swap(n, z, y), z, y)] = t.color[Swap(n, z, y)]
    BY <1>1 DEF Swapped
  <2>. QED
    BY <1>1, <2>1
<1>3. ASSUME NEW n \in Node, NEW e \in Dir
      PROVE  /\ u.child[e][n] = Swap(t.child[e][Swap(n, z, y)], z, y)
             /\ t.child[e][Swap(n, z, y)] = Swap(u.child[e][n], z, y)
             /\ t.child[e][Swap(n, z, y)] \in Node /\ u.child[e][n] \in Node
  <2>1. u.child[e][Swap(Swap(n, z, y), z, y)] = Swap(t.child[e][Swap(n, z, y)], z, y)
    BY <1>1 DEF Swapped
  <2>2. u.child[e][n] = Swap(t.child[e][Swap(n, z, y)], z, y)
    BY <1>1, <2>1
  <2>3. t.child[e][Swap(n, z, y)] = Swap(u.child[e][n], z, y)
    BY <1>1, <2>2
  <2>4. t.child[e][Swap(n, z, y)] \in Node
    BY <1>1, TreeFields
  <2>. QED
    BY <1>1, <2>2, <2>3, <2>4
<1>4. ASSUME NEW n \in Key, NEW e \in Dir, RedPair(u, n, e)
      PROVE  /\ Swap(n, z, y) \in Key /\ RedPair(t, Swap(n, z, y), e)
             /\ t.child[e][Swap(n, z, y)] = Swap(u.child[e][n], z, y)
  <2>1. PICK c : c = u.child[e][n]
    OBVIOUS
  <2>2. c \in Node /\ t.child[e][Swap(n, z, y)] = Swap(c, z, y)
    BY <1>1, <1>3, <2>1
  <2>3. u.color[n] = "red" /\ u.color[c] = "red"
    BY <1>4, <2>1 DEF RedPair
  <2>4. t.color[Swap(n, z, y)] = "red" /\ t.color[Swap(c, z, y)] = "red"
    BY <1>1, <1>2, <2>2, <2>3
  <2>. QED
    BY <1>1, <2>1, <2>2, <2>4 DEF RedPair
<1>5. u.color[u.root] = t.color[t.root]
  <2>1. t.root \in Node /\ u.root = Swap(t.root, z, y)
    BY TreeFields DEF Swapped
  <2>. QED
    BY <2>1 DEF Swapped
<1>6. ASSUME NEW hp, NEW hd, Heights(t, H, hp, hd)
      PROVE  Heights(u, G, Swap(hp, z, y), hd)
  <2>0. G = [n \in Node |-> H[Swap(n, z, y)]]
    BY DEF HeightsSwapped
  <2>1. H \in [Node -> Nat] /\ H[nil] = 0 /\ t.color[nil] = "black"
        /\ \A n \in Key : Balanced(t, H, hp, hd, n)
    BY <1>6 DEF Heights
  <2>2. G \in [Node -> Nat] /\ G[nil] = 0 /\ u.color[nil] = "black"
    BY <1>1, <1>2, <2>0, <2>1
  <2>3. ASSUME NEW n \in Key PROVE Balanced(u, G, Swap(hp, z, y), hd, n)
    <3>1. PICK m : m = Swap(n, z, y)
      OBVIOUS
    <3>2. m \in Key /\ n \in Node /\ Balanced(t, H, hp, hd, m) /\ n = Swap(m, z, y)
      BY <1>1, <2>1, <3>1
    <3>3. Black(u, n) = Black(t, m) /\ G[n] = H[m]
      BY <1>2, <2>0, <3>1, <3>2 DEF Black
    <3>4. ASSUME NEW e \in Dir
          PROVE  /\ G[u.child[e][n]] = H[t.child[e][m]]
                 /\ Extra(n, e, Swap(hp, z, y), hd) = Extra(m, e, hp, hd)
      <4>1. u.child[e][n] \in Node /\ Swap(u.child[e][n], z, y) = t.child[e][m]
        BY <1>3, <3>1, <3>2
      <4>2. n = Swap(hp, z, y) <=> m = hp
        BY <1>1, <3>1
      <4>. QED
        BY <2>0, <4>1, <4>2 DEF Extra
    <3>. QED
      BY <3>2, <3>3, <3>4 DEF Balanced
  <2>. QED
    BY <2>2, <2>3 DEF Heights
<1>. QED
  BY <1>4, <1>5, <1>6 DEF ColorsSwapped

\* The tree with z under its new name is as it was before.
LEMMA SwappedKeeps ==
    ASSUME NEW t, NEW B, NEW H, NEW x \in Node, NEW z, NEW y, Exchangeable(t, B, z, y),
           z \in B[t.root], x # z, x # y, NEW u, Swapped(t, u, z, y)
    PROVE  \E C, G : /\ Resolved(t, B, H) => Resolved(u, C, G)
                     /\ DeleteInv(t, B, H, x) => DeleteInv(u, C, G, x)
                     /\ Tree(u, C) /\ C[u.root] = (B[t.root] \cup {y}) \ {z}
<1>1. Tree(t, B) /\ t \in TreeType /\ z \in Key /\ y \in Key /\ z # y /\ y \notin B[t.root]
  BY DEF Exchangeable, Tree
<1>2. PICK C : C = [n \in Node |-> {Swap(m, z, y) : m \in B[Swap(n, z, y)]}]
  OBVIOUS
<1>3. /\ Tree(u, C)
      /\ \A n \in Node : \A m \in Key : m \in C[n] <=> Swap(m, z, y) \in B[Swap(n, z, y)]
  BY <1>2, SwappedKeepsTree
<1>4. /\ \A n \in Node : Swap(n, z, y) \in Node
      /\ \A n \in Key : Swap(n, z, y) \in Key /\ n \in Node
      /\ \A n : Swap(Swap(n, z, y), z, y) = n
      /\ Swap(nil, z, y) = nil /\ nil \in Node /\ Swap(x, z, y) = x
  <2>1. Swap(x, z, y) = x
    BY DEF Swap
  <2>. QED
    BY <1>1, <2>1, SwapIs, ConstantFacts
<1>6. PICK G : G = HeightsSwapped(H, z, y)
  OBVIOUS
<1>5. /\ \A n \in Key : \A e \in Dir :
           RedPair(u, n, e) => /\ Swap(n, z, y) \in Key /\ RedPair(t, Swap(n, z, y), e)
                               /\ t.child[e][Swap(n, z, y)] = Swap(u.child[e][n], z, y)
      /\ u.color[u.root] = t.color[t.root]
      /\ \A hp, hd : Heights(t, H, hp, hd) => Heights(u, G, Swap(hp, z, y), hd)
  <2>1. ColorsSwapped(t, u, H, G, z, y)
    BY <1>1, <1>6, SwappedKeepsColors
  <2>. QED
    BY <2>1 DEF ColorsSwapped
<1>7. t.root \in Node /\ u.root = Swap(t.root, z, y) /\ u.root \in Node
      /\ Swap(u.root, z, y) = t.root
  BY <1>1, <1>4, TreeFields DEF Swapped
<1>8. \A m \in Key : m \in C[u.root] <=> Swap(m, z, y) \in B[t.root]
  BY <1>3, <1>7
<1>9. C[u.root] = (B[t.root] \cup {y}) \ {z}
  <2>1. \A m \in Key : m \in C[u.root] <=> m \in (B[t.root] \cup {y}) \ {z}
    BY <1>1, <1>8 DEF Swap
  <2>2. C[u.root] \subseteq Key /\ B[t.root] \subseteq Key
    BY <1>1, <1>3, <1>7 DEF Tree
  <2>. QED
    BY <1>1, <2>1, <2>2
<1>10. ASSUME Resolved(t, B, H) PROVE Resolved(u, C, G)
  <2>1. Heights(u, G, nil, "left")
    BY <1>4, <1>5, <1>6, <1>10 DEF Resolved
  <2>2. \A n \in Key : \A e \in Dir : ~ RedPair(u, n, e)
    BY <1>5, <1>10 DEF Resolved
  <2>. QED
    BY <1>3, <1>5, <1>10, <2>1, <2>2 DEF Resolved
<1>11. ASSUME DeleteInv(t, B, H, x) PROVE DeleteInv(u, C, G, x)
  <2>1. ASSUME NEW n \in Key, NEW e \in Dir, RedPair(u, n, e)
        PROVE  x \in {n, u.child[e][n]}
    <3>1. x \in {Swap(n, z, y), Swap(u.child[e][n], z, y)}
      BY <1>5, <1>11, <2>1 DEF DeleteInv
    <3>. QED
      BY <1>4, <3>1
  <2>2. u.color[u.root] = "red" => x = u.root
    BY <1>4, <1>5, <1>7, <1>11 DEF DeleteInv
  <2>3. CASE x = t.root /\ t.parent[x] = nil /\ Heights(t, H, nil, "left")
    <3>1. x = u.root
      BY <1>4, <1>7, <2>3
    <3>2. u.parent[Swap(x, z, y)] = Swap(nil, z, y)
      BY <1>1, <2>3, ConstantFacts DEF Swapped
    <3>3. Heights(u, G, nil, "left")
      BY <1>4, <1>5, <1>6, <2>3
    <3>. QED
      BY <1>3, <1>4, <2>1, <2>2, <3>1, <3>2, <3>3 DEF DeleteInv
  <2>4. CASE \E d \in Dir : /\ t.parent[x] \in B[t.root] /\ t.child[d][t.parent[x]] = x
                            /\ Heights(t, H, t.parent[x], d)
    <3>1. PICK p : t.parent[x] = p
      OBVIOUS
    <3>2. PICK d \in Dir : p \in B[t.root] /\ t.child[d][p] = x /\ Heights(t, H, p, d)
      BY <2>4, <3>1
    <3>3. p \in Key /\ p # y /\ p \in Node
      BY <1>1, <1>4, <3>2, ParentOf
    <3>4. u.parent[x] = Swap(p, z, y)
      BY <1>4, <3>1, <3>3 DEF Swapped
    <3>5. Swap(p, z, y) \in C[u.root]
      BY <1>4, <1>8, <3>2, <3>3
    <3>6. u.child[d][Swap(p, z, y)] = x
      BY <1>4, <3>2, <3>3 DEF Swapped
    <3>7. Heights(u, G, Swap(p, z, y), d)
      BY <1>5, <1>6, <3>2
    <3>. QED
      BY <1>3, <2>1, <2>2, <3>4, <3>5, <3>6, <3>7 DEF DeleteInv
  <2>. QED
    BY <1>11, <2>3, <2>4 DEF DeleteInv
<1>. QED
  BY <1>3, <1>9, <1>10, <1>11

LEMMA OneSide ==
    ASSUME NEW t, NEW B, Tree(t, B), NEW n \in Key, NEW m \in B[n], NEW e \in Dir, Before(e, m, n)
    PROVE  m \in B[t.child[e][n]]
<1>1. m \in Key /\ m # n
  BY Order, ConstantFacts DEF Tree
<1>2. PICK f \in Dir : m \in B[t.child[f][n]]
  BY <1>1 DEF Tree
<1>3. Before(f, m, n)
  BY <1>2 DEF Tree
<1>4. f = e
  BY <1>1, <1>3, Order, Sides
<1>. QED
  BY <1>2, <1>4

\* The node rbtree_delete unlinks has at most one child.
LEMMA UnlinkedFacts ==
    ASSUME NEW B, Tree(T, B), NEW z \in B[T.root], NEW y, y = Unlinked(z), NEW x, x = OnlyChild(y)
    PROVE  \E p, d, f : /\ Prunable(T, B, y, x, p, d, f) /\ d = Side(T, p, y) /\ z \in Key
                        /\ x # z
                        /\ y = z \/ y \in Leftmost(T, B, T.child["right"][z])
                        /\ y \in B[z]
<1>1. T \in TreeType /\ z \in Key /\ T.root \in Key /\ z \in B[z]
  BY ParentOf, ConstantFacts DEF Tree
<1>2. \/ y = z /\ \E e \in Dir : T.child[e][z] = nil
      \/ y \in Leftmost(T, B, T.child["right"][z])
  BY <1>1, UnlinkedIs
<1>3. y \in Leftmost(T, B, T.child["right"][z]) =>
        y \in B[z] /\ y # z /\ T.child["left"][y] = nil
  <2>1. B[T.child["right"][z]] \subseteq B[z] /\ z \notin B[T.child["right"][z]]
    BY <1>1, Children DEF Dir
  <2>. QED
    BY <2>1 DEF Leftmost
<1>4. y \in B[z] /\ B[z] \subseteq B[T.root]
  BY <1>1, <1>2, <1>3, BelowBelow
<1>5. y \in B[T.root] /\ y \in Key /\ (y # z => z \notin B[y])
  BY <1>1, <1>4, BelowBelow
<1>6. \E e \in Dir : T.child[e][y] = nil
  BY <1>2, <1>3 DEF Dir
<1>7. PICK f \in Dir : T.child[f][y] = x /\ T.child[Other(f)][y] = nil
  <2>1. CASE T.child["left"][y] # nil
    <3>1. x = T.child["left"][y] /\ T.child["right"][y] = nil
      BY <1>6, <2>1 DEF OnlyChild, Dir
    <3>. QED
      BY <3>1 DEF Dir, Other
  <2>2. CASE T.child["left"][y] = nil
    <3>1. x = T.child["right"][y]
      BY <2>2 DEF OnlyChild
    <3>. QED
      BY <2>2, <3>1 DEF Dir, Other
  <2>. QED
    BY <2>1, <2>2
<1>8. PICK p : T.parent[y] = p
  OBVIOUS
<1>9. PICK d : d = Side(T, p, y)
  OBVIOUS
<1>10. d \in Dir
  BY <1>9, SideIs
<1>11. /\ p = nil => T.root = y
       /\ p # nil => p \in B[T.root] /\ T.child[d][p] = y /\ T.root # y
  <2>1. y = T.root => p = nil
    BY <1>5, <1>8, ParentOf
  <2>2. y # T.root => p \in B[T.root] /\ p \in Key /\ \E e \in Dir : T.child[e][p] = y
    BY <1>5, <1>8, ParentOf
  <2>3. (\E e \in Dir : T.child[e][p] = y) => T.child[d][p] = y
    BY <1>9 DEF Side, Dir
  <2>. QED
    BY <2>1, <2>2, <2>3, ConstantFacts
<1>12. Prunable(T, B, y, x, p, d, f)
  BY <1>5, <1>7, <1>8, <1>10, <1>11 DEF Prunable
<1>13. x # z
  <2>1. /\ T.child[f][y] = x /\ f \in Dir
    BY <1>7
  <2>2. x # y /\ (x # nil => x \in B[y])
    BY <1>5, <2>1, Children
  <2>. QED
    BY <1>1, <1>5, <2>2, ConstantFacts
<1>. QED
  BY <1>1, <1>2, <1>4, <1>9, <1>12, <1>13

LEMMA DetachedIs ==
    ASSUME NEW B, NEW z \in Key, NEW y, y = Unlinked(z), NEW x, x = OnlyChild(y),
           NEW p, NEW d, NEW f, Prunable(T, B, y, x, p, d, f), d = Side(T, p, y)
    PROVE  \E u : /\ Pruned(T, u, y, x, p, d)
                  /\ IF z = y THEN Detached(z) = u ELSE Swapped(u, Detached(z), z, y)
<1>1. /\ Tree(T, B) /\ T \in TreeType /\ T.root \in Key /\ d \in Dir
      /\ y \in Key /\ x \in Node /\ p \in Node /\ x # y /\ p # y
  BY PrunableFacts
<1>2. /\ T.parent[y] = p
      /\ \A n \in Key : \A e \in Dir : T.child[e][n] = y <=> n = p /\ e = d
  BY PrunableFacts
<1>3. PICK t0 : t0 = [T EXCEPT !.parent[x] = p]
  OBVIOUS
<1>4. ParentSet(T, t0, x, p)
  BY <1>1, <1>3, SetParentIs
<1>5. PICK t1 : t1 = Replace(t0, p, y, x)
  OBVIOUS
<1>6. Side(t0, p, y) = d
  BY <1>4 DEF ParentSet, Side
<1>7. Replaced(t0, t1, p, y, x)
  BY <1>1, <1>4, <1>5, ReplaceIs, ConstantFacts DEF ParentSet
<1>8. /\ t1 \in TreeType
      /\ t1.root = IF p = nil THEN x ELSE T.root
      /\ \A m \in Node : t1.parent[m] = IF m = x THEN p ELSE T.parent[m]
      /\ t1.color = T.color
      /\ \A e \in Dir : \A m \in Node :
           t1.child[e][m] = IF p # nil /\ m = p /\ e = d THEN x ELSE T.child[e][m]
  BY <1>4, <1>6, <1>7 DEF ParentSet, Replaced
<1>9. Detached(z) = Renamed(t1, z, y)
  BY <1>2, <1>3, <1>5 DEF Detached
<1>10. PICK u : u = Renamed(t1, y, y)
  OBVIOUS
<1>11. /\ u \in TreeType /\ u.root = t1.root
       /\ \A m \in Node : /\ u.parent[m] = IF m = y THEN NULL ELSE t1.parent[m]
                          /\ u.color[m] = IF m = y THEN "black" ELSE t1.color[m]
       /\ \A e \in Dir : \A m \in Node :
            u.child[e][m] = IF m = y THEN nil ELSE t1.child[e][m]
  <2>1. t1 \in TreeType /\ y \in Key
    BY <1>1, <1>8
  <2>. QED
    BY <1>10, <2>1, RenamedClears
<1>12. Pruned(T, u, y, x, p, d)
  BY <1>8, <1>11 DEF Pruned
<1>13. ASSUME z # y PROVE Swapped(u, Detached(z), z, y)
  <2>1. t1.root # y
    BY <1>1, <1>8 DEF Prunable
  <2>2. ASSUME NEW e \in Dir, NEW n \in Node \ {y} PROVE t1.child[e][n] # y
    <3>1. CASE n = nil
      <4>1. T.child[e][n] = nil
        BY <1>1, <3>1 DEF Tree
      <4>. QED
        BY <1>1, <1>8, <4>1, ConstantFacts
    <3>2. CASE n # nil
      <4>1. n \in Key
        BY <3>2, ConstantFacts
      <4>. QED
        BY <1>1, <1>2, <1>8, <3>2, <4>1
    <3>. QED
      BY <3>1, <3>2
  <2>. QED
    BY <1>1, <1>8, <1>9, <1>10, <1>13, <2>1, <2>2, RenamedSwaps
<1>. QED
  BY <1>9, <1>10, <1>12, <1>13

\* What the deletion of z leaves to the fixup.
LEMMA DetachedKeeps ==
    ASSUME NEW B, NEW H, Resolved(T, B, H), NEW z \in B[T.root],
           NEW y, y = Unlinked(z), NEW x, x = OnlyChild(y)
    PROVE  /\ y \in Key /\ x \in Node
           /\ \E C, G : /\ T.color[y] = "red" => Resolved(Detached(z), C, G)
                        /\ T.color[y] = "black" => DeleteInv(Detached(z), C, G, x)
                        /\ Tree(Detached(z), C) /\ C[Detached(z).root] = B[T.root] \ {z}
<1>1. Tree(T, B)
  BY DEF Resolved
<1>2. PICK p, d, f : /\ Prunable(T, B, y, x, p, d, f) /\ d = Side(T, p, y) /\ z \in Key
                     /\ x # z
                     /\ y = z \/ y \in Leftmost(T, B, T.child["right"][z])
                     /\ y \in B[z]
  BY <1>1, UnlinkedFacts
<1>3. Prunable(T, B, y, x, p, d, f)
  BY <1>2
<1>4. PICK u : /\ Pruned(T, u, y, x, p, d)
               /\ IF z = y THEN Detached(z) = u ELSE Swapped(u, Detached(z), z, y)
  BY <1>2, DetachedIs
<1>5. T \in TreeType /\ y \in Key /\ x \in Node /\ x # y /\ T.root \in Key
  BY <1>3, PrunableFacts
<1>6. PICK C, G : /\ T.color[y] = "red" => Resolved(u, C, G)
                  /\ T.color[y] = "black" => DeleteInv(u, C, G, x)
                  /\ Tree(u, C) /\ C[u.root] = B[T.root] \ {y}
                  /\ \A n \in Node \ {y} : C[n] = B[n] \ {y}
  <2>1. Pruned(T, u, y, x, p, d)
    BY <1>4
  <2>. QED
    BY <1>3, <2>1, PrunedKeeps
<1>7. CASE z = y
  BY <1>4, <1>5, <1>6, <1>7
<1>8. CASE z # y
  <2>1. y \in Leftmost(T, B, T.child["right"][z]) /\ z \in Key /\ y \in B[z] /\ z \in Node \ {y}
    BY <1>2, <1>8, ConstantFacts
  <2>2. z < y /\ z \in Int /\ y \in Int
    <3>1. Before("right", y, z)
      BY <1>1, <2>1 DEF Tree, Leftmost, Dir
    <3>. QED
      BY <1>5, <2>1, <3>1, ConstantFacts DEF Before
  <2>3. ASSUME NEW e \in Dir, NEW m \in C[u.child[e][z]] PROVE Before(e, m, y)
    <3>1. Before(e, m, z) /\ m \in C[z]
      <4>1. C[u.child[e][z]] \subseteq C[z]
        BY <1>6, <2>1, Children
      <4>. QED
        BY <1>6, <2>1, <4>1 DEF Tree
    <3>2. m \in B[z] /\ m # y
      BY <1>6, <2>1, <3>1
    <3>3. m \in B[T.child[e][z]]
      BY <1>1, <2>1, <3>1, <3>2, OneSide
    <3>4. m \in Int
      BY <1>1, <2>1, <3>2, ConstantFacts DEF Tree
    <3>5. CASE e = "left"
      <4>1. m < z
        BY <3>1, <3>5 DEF Before
      <4>2. m < y
        BY <2>2, <3>4, <4>1
      <4>. QED
        BY <3>5, <4>2 DEF Before
    <3>6. CASE e = "right"
      <4>1. m = y \/ y < m
        BY <2>1, <3>3, <3>6 DEF Leftmost
      <4>. QED
        BY <3>2, <3>6, <4>1 DEF Before
    <3>. QED
      BY <3>5, <3>6 DEF Dir
  <2>4. ASSUME NEW e \in Dir, NEW n \in Key, z \in C[u.child[e][n]] PROVE Before(e, y, n)
    <3>1. n # y
      <4>1. y \notin C[u.root]
        BY <1>6
      <4>2. n = y => u.child[e][n] = nil /\ C[nil] = {}
        BY <1>6, <4>1 DEF Tree
      <4>. QED
        BY <2>4, <4>2
    <3>2. Before(e, z, n) /\ z \in C[n]
      <4>1. C[u.child[e][n]] \subseteq C[n]
        BY <1>6, Children
      <4>. QED
        BY <1>6, <2>4, <4>1 DEF Tree
    <3>3. z \in B[n]
      BY <1>6, <3>1, <3>2, ConstantFacts
    <3>4. PICK c : c = T.child[e][n]
      OBVIOUS
    <3>5. z \in B[c] /\ c \in Node
      BY <1>1, <1>5, <3>2, <3>3, <3>4, OneSide, TreeFields, ConstantFacts
    <3>6. c \in Key
      BY <1>1, <3>5, ConstantFacts DEF Tree
    <3>7. y \in B[c]
      BY <1>1, <2>1, <3>5, <3>6, BelowBelow
    <3>. QED
      BY <1>1, <3>4, <3>7 DEF Tree
  <2>5. Exchangeable(u, C, z, y)
    BY <1>5, <1>6, <1>8, <2>1, <2>3, <2>4 DEF Exchangeable
  <2>6. z \in C[u.root] /\ x # z /\ Swapped(u, Detached(z), z, y)
    BY <1>2, <1>4, <1>6, <1>8
  <2>7. PICK D, K : /\ Resolved(u, C, G) => Resolved(Detached(z), D, K)
                    /\ DeleteInv(u, C, G, x) => DeleteInv(Detached(z), D, K, x)
                    /\ Tree(Detached(z), D)
                    /\ D[Detached(z).root] = (C[u.root] \cup {y}) \ {z}
    BY <1>5, <2>5, <2>6, SwappedKeeps
  <2>8. (C[u.root] \cup {y}) \ {z} = B[T.root] \ {z}
    <3>1. y \in B[T.root]
      BY <1>3 DEF Prunable
    <3>. QED
      BY <1>6, <3>1
  <2>. QED
    BY <1>5, <1>6, <2>7, <2>8
<1>. QED
  BY <1>7, <1>8
-----------------------------------------------------------------------------
(***************************************************************************)
(* The end of the fixups: a node becomes black.                            *)
(***************************************************************************)
LEMMA BlackenedHeights ==
    ASSUME NEW t \in TreeType, NEW x \in Node, NEW H, NEW hp, NEW hd, Heights(t, H, hp, hd),
           t.color[x] = "red" =>
             \A n \in Key : \A e \in Dir : t.child[e][n] = x <=> n = hp /\ e = hd,
           t.color[x] = "black" => hp = nil,
           NEW u, ColorSet(t, u, x, "black")
    PROVE  \E G : Heights(u, G, nil, "left")
<1>1. H \in [Node -> Nat] /\ H[nil] = 0 /\ t.color[nil] = "black"
      /\ \A n \in Key : Balanced(t, H, hp, hd, n)
  BY DEF Heights
<1>2. u.child = t.child /\ \A m \in Node : u.color[m] = IF m = x THEN "black" ELSE t.color[m]
  BY DEF ColorSet
<1>3. u.color[nil] = "black" /\ \A n \in Key : n \in Node /\ n # nil
  BY <1>1, <1>2, ConstantFacts
<1>4. CASE t.color[x] = "black"
  <2>1. \A n \in Key : Black(u, n) = Black(t, n)
    BY <1>2, <1>3, <1>4 DEF Black
  <2>2. \A n \in Key : \A e : Extra(n, e, nil, "left") = Extra(n, e, hp, hd)
    BY <1>3, <1>4 DEF Extra
  <2>3. \A n \in Key : Balanced(u, H, nil, "left", n)
    BY <1>1, <1>2, <2>1, <2>2 DEF Balanced
  <2>. QED
    BY <1>1, <1>3, <2>3 DEF Heights
<1>5. CASE t.color[x] = "red"
  <2>1. PICK G : G = [H EXCEPT ![x] = H[x] + 1]
    OBVIOUS
  <2>2. H[x] \in Nat /\ x # nil /\ nil \in Node
    BY <1>1, <1>5, ConstantFacts
  <2>3. G \in [Node -> Nat] /\ G[x] = H[x] + 1 /\ \A n \in Node \ {x} : G[n] = H[n]
    BY <1>1, <2>1, <2>2
  <2>4. ASSUME NEW n \in Key, NEW e \in Dir
        PROVE  /\ G[u.child[e][n]] = H[t.child[e][n]] + Extra(n, e, hp, hd)
               /\ H[t.child[e][n]] \in Nat /\ Extra(n, e, hp, hd) \in Nat
    <3>1. t.child[e][n] \in Node /\ u.child[e][n] = t.child[e][n]
      BY <1>2, <1>3, TreeFields
    <3>2. H[t.child[e][n]] \in Nat
      BY <1>1, <3>1
    <3>3. CASE t.child[e][n] = x
      <4>1. Extra(n, e, hp, hd) = 1
        BY <1>5, <3>3 DEF Extra
      <4>. QED
        BY <2>3, <3>1, <3>2, <3>3, <4>1
    <3>4. CASE t.child[e][n] # x
      <4>1. Extra(n, e, hp, hd) = 0
        BY <1>5, <3>4 DEF Extra
      <4>2. G[u.child[e][n]] = H[t.child[e][n]]
        BY <2>3, <3>1, <3>4
      <4>. QED
        BY <3>2, <4>1, <4>2
    <3>. QED
      BY <3>3, <3>4
  <2>5. ASSUME NEW n \in Key PROVE G[n] = H[n] + (Black(u, n) - Black(t, n))
    <3>1. n = x => Black(u, n) = 1 /\ Black(t, n) = 0
      BY <1>2, <1>3, <1>5 DEF Black
    <3>2. n # x => Black(u, n) = Black(t, n) /\ G[n] = H[n]
      BY <1>2, <1>3, <2>3 DEF Black
    <3>3. H[n] \in Nat /\ Black(t, n) \in Nat
      BY <1>1, <1>3 DEF Black
    <3>4. CASE n = x
      BY <2>3, <3>1, <3>3, <3>4
    <3>5. CASE n # x
      BY <3>2, <3>3, <3>5
    <3>. QED
      BY <3>4, <3>5
  <2>6. ASSUME NEW n \in Key, NEW e \in Dir
        PROVE  G[n] = G[u.child[e][n]] + Extra(n, e, nil, "left") + Black(u, n)
    <3>1. H[n] = H[t.child[e][n]] + Extra(n, e, hp, hd) + Black(t, n)
      BY <1>1 DEF Balanced
    <3>2. Extra(n, e, nil, "left") = 0
      BY <1>3 DEF Extra
    <3>3. Black(u, n) \in Nat /\ Black(t, n) \in Nat
      BY DEF Black
    <3>. QED
      BY <2>4, <2>5, <3>1, <3>2, <3>3
  <2>7. Heights(u, G, nil, "left")
    <3>1. G[nil] = 0
      BY <1>1, <2>2, <2>3
    <3>. QED
      BY <1>3, <2>3, <2>6, <3>1 DEF Heights, Balanced
  <2>. QED
    BY <2>7
<1>. QED
  BY <1>4, <1>5, TreeFields

LEMMA RootIsNoChild ==
    ASSUME NEW t, NEW B, Tree(t, B), t.root # nil, NEW n \in Key, NEW e \in Dir
    PROVE  t.child[e][n] # t.root
BY ConstantFacts DEF Tree

LEMMA InsertEnds ==
    ASSUME NEW t, NEW B, NEW H, NEW z, Inserting(t, B, H, z), t.color[t.parent[z]] # "red",
           NEW u, u = SetColor(t, t.root, "black")
    PROVE  \E G : Resolved(u, B, G) /\ u.root = t.root
<1>1. /\ Tree(t, B) /\ t \in TreeType /\ t.root \in Key /\ t.root \in Node /\ t.root # nil
      /\ Heights(t, H, nil, "left")
  BY ParentOf, ConstantFacts DEF Inserting, Tree
<1>2. ColorSet(t, u, t.root, "black")
  BY <1>1, SetColorIs
<1>3. SameLinks(t, u) /\ \A m \in Node : u.color[m] = IF m = t.root THEN "black" ELSE t.color[m]
  BY <1>2 DEF ColorSet, SameLinks
<1>4. Tree(u, B) /\ u.root = t.root /\ u.color[u.root] = "black"
  BY <1>1, <1>3, ColorsKeepTree DEF SameLinks
<1>5. PICK G : Heights(u, G, nil, "left")
  <2>1. \A n \in Key : \A e \in Dir : t.child[e][n] = t.root <=> n = nil /\ e = "left"
    BY <1>1, RootIsNoChild, ConstantFacts
  <2>. QED
    BY <1>1, <1>2, <2>1, BlackenedHeights
<1>6. ASSUME NEW n \in Key, NEW e \in Dir, RedPair(u, n, e) PROVE FALSE
  <2>1. u.child[e][n] = t.child[e][n] /\ t.child[e][n] \in Node /\ n \in Node
    BY <1>1, <1>3, TreeFields, ConstantFacts DEF SameLinks
  <2>2. RedPair(t, n, e)
    BY <1>3, <1>6, <2>1 DEF RedPair
  <2>3. t.child[e][n] = z /\ t.color[n] = "red" /\ z # nil
    <3>1. z \in Key
      BY <1>1, ParentOf DEF Inserting
    <3>. QED
      BY <2>2, <3>1, ConstantFacts DEF Inserting, RedPair
  <2>4. t.parent[z] = n
    BY <1>1, <2>3 DEF Tree
  <2>. QED
    BY <2>3, <2>4
<1>. QED
  BY <1>4, <1>5, <1>6 DEF Resolved

LEMMA DeleteEnds ==
    ASSUME NEW t, NEW B, NEW H, NEW x, DeleteInv(t, B, H, x), ~ (x # t.root /\ t.color[x] = "black"),
           NEW u, u = SetColor(t, x, "black")
    PROVE  \E G : Resolved(u, B, G) /\ u.root = t.root
<1>1. Tree(t, B) /\ t \in TreeType /\ t.root \in Node
  BY TreeFields DEF DeleteInv, Tree
<1>2. PICK hp, hd : /\ x \in Node /\ Heights(t, H, hp, hd)
                    /\ t.color[x] = "red" =>
                         \A n \in Key : \A e \in Dir : t.child[e][n] = x <=> n = hp /\ e = hd
                    /\ t.color[x] = "black" => hp = nil
  <2>1. CASE x = t.root /\ t.parent[x] = nil /\ Heights(t, H, nil, "left")
    <3>1. t.color[x] = "red" =>
            \A n \in Key : \A e \in Dir : t.child[e][n] = x <=> n = nil /\ e = "left"
      <4>1. t.color[x] = "red" => t.root # nil
        BY <2>1 DEF Heights
      <4>. QED
        BY <1>1, <2>1, <4>1, RootIsNoChild, ConstantFacts
    <3>. QED
      BY <1>1, <2>1, <3>1
  <2>2. CASE \E d \in Dir : /\ t.parent[x] \in B[t.root] /\ t.child[d][t.parent[x]] = x
                            /\ Heights(t, H, t.parent[x], d)
    <3>1. PICK p : t.parent[x] = p
      OBVIOUS
    <3>2. PICK d \in Dir : p \in B[t.root] /\ t.child[d][p] = x /\ Heights(t, H, p, d)
      BY <2>2, <3>1
    <3>3. p \in Key /\ t.root \in Key
      BY <1>1, <3>2, ParentOf
    <3>4. x \in Node
      BY <1>1, <3>2, <3>3, Children
    <3>5. x # t.root
      BY <1>1, <3>2, <3>3, RootIsNoChild, ConstantFacts
    <3>6. t.color[x] # "black" /\ t.color[nil] = "black"
      BY <3>2, <3>5 DEF Heights
    <3>7. ASSUME NEW n \in Key, NEW e \in Dir, t.child[e][n] = x PROVE n = p /\ e = d
      <4>1. x # nil
        BY <3>6
      <4>2. n = p
        BY <1>1, <3>1, <3>7, <4>1 DEF Tree
      <4>3. x # t.child[Other(d)][p]
        BY <1>1, <3>2, <3>3, <4>1, Children
      <4>4. e = d \/ e = Other(d)
        BY <3>2, Sides
      <4>. QED
        BY <3>7, <4>2, <4>3, <4>4
    <3>8. \A n \in Key : \A e \in Dir : t.child[e][n] = x <=> n = p /\ e = d
      BY <3>2, <3>7
    <3>. QED
      BY <3>2, <3>4, <3>6, <3>8
  <2>. QED
    BY <2>1, <2>2 DEF DeleteInv
<1>3. ColorSet(t, u, x, "black")
  BY <1>1, <1>2, SetColorIs
<1>4. SameLinks(t, u) /\ \A m \in Node : u.color[m] = IF m = x THEN "black" ELSE t.color[m]
  BY <1>3 DEF ColorSet, SameLinks
<1>5. Tree(u, B) /\ u.root = t.root
  BY <1>1, <1>4, ColorsKeepTree DEF SameLinks
<1>6. u.color[u.root] = "black"
  <2>1. t.color[t.root] = "red" => x = t.root
    BY DEF DeleteInv
  <2>2. t.color[t.root] \in {"red", "black"}
    BY <1>1, TreeFields
  <2>. QED
    BY <1>1, <1>4, <1>5, <2>1, <2>2
<1>7. PICK G : Heights(u, G, nil, "left")
  BY <1>1, <1>2, <1>3, BlackenedHeights
<1>8. ASSUME NEW n \in Key, NEW e \in Dir, RedPair(u, n, e) PROVE FALSE
  <2>1. u.child[e][n] = t.child[e][n] /\ t.child[e][n] \in Node /\ n \in Node
    BY <1>1, <1>4, TreeFields, ConstantFacts DEF SameLinks
  <2>2. RedPair(t, n, e) /\ n # x /\ t.child[e][n] # x
    BY <1>4, <1>8, <2>1 DEF RedPair
  <2>. QED
    BY <2>2 DEF DeleteInv
<1>. QED
  BY <1>5, <1>6, <1>7, <1>8 DEF Resolved
-----------------------------------------------------------------------------
(***************************************************************************)
(* What the invariants of the model say, in terms of B and H.              *)
(***************************************************************************)
LEMMA SubtreeIs ==
    ASSUME NEW B, Tree(T, B)
    PROVE  \A n \in Node : Subtree[n] = B[n]
<1>. DEFINE below == CHOOSE f : f = [n \in Node |->
                         IF n = nil THEN {}
                         ELSE {n} \cup f[T.child["left"][n]] \cup f[T.child["right"][n]]]
<1>1. /\ T \in TreeType /\ B \in [Node -> SUBSET Key] /\ B[nil] = {}
      /\ \A n \in Key : \A e \in Dir : T.child[e][n] \in Node
  BY TreeFields, ConstantFacts DEF Tree
<1>2. ASSUME NEW n \in Node
      PROVE  B[n] = IF n = nil THEN {}
                    ELSE {n} \cup B[T.child["left"][n]] \cup B[T.child["right"][n]]
  <2>1. CASE n = nil
    BY <1>1, <2>1
  <2>2. CASE n # nil
    <3>1. n \in Key
      BY <2>2, ConstantFacts
    <3>2. \A m \in Key : m \in B[n] <=> m = n \/ m \in B[T.child["left"][n]] \/ m \in B[T.child["right"][n]]
      BY <3>1 DEF Tree, Dir
    <3>3. B[n] \subseteq Key /\ B[T.child["left"][n]] \subseteq Key /\ B[T.child["right"][n]] \subseteq Key
      BY <1>1, <3>1, ConstantFacts DEF Dir
    <3>4. B[n] = {n} \cup B[T.child["left"][n]] \cup B[T.child["right"][n]]
      BY <3>1, <3>2, <3>3
    <3>. QED
      BY <2>2, <3>4
  <2>. QED
    BY <2>1, <2>2
<1>3. B = [n \in Node |-> IF n = nil THEN {}
                          ELSE {n} \cup B[T.child["left"][n]] \cup B[T.child["right"][n]]]
  BY <1>1, <1>2
<1>4. below = [n \in Node |-> IF n = nil THEN {}
                 ELSE {n} \cup below[T.child["left"][n]] \cup below[T.child["right"][n]]]
  BY <1>3
<1>5. Subtree = below
  BY DEF Subtree
<1>. HIDE DEF below
<1>6. \A n \in Node : below[n] = IF n = nil THEN {}
         ELSE {n} \cup below[T.child["left"][n]] \cup below[T.child["right"][n]]
  BY <1>4
<1>. DEFINE Wrong == {n \in Key : below[n] # B[n]}
<1>7. Wrong = {}
  <2>. SUFFICES ASSUME Wrong # {} PROVE FALSE
    OBVIOUS
  <2>1. PICK n \in Wrong : \A e \in Dir : T.child[e][n] \notin Wrong
    BY LowestExists
  <2>2. n \in Key /\ n \in Node /\ n # nil
    BY <2>1, ConstantFacts
  <2>3. \A e \in Dir : below[T.child[e][n]] = B[T.child[e][n]]
    <3>. TAKE e \in Dir
    <3>1. T.child[e][n] \in Node /\ T.child[e][n] \notin Wrong
      BY <1>1, <2>1, <2>2
    <3>2. CASE T.child[e][n] = nil
      BY <1>1, <1>6, <3>1, <3>2
    <3>3. CASE T.child[e][n] # nil
      BY <3>1, <3>3, ConstantFacts
    <3>. QED
      BY <3>2, <3>3
  <2>4. below[n] = B[n]
    <3>1. below[n] = {n} \cup below[T.child["left"][n]] \cup below[T.child["right"][n]]
      BY <1>6, <2>2
    <3>2. B[n] = {n} \cup B[T.child["left"][n]] \cup B[T.child["right"][n]]
      BY <1>2, <2>2
    <3>3. below[T.child["left"][n]] = B[T.child["left"][n]]
      BY <2>3 DEF Dir
    <3>4. below[T.child["right"][n]] = B[T.child["right"][n]]
      BY <2>3 DEF Dir
    <3>. QED
      BY <3>1, <3>2, <3>3, <3>4
  <2>. QED
    BY <2>1, <2>4
<1>8. below[nil] = B[nil]
  BY <1>1, <1>6, ConstantFacts
<1>. QED
  BY <1>5, <1>7, <1>8, ConstantFacts

\* The node that counts one more in the delete fixup.
ExtraAt(p, n) == IF loop = "delete" /\ n = at /\ T.parent[at] = p THEN 1 ELSE 0

LEMMA BlackHeightIs ==
    ASSUME NEW B, Tree(T, B), NEW H, NEW hp, NEW hd, Heights(T, H, hp, hd),
           \A n \in Key : \A e \in Dir : ExtraAt(n, T.child[e][n]) = Extra(n, e, hp, hd)
    PROVE  BlackHeight >= 0
<1>. DEFINE L(f, n) == f[T.child["left"][n]] + ExtraAt(n, T.child["left"][n])
            R(f, n) == f[T.child["right"][n]] + ExtraAt(n, T.child["right"][n])
            Def(f, n) == IF n = nil THEN 0
                         ELSE IF L(f, n) # R(f, n) \/ L(f, n) < 0 THEN -100
                         ELSE L(f, n) + IF T.color[n] = "black" THEN 1 ELSE 0
            height == CHOOSE f : f = [n \in Node |-> Def(f, n)]
<1>1. /\ T \in TreeType /\ T.root \in Node /\ nil \in Node
      /\ \A n \in Key : \A e \in Dir : T.child[e][n] \in Node
      /\ H \in [Node -> Nat] /\ H[nil] = 0
  BY TreeFields, ConstantFacts DEF Tree, Heights
<1>2. ASSUME NEW n \in Key
      PROVE  /\ L(H, n) \in Nat /\ R(H, n) = L(H, n)
             /\ H[n] = L(H, n) + Black(T, n)
  <2>1. \A e \in Dir : /\ H[n] = H[T.child[e][n]] + ExtraAt(n, T.child[e][n]) + Black(T, n)
                       /\ H[T.child[e][n]] \in Nat /\ ExtraAt(n, T.child[e][n]) \in Nat
    <3>. TAKE e \in Dir
    <3>1. H[n] = H[T.child[e][n]] + Extra(n, e, hp, hd) + Black(T, n)
      BY DEF Heights, Balanced
    <3>2. H[T.child[e][n]] \in Nat
      BY <1>1
    <3>3. ExtraAt(n, T.child[e][n]) \in Nat
      BY DEF ExtraAt
    <3>. QED
      BY <3>1, <3>2, <3>3
  <2>2. Black(T, n) \in Nat
    BY DEF Black
  <2>3. "left" \in Dir /\ "right" \in Dir
    BY DEF Dir
  <2>. QED
    BY <2>1, <2>2, <2>3
<1>3. ASSUME NEW n \in Node PROVE H[n] = Def(H, n)
  <2>1. CASE n = nil
    BY <1>1, <2>1
  <2>2. CASE n # nil
    <3>1. n \in Key
      BY <2>2, ConstantFacts
    <3>2. L(H, n) \in Nat /\ R(H, n) = L(H, n) /\ H[n] = L(H, n) + Black(T, n)
      BY <1>2, <3>1
    <3>. HIDE DEF L, R
    <3>. QED
      BY <2>2, <3>2 DEF Black
  <2>. QED
    BY <2>1, <2>2
<1>4. H = [n \in Node |-> Def(H, n)]
  <2>1. H = [n \in Node |-> H[n]]
    BY <1>1
  <2>. HIDE DEF Def
  <2>. QED
    BY <1>3, <2>1
<1>5. height = [n \in Node |-> Def(height, n)]
  <2>. HIDE DEF Def
  <2>. QED
    BY <1>4
<1>6. BlackHeight = height[T.root]
  BY DEF BlackHeight, ExtraAt
<1>. HIDE DEF height
<1>7. \A n \in Node : height[n] = Def(height, n)
  <2>. HIDE DEF Def
  <2>. QED
    BY <1>5
<1>. DEFINE Wrong == {n \in Key : height[n] # H[n]}
<1>8. height[nil] = 0
  BY <1>1, <1>7
<1>9. Wrong = {}
  <2>. SUFFICES ASSUME Wrong # {} PROVE FALSE
    OBVIOUS
  <2>1. PICK n \in Wrong : \A e \in Dir : T.child[e][n] \notin Wrong
    BY LowestExists
  <2>2. n \in Key /\ n \in Node /\ n # nil
    BY <2>1, ConstantFacts
  <2>3. \A e \in Dir : height[T.child[e][n]] = H[T.child[e][n]]
    <3>. TAKE e \in Dir
    <3>1. T.child[e][n] \in Node /\ T.child[e][n] \notin Wrong
      BY <1>1, <2>1, <2>2
    <3>2. CASE T.child[e][n] = nil
      BY <1>1, <1>8, <3>2
    <3>3. CASE T.child[e][n] # nil
      BY <3>1, <3>3, ConstantFacts
    <3>. QED
      BY <3>2, <3>3
  <2>4. L(height, n) = L(H, n) /\ R(height, n) = R(H, n)
    BY <2>3 DEF Dir
  <2>5. Def(height, n) = Def(H, n)
    <3>. HIDE DEF L, R
    <3>. QED
      BY <2>4
  <2>6. height[n] = H[n]
    <3>1. height[n] = Def(height, n) /\ H[n] = Def(H, n)
      BY <1>3, <1>7, <2>2
    <3>. HIDE DEF Def
    <3>. QED
      BY <2>5, <3>1
  <2>. QED
    BY <2>1, <2>6
<1>10. height[T.root] = H[T.root] /\ H[T.root] \in Nat
  BY <1>1, <1>8, <1>9, ConstantFacts
<1>. QED
  BY <1>6, <1>10

\* A red node below a red parent is such a child.
LEMMA RedRedIs ==
    ASSUME NEW B, Tree(T, B), T.color[nil] = "black", NEW n \in RedRed
    PROVE  /\ T.parent[n] \in Key
           /\ \E e \in Dir : RedPair(T, T.parent[n], e) /\ T.child[e][T.parent[n]] = n
<1>1. n \in B[T.root] /\ T.color[n] = "red" /\ T.color[T.parent[n]] = "red"
  <2>1. T.root \in Node
    BY TreeFields DEF Tree
  <2>. QED
    BY <2>1, SubtreeIs DEF RedRed, InTree
<1>2. n # T.root
  BY <1>1, ParentOf
<1>3. PICK p : T.parent[n] = p
  OBVIOUS
<1>4. p \in Key /\ \E e \in Dir : T.child[e][p] = n
  BY <1>1, <1>2, <1>3, ParentOf
<1>. QED
  BY <1>1, <1>3, <1>4 DEF RedPair

LEMMA SearchTreeIs ==
    ASSUME NEW B, Tree(T, B), T.color[nil] = "black", TypeOK
    PROVE  SearchTree
<1>1. /\ T \in TreeType /\ T.root \in Node /\ B[T.root] \subseteq Key
      /\ \A n \in Key : \A e \in Dir : T.child[e][n] \in Node
  BY TreeFields, ConstantFacts DEF Tree
<1>2. InTree = B[T.root]
  BY <1>1, SubtreeIs DEF InTree
<1>3. ASSUME NEW n \in InTree
      PROVE  /\ \A m \in Subtree[T.child["left"][n]] : m < n
             /\ \A m \in Subtree[T.child["right"][n]] : n < m
             /\ \A d \in Dir : T.child[d][n] # nil => T.parent[T.child[d][n]] = n
  <2>1. n \in Key
    BY <1>1, <1>2
  <2>2. \A e \in Dir : \A m \in B[T.child[e][n]] : Before(e, m, n)
    BY <2>1 DEF Tree
  <2>3. \A e \in Dir : Subtree[T.child[e][n]] = B[T.child[e][n]]
    BY <1>1, <2>1, SubtreeIs
  <2>4. \A m \in Subtree[T.child["left"][n]] : m < n
    BY <2>2, <2>3 DEF Before, Dir
  <2>5. \A m \in Subtree[T.child["right"][n]] : n < m
    BY <2>2, <2>3 DEF Before, Dir
  <2>6. \A d \in Dir : T.child[d][n] # nil => T.parent[T.child[d][n]] = n
    BY <2>1 DEF Tree
  <2>. QED
    BY <2>4, <2>5, <2>6
<1>4. (T.root # nil => T.parent[T.root] = nil) /\ \A d \in Dir : T.child[d][nil] = nil
  BY DEF Tree
<1>. QED
  BY <1>3, <1>4 DEF SearchTree

\* In the delete fixup x is on one side of its parent only.
LEMMA DeleteExtra ==
    ASSUME NEW B, NEW H, DeleteInv(T, B, H, at), loop = "delete"
    PROVE  /\ T.color[nil] = "black" /\ at \in Node
           /\ \E hp, hd : /\ Heights(T, H, hp, hd)
                          /\ \A n \in Key : \A e \in Dir :
                               ExtraAt(n, T.child[e][n]) = Extra(n, e, hp, hd)
<1>1. Tree(T, B) /\ T \in TreeType /\ T.root \in Node
  BY TreeFields DEF DeleteInv, Tree
<1>2. CASE at = T.root /\ T.parent[at] = nil /\ Heights(T, H, nil, "left")
  <2>1. \A n \in Key : \A e \in Dir : ExtraAt(n, T.child[e][n]) = Extra(n, e, nil, "left")
    BY <1>2, ConstantFacts DEF ExtraAt, Extra
  <2>. QED
    BY <1>1, <1>2, <2>1 DEF Heights
<1>3. CASE \E d \in Dir : /\ T.parent[at] \in B[T.root] /\ T.child[d][T.parent[at]] = at
                          /\ Heights(T, H, T.parent[at], d)
  <2>1. PICK p : T.parent[at] = p
    OBVIOUS
  <2>2. PICK d \in Dir : p \in B[T.root] /\ T.child[d][p] = at /\ Heights(T, H, p, d)
    BY <1>3, <2>1
  <2>3. p \in Key
    BY <1>1, <2>2, ParentOf
  <2>4. PICK w : T.child[Other(d)][p] = w
    OBVIOUS
  <2>5. at \in Node /\ w \in Node /\ Other(d) \in Dir /\ Other(d) # d
    BY <1>1, <2>2, <2>3, <2>4, Children, Sides
  <2>6. w # at
    <3>1. H \in [Node -> Nat] /\ Balanced(T, H, p, d, p)
      BY <2>2, <2>3 DEF Heights
    <3>2. H[p] = H[at] + 1 + Black(T, p) /\ H[p] = H[w] + 0 + Black(T, p)
      <4>1. Extra(p, d, p, d) = 1 /\ Extra(p, Other(d), p, d) = 0
        BY <2>5 DEF Extra
      <4>. QED
        BY <2>2, <2>4, <2>5, <3>1, <4>1 DEF Balanced
    <3>3. H[at] \in Nat /\ H[w] \in Nat /\ Black(T, p) \in Nat
      BY <2>5, <3>1 DEF Black
    <3>. QED
      BY <3>2, <3>3
  <2>7. ASSUME NEW n \in Key, NEW e \in Dir
        PROVE  ExtraAt(n, T.child[e][n]) = Extra(n, e, p, d)
    <3>1. CASE n # p
      BY <2>1, <3>1 DEF ExtraAt, Extra
    <3>2. CASE n = p /\ e = d
      BY <2>1, <2>2, <3>2 DEF ExtraAt, Extra
    <3>3. CASE n = p /\ e # d
      <4>1. T.child[e][n] = w
        BY <2>2, <2>4, <3>3, Sides
      <4>. QED
        BY <2>6, <3>3, <4>1 DEF ExtraAt, Extra
    <3>. QED
      BY <3>1, <3>2, <3>3
  <2>8. T.color[nil] = "black"
    BY <2>2 DEF Heights
  <2>. QED
    BY <2>2, <2>5, <2>7, <2>8
<1>. QED
  BY <1>2, <1>3 DEF DeleteInv
-----------------------------------------------------------------------------
(***************************************************************************)
(* The invariant.                                                          *)
(***************************************************************************)
\* t is a red-black tree with the keys S, or what one of the fixup loops
\* keeps until it is one again.
IsTree(t, S) == \E B, H : Resolved(t, B, H) /\ B[t.root] = S
IsInserting(t, S, z) == \E B, H : Inserting(t, B, H, z) /\ B[t.root] = S
IsDeleting(t, S, x) == \E B, H : DeleteInv(t, B, H, x) /\ B[t.root] = S

Allocated == {k \in Key : value[k] # NULL}

ValuesOK ==
    /\ value \in [Node -> Value \cup {NULL, EmptyValue}]
    /\ value[nil] = EmptyValue
    /\ \A k \in Key : value[k] # EmptyValue

\* Between commands; in the insert fixup, when the new node is linked and not
\* counted yet; in the delete fixup, when the deleted node is not linked any
\* more and still counted.
IdleOK ==
    /\ loop = "none" /\ at = nil /\ req = NoReq
    /\ nb_elements = Cardinality(Allocated)
    /\ IsTree(T, Allocated)
InsertOK ==
    /\ loop = "insert"
    /\ req.key \in Allocated /\ value[req.key] = req.val /\ req.val \in Value
    /\ nb_elements + 1 = Cardinality(Allocated)
    /\ IsInserting(T, Allocated, at)
DeleteOK ==
    /\ loop = "delete"
    /\ req.key \in Allocated
    /\ nb_elements = Cardinality(Allocated)
    /\ IsDeleting(T, Allocated \ {req.key}, at)

IInv == ValuesOK /\ nb_elements \in Nat /\ (IdleOK \/ InsertOK \/ DeleteOK)

LEMMA AllocatedIs ==
    /\ Allocated \subseteq Key /\ IsFiniteSet(Allocated) /\ Cardinality(Allocated) \in Nat
    /\ Cardinality(Allocated) <= Cardinality(Key) /\ Cardinality(Key) \in Nat
<1>1. Allocated \subseteq Key
  BY DEF Allocated
<1>. QED
  BY <1>1, ConstantFacts, FS_Subset, FS_CardinalityType

\* The searches of an idle engine find exactly the allocated keys.
LEMMA IdleSearch ==
    ASSUME IdleOK, NEW k \in Key
    PROVE  rbtree_search(k) = IF k \in Allocated THEN k ELSE nil
<1>1. PICK B, H : Resolved(T, B, H) /\ B[T.root] = Allocated
  BY DEF IdleOK, IsTree
<1>. QED
  BY <1>1, SearchIs DEF Resolved

LEMMA ExistsIs ==
    ASSUME IdleOK, NEW k \in Key \cup {NULL}
    PROVE  Exists(k) <=> k \in Allocated
BY IdleSearch, ConstantFacts DEF Exists, Allocated

LEMMA InitIInv == Init => IInv
<1>. SUFFICES ASSUME Init PROVE IInv
  OBVIOUS
<1>1. PICK B : B = [n \in Node |-> IF n = nil THEN {} ELSE {n}]
  OBVIOUS
<1>2. PICK H : H = [n \in Node |-> IF n = nil THEN 0 ELSE 1]
  OBVIOUS
<1>3. /\ T.root = nil /\ \A n \in Node : T.color[n] = "black" /\ T.parent[n] = NULL
      /\ \A d \in Dir : \A n \in Node : T.child[d][n] = nil
  BY DEF Init, init_rbtree
<1>4. T \in TreeType
  BY ConstantFacts DEF Init, init_rbtree, TreeType
<1>5. /\ B \in [Node -> SUBSET Key] /\ B[nil] = {} /\ nil \in Node
      /\ \A n \in Key : B[n] = {n} /\ n \in Node
  BY <1>1, ConstantFacts
<1>6. Tree(T, B)
  <2>1. T.root = nil /\ \A e \in Dir : T.child[e][nil] = nil /\ \A n \in Key : T.child[e][n] = nil
    BY <1>3, <1>5
  <2>2. \A n \in Key : \A e \in Dir : B[T.child[e][n]] = {}
    BY <1>5, <2>1
  <2>3. \A n, m \in Key : m \in B[n] <=> m = n
    BY <1>5
  <2>4. \A n, m \in Key : m \in B[n] <=> m = n \/ \E e \in Dir : m \in B[T.child[e][n]]
    BY <2>2, <2>3
  <2>5. \A n \in Key : \A e \in Dir : \A m \in B[T.child[e][n]] : Before(e, m, n)
    BY <2>2
  <2>. QED
    BY <1>4, <1>5, <2>1, <2>4, <2>5 DEF Tree
<1>7. H \in [Node -> Nat] /\ H[nil] = 0 /\ \A n \in Key : H[n] = 1 /\ n # nil
  BY <1>2, ConstantFacts
<1>8. ASSUME NEW n \in Key PROVE Balanced(T, H, nil, "left", n)
  <2>1. Black(T, n) = 1 /\ \A e : Extra(n, e, nil, "left") = 0
    BY <1>3, <1>5, <1>7 DEF Black, Extra
  <2>. QED
    BY <1>3, <1>5, <1>7, <2>1 DEF Balanced
<1>9. Heights(T, H, nil, "left")
  <2>1. T.color[nil] = "black"
    BY <1>3, <1>5
  <2>. QED
    BY <1>7, <1>8, <2>1 DEF Heights
<1>10. \A n \in Key : \A e \in Dir : ~ RedPair(T, n, e)
  BY <1>3, <1>5 DEF RedPair
<1>11. Resolved(T, B, H) /\ B[T.root] = {}
  <2>1. T.root = nil /\ T.color[nil] = "black" /\ B[nil] = {}
    BY <1>3, <1>5
  <2>. QED
    BY <1>6, <1>9, <1>10, <2>1 DEF Resolved
<1>12. ValuesOK /\ Allocated = {} /\ nb_elements = 0
  BY ConstantFacts DEF Init, init_rbtree, ValuesOK, Allocated
<1>13. Cardinality(Allocated) = 0
  BY <1>12, FS_EmptySet
<1>14. IsTree(T, Allocated)
  BY <1>11, <1>12 DEF IsTree
<1>15. IdleOK
  BY <1>12, <1>13, <1>14 DEF IdleOK, Init
<1>. QED
  BY <1>12, <1>15 DEF IInv

\* A command that finds its key linked or not found changes nothing.
LEMMA UnchangedKeeps ==
    ASSUME IInv, UNCHANGED <<tree, idle>>
    PROVE  IInv'
BY DEF IInv, ValuesOK, IdleOK, InsertOK, DeleteOK, Allocated, tree, idle

\* A key that gets a value is one more.
LEMMA OneMore ==
    ASSUME ValuesOK, NEW k \in Key, k \notin Allocated, NEW v \in Value,
           value' = [value EXCEPT ![k] = v]
    PROVE  /\ ValuesOK' /\ Allocated' = Allocated \cup {k} /\ value'[k] = v
           /\ Cardinality(Allocated') = Cardinality(Allocated) + 1
<1>1. k \in Node /\ k # nil /\ v # NULL /\ v # EmptyValue
  BY ConstantFacts
<1>2. value'[k] = v /\ \A n \in Node \ {k} : value'[n] = value[n]
  BY <1>1 DEF ValuesOK
<1>3. ValuesOK'
  BY <1>1, <1>2, ConstantFacts DEF ValuesOK
<1>4. Allocated' = Allocated \cup {k}
  BY <1>1, <1>2, ConstantFacts DEF Allocated
<1>. QED
  BY <1>2, <1>3, <1>4, AllocatedIs, FS_AddElement

\* A key whose node is freed is one less.
LEMMA OneLess ==
    ASSUME ValuesOK, NEW k \in Allocated, nb_elements = Cardinality(Allocated), Freed(k)
    PROVE  /\ ValuesOK' /\ Allocated' = Allocated \ {k}
           /\ nb_elements' \in Nat /\ nb_elements' = Cardinality(Allocated')
<1>1. k \in Key /\ k \in Node /\ k # nil
  BY ConstantFacts DEF Allocated
<1>2. value' = [value EXCEPT ![k] = NULL] /\ nb_elements' = nb_elements - 1
  BY DEF Freed, CountAfterDelete
<1>3. value'[k] = NULL /\ \A n \in Node \ {k} : value'[n] = value[n]
  BY <1>1, <1>2 DEF ValuesOK
<1>4. ValuesOK'
  BY <1>1, <1>2, <1>3, ConstantFacts DEF ValuesOK
<1>5. Allocated' = Allocated \ {k}
  BY <1>1, <1>3, ConstantFacts DEF Allocated
<1>6. IsFiniteSet(Allocated \ {k}) /\ Cardinality(Allocated \ {k}) = Cardinality(Allocated) - 1
  BY AllocatedIs, FS_RemoveElement
<1>7. Cardinality(Allocated \ {k}) \in Nat
  BY <1>6, FS_CardinalityType
<1>. QED
  BY <1>2, <1>4, <1>5, <1>6, <1>7

LEMMA SetKeepsIInv ==
    ASSUME IInv, NEW k \in Key, NEW v \in Value, CmdRSET(k, v)
    PROVE  IInv'
<1>1. IdleOK
  BY DEF IInv, InsertOK, DeleteOK, CmdRSET, Idle
<1>2. PICK B, H : Resolved(T, B, H) /\ B[T.root] = Allocated
  BY <1>1 DEF IdleOK, IsTree
<1>3. k \notin Allocated
  BY <1>1, ExistsIs DEF CmdRSET
<1>4. PICK C, G : Inserting(Attached(k), C, G, k) /\ C[Attached(k).root] = Allocated \cup {k}
  BY <1>2, <1>3, AttachedKeeps
<1>5. /\ ValuesOK' /\ Allocated' = Allocated \cup {k} /\ value'[k] = v
      /\ Cardinality(Allocated') = Cardinality(Allocated) + 1
  BY <1>3, OneMore DEF CmdRSET, IInv
<1>6. /\ T' = Attached(k) /\ loop' = "insert" /\ at' = k /\ nb_elements' = nb_elements
      /\ req'.key = k /\ req'.val = v
  BY DEF CmdRSET, Enter
<1>7. IsInserting(T, Allocated, at)'
  BY <1>4, <1>5, <1>6 DEF IsInserting
<1>8. InsertOK'
  BY <1>1, <1>5, <1>6, <1>7 DEF InsertOK, IdleOK
<1>. QED
  BY <1>5, <1>6, <1>8 DEF IInv

LEMMA InsertFixupKeepsIInv ==
    ASSUME IInv, InsertFixup
    PROVE  IInv'
<1>1. InsertOK /\ T.color[T.parent[at]] = "red"
  BY DEF IInv, IdleOK, DeleteOK, InsertFixup, InsertGoesOn
<1>2. PICK B, H : Inserting(T, B, H, at) /\ B[T.root] = Allocated
  BY <1>1 DEF InsertOK, IsInserting
<1>3. PICK C, G : /\ Inserting(InsertTurn(T, at).t, C, G, InsertTurn(T, at).z)
                  /\ C[InsertTurn(T, at).t.root] = B[T.root]
  BY <1>1, <1>2, InsertTurnKeeps
<1>4. /\ T' = InsertTurn(T, at).t /\ at' = InsertTurn(T, at).z
      /\ UNCHANGED <<value, nb_elements, loop, req>>
  BY DEF InsertFixup
<1>5. Allocated' = Allocated
  BY <1>4 DEF Allocated
<1>6. IsInserting(T, Allocated, at)'
  BY <1>2, <1>3, <1>4, <1>5 DEF IsInserting
<1>7. InsertOK' /\ ValuesOK' /\ nb_elements' \in Nat
  BY <1>1, <1>4, <1>5, <1>6 DEF InsertOK, ValuesOK, IInv
<1>. QED
  BY <1>7 DEF IInv

LEMMA InsertDoneKeepsIInv ==
    ASSUME IInv, InsertDone
    PROVE  IInv'
<1>1. InsertOK /\ T.color[T.parent[at]] # "red"
  BY DEF IInv, IdleOK, DeleteOK, InsertDone, InsertGoesOn
<1>2. PICK B, H : Inserting(T, B, H, at) /\ B[T.root] = Allocated
  BY <1>1 DEF InsertOK, IsInserting
<1>3. PICK u : u = SetColor(T, T.root, "black")
  OBVIOUS
<1>4. PICK G : Resolved(u, B, G) /\ u.root = T.root
  BY <1>1, <1>2, <1>3, InsertEnds
<1>5. /\ T' = u /\ nb_elements' = nb_elements + 1 /\ value' = value
      /\ loop' = "none" /\ at' = nil /\ req' = NoReq
  BY <1>3 DEF InsertDone, Leave
<1>6. Allocated' = Allocated
  BY <1>5 DEF Allocated
<1>7. IsTree(T, Allocated)'
  BY <1>2, <1>4, <1>5, <1>6 DEF IsTree
<1>8. IdleOK' /\ ValuesOK' /\ nb_elements' \in Nat
  <2>1. NoReq' = NoReq /\ nb_elements \in Nat
    BY DEF NoReq, IInv
  <2>. QED
    BY <1>1, <1>5, <1>6, <1>7, <2>1 DEF IdleOK, InsertOK, ValuesOK, IInv
<1>. QED
  BY <1>8 DEF IInv

LEMMA DeleteKeepsIInv ==
    ASSUME IInv, NEW k \in Key, CmdRDELETE(k)
    PROVE  IInv'
<1>1. IdleOK
  BY DEF IInv, InsertOK, DeleteOK, CmdRDELETE, Idle
<1>2. PICK B, H : Resolved(T, B, H) /\ B[T.root] = Allocated
  BY <1>1 DEF IdleOK, IsTree
<1>3. k \in Allocated
  BY <1>1, ExistsIs DEF CmdRDELETE
<1>4. PICK y : y = Unlinked(k)
  OBVIOUS
<1>5. PICK x : x = OnlyChild(y)
  OBVIOUS
<1>6. /\ y \in Key
      /\ \E C, G : /\ T.color[y] = "red" => Resolved(Detached(k), C, G)
                   /\ T.color[y] = "black" => DeleteInv(Detached(k), C, G, x)
                   /\ C[Detached(k).root] = Allocated \ {k}
  BY <1>2, <1>3, <1>4, <1>5, DetachedKeeps
<1>7. PICK C, G : /\ T.color[y] = "red" => Resolved(Detached(k), C, G)
                  /\ T.color[y] = "black" => DeleteInv(Detached(k), C, G, x)
                  /\ C[Detached(k).root] = Allocated \ {k}
  BY <1>6
<1>8. T' = Detached(k)
  BY DEF CmdRDELETE
<1>9. CASE /\ T.color[y] = "black"
           /\ Enter("delete", x, "DELETE", k, NULL)
           /\ UNCHANGED <<value, nb_elements, reply>>
  <2>1. Allocated' = Allocated
    BY <1>9 DEF Allocated
  <2>2. loop' = "delete" /\ at' = x /\ req'.key = k
    BY <1>9 DEF Enter
  <2>3. IsDeleting(T, Allocated \ {req.key}, at)'
    BY <1>7, <1>8, <1>9, <2>1, <2>2 DEF IsDeleting
  <2>4. DeleteOK' /\ ValuesOK' /\ nb_elements' \in Nat
    BY <1>1, <1>3, <1>9, <2>1, <2>2, <2>3 DEF DeleteOK, IdleOK, ValuesOK, IInv
  <2>. QED
    BY <2>4 DEF IInv
<1>10. CASE T.color[y] # "black" /\ Freed(k) /\ UNCHANGED idle
  <2>1. T.color[y] = "red"
    <3>1. T \in TreeType
      BY <1>2 DEF Resolved, Tree
    <3>. QED
      BY <1>6, <1>10, <3>1, TreeFields, ConstantFacts
  <2>2. /\ ValuesOK' /\ Allocated' = Allocated \ {k}
        /\ nb_elements' \in Nat /\ nb_elements' = Cardinality(Allocated')
    BY <1>1, <1>3, <1>10, OneLess DEF IdleOK, IInv
  <2>3. IsTree(T, Allocated)'
    BY <1>7, <1>8, <2>1, <2>2 DEF IsTree
  <2>4. IdleOK'
    BY <1>1, <1>10, <2>2, <2>3 DEF IdleOK, idle, NoReq
  <2>. QED
    BY <2>2, <2>4 DEF IInv
<1>. QED
  BY <1>4, <1>5, <1>9, <1>10 DEF CmdRDELETE, NeedsFixup

LEMMA DeleteFixupKeepsIInv ==
    ASSUME IInv, DeleteFixup
    PROVE  IInv'
<1>1. DeleteOK /\ at # T.root /\ T.color[at] = "black"
  BY DEF IInv, IdleOK, InsertOK, DeleteFixup, DeleteGoesOn
<1>2. PICK B, H : DeleteInv(T, B, H, at) /\ B[T.root] = Allocated \ {req.key}
  BY <1>1 DEF DeleteOK, IsDeleting
<1>3. PICK C, G : /\ DeleteInv(DeleteTurn(T, at).t, C, G, DeleteTurn(T, at).x)
                  /\ C[DeleteTurn(T, at).t.root] = B[T.root]
  BY <1>1, <1>2, DeleteTurnKeeps
<1>4. /\ T' = DeleteTurn(T, at).t /\ at' = DeleteTurn(T, at).x
      /\ UNCHANGED <<value, nb_elements, loop, req>>
  BY DEF DeleteFixup
<1>5. Allocated' = Allocated
  BY <1>4 DEF Allocated
<1>6. IsDeleting(T, Allocated \ {req.key}, at)'
  BY <1>2, <1>3, <1>4, <1>5 DEF IsDeleting
<1>7. DeleteOK' /\ ValuesOK' /\ nb_elements' \in Nat
  BY <1>1, <1>4, <1>5, <1>6 DEF DeleteOK, ValuesOK, IInv
<1>. QED
  BY <1>7 DEF IInv

LEMMA DeleteDoneKeepsIInv ==
    ASSUME IInv, DeleteDone
    PROVE  IInv'
<1>1. DeleteOK /\ ~ (at # T.root /\ T.color[at] = "black")
  BY DEF IInv, IdleOK, InsertOK, DeleteDone, DeleteGoesOn
<1>2. PICK B, H : DeleteInv(T, B, H, at) /\ B[T.root] = Allocated \ {req.key}
  BY <1>1 DEF DeleteOK, IsDeleting
<1>3. PICK u : u = SetColor(T, at, "black")
  OBVIOUS
<1>4. PICK G : Resolved(u, B, G) /\ u.root = T.root
  BY <1>1, <1>2, <1>3, DeleteEnds
<1>5. T' = u /\ Freed(req.key) /\ loop' = "none" /\ at' = nil /\ req' = NoReq
  BY <1>3 DEF DeleteDone, Leave
<1>6. /\ ValuesOK' /\ Allocated' = Allocated \ {req.key}
      /\ nb_elements' \in Nat /\ nb_elements' = Cardinality(Allocated')
  BY <1>1, <1>5, OneLess DEF DeleteOK, IInv
<1>7. IsTree(T, Allocated)'
  BY <1>2, <1>4, <1>5, <1>6 DEF IsTree
<1>8. IdleOK'
  BY <1>5, <1>6, <1>7 DEF IdleOK, NoReq
<1>. QED
  BY <1>6, <1>8 DEF IInv

LEMMA NextIInv ==
    ASSUME IInv, [Next]_vars
    PROVE  IInv'
<1>1. ASSUME NEW k \in Key \cup {NULL}, NEW v \in Value \cup {NULL}, CmdRSETRefused(k, v)
      PROVE  IInv'
  BY <1>1, UnchangedKeeps DEF CmdRSETRefused
<1>2. ASSUME NEW k \in Key, NEW v \in Value, CmdRSET(k, v) PROVE IInv'
  BY <1>2, SetKeepsIInv
<1>3. ASSUME NEW k \in Key \cup {NULL}, CmdRGET(k) PROVE IInv'
  BY <1>3, UnchangedKeeps DEF CmdRGET
<1>4. CASE CmdRCOUNT
  BY <1>4, UnchangedKeeps DEF CmdRCOUNT
<1>5. ASSUME NEW k \in Key \cup {NULL}, CmdREXIST(k) PROVE IInv'
  BY <1>5, UnchangedKeeps DEF CmdREXIST
<1>6. ASSUME NEW k \in Key \cup {NULL}, CmdRDELETEMiss(k) PROVE IInv'
  BY <1>6, UnchangedKeeps DEF CmdRDELETEMiss
<1>7. ASSUME NEW k \in Key, CmdRDELETE(k) PROVE IInv'
  BY <1>7, DeleteKeepsIInv
<1>8. CASE InsertFixup
  BY <1>8, InsertFixupKeepsIInv
<1>9. CASE InsertDone
  BY <1>9, InsertDoneKeepsIInv
<1>10. CASE DeleteFixup
  BY <1>10, DeleteFixupKeepsIInv
<1>11. CASE DeleteDone
  BY <1>11, DeleteDoneKeepsIInv
<1>12. CASE UNCHANGED vars
  BY <1>12, UnchangedKeeps DEF vars, tree, idle
<1>. QED
  BY <1>1, <1>2, <1>3, <1>4, <1>5, <1>6, <1>7, <1>8, <1>9, <1>10, <1>11, <1>12 DEF Next, Engine

\* The invariant of the proof gives the ones the runs check.
LEMMA InvariantImplies ==
    ASSUME IInv
    PROVE  SearchTree /\ RedBlack /\ FixupInvariant /\ CountExact
<1>1. PICK B, H :
        /\ Tree(T, B)
        /\ \/ IdleOK /\ Resolved(T, B, H) /\ B[T.root] = Allocated
           \/ InsertOK /\ Inserting(T, B, H, at)
           \/ DeleteOK /\ DeleteInv(T, B, H, at)
  <2>1. CASE IdleOK
    BY <2>1 DEF IdleOK, IsTree, Resolved
  <2>2. CASE InsertOK
    BY <2>2 DEF InsertOK, IsInserting, Inserting
  <2>3. CASE DeleteOK
    BY <2>3 DEF DeleteOK, IsDeleting, DeleteInv
  <2>. QED
    BY <2>1, <2>2, <2>3 DEF IInv
<1>2. T \in TreeType /\ T.root \in Node /\ InTree = B[T.root]
  BY <1>1, SubtreeIs, TreeFields DEF InTree, Tree
<1>3. T.color[nil] = "black" /\ at \in Node /\ loop \in {"none", "insert", "delete"}
  <2>1. CASE IdleOK /\ Resolved(T, B, H)
    BY <2>1, ConstantFacts DEF IdleOK, Resolved, Heights
  <2>2. CASE InsertOK /\ Inserting(T, B, H, at)
    <3>1. at \in Key
      BY <1>1, <2>2, ParentOf DEF Inserting
    <3>. QED
      BY <2>2, <3>1, ConstantFacts DEF InsertOK, Inserting, Heights
  <2>3. CASE DeleteOK /\ DeleteInv(T, B, H, at)
    BY <2>3, DeleteExtra DEF DeleteOK
  <2>. QED
    BY <1>1, <2>1, <2>2, <2>3
<1>4. TypeOK
  <2>1. nb_elements \in Nat /\ nb_elements <= Cardinality(Allocated)
    BY AllocatedIs DEF IInv, IdleOK, InsertOK, DeleteOK
  <2>2. nb_elements \in 0 .. Cardinality(Key)
    BY <2>1, AllocatedIs
  <2>. QED
    BY <1>2, <1>3, <2>2 DEF TypeOK, TreeType, IInv, ValuesOK
<1>5. SearchTree
  BY <1>1, <1>3, <1>4, SearchTreeIs
<1>6. BlackHeight >= 0
  <2>1. CASE loop # "delete"
    <3>1. Heights(T, H, nil, "left")
      BY <1>1, <2>1 DEF Resolved, Inserting, DeleteOK
    <3>2. \A n \in Key : \A e \in Dir : ExtraAt(n, T.child[e][n]) = Extra(n, e, nil, "left")
      BY <2>1, ConstantFacts DEF ExtraAt, Extra
    <3>. QED
      BY <1>1, <3>1, <3>2, BlackHeightIs
  <2>2. CASE loop = "delete"
    <3>1. DeleteInv(T, B, H, at)
      BY <1>1, <2>2 DEF IdleOK, InsertOK
    <3>2. PICK hp, hd : /\ Heights(T, H, hp, hd)
                        /\ \A n \in Key : \A e \in Dir :
                             ExtraAt(n, T.child[e][n]) = Extra(n, e, hp, hd)
      BY <2>2, <3>1, DeleteExtra
    <3>. QED
      BY <1>1, <3>2, BlackHeightIs
  <2>. QED
    BY <2>1, <2>2
<1>7. ASSUME NEW n \in RedRed
      PROVE  /\ T.parent[n] \in Key
             /\ \E e \in Dir : RedPair(T, T.parent[n], e) /\ T.child[e][T.parent[n]] = n
  BY <1>1, <1>3, RedRedIs
<1>8. RedBlack
  <2>. SUFFICES ASSUME loop = "none"
                PROVE  T.color[T.root] = "black" /\ RedRed = {}
    BY <1>6 DEF RedBlack
  <2>1. Resolved(T, B, H)
    BY <1>1 DEF InsertOK, DeleteOK
  <2>2. \A n \in RedRed : FALSE
    BY <1>7, <2>1 DEF Resolved
  <2>. QED
    BY <2>1, <2>2 DEF Resolved
<1>9. ASSUME loop = "insert"
      PROVE  /\ at \in InTree /\ T.color[at] = "red" /\ RedRed \subseteq {at}
             /\ T.color[T.root] = "red" => at = T.root
  <2>1. Inserting(T, B, H, at)
    BY <1>1, <1>9 DEF IdleOK, DeleteOK
  <2>2. ASSUME NEW n \in RedRed PROVE n = at
    <3>1. PICK p : T.parent[n] = p
      OBVIOUS
    <3>2. PICK e \in Dir : p \in Key /\ RedPair(T, p, e) /\ T.child[e][p] = n
      BY <1>7, <3>1
    <3>. QED
      BY <2>1, <3>2 DEF Inserting
  <2>. QED
    BY <1>2, <2>1, <2>2 DEF Inserting
<1>10. ASSUME loop = "delete"
       PROVE  /\ \A n \in RedRed : at \in {n, T.parent[n]}
              /\ T.color[T.root] = "red" => at = T.root
  <2>1. DeleteInv(T, B, H, at)
    BY <1>1, <1>10 DEF IdleOK, InsertOK
  <2>2. ASSUME NEW n \in RedRed PROVE at \in {n, T.parent[n]}
    <3>1. PICK p : T.parent[n] = p
      OBVIOUS
    <3>2. PICK e \in Dir : p \in Key /\ RedPair(T, p, e) /\ T.child[e][p] = n
      BY <1>7, <3>1
    <3>3. at \in {p, T.child[e][p]}
      BY <2>1, <3>2 DEF DeleteInv
    <3>. QED
      BY <3>1, <3>2, <3>3
  <2>. QED
    BY <2>1, <2>2 DEF DeleteInv
<1>11. FixupInvariant
  BY <1>6, <1>9, <1>10 DEF FixupInvariant
<1>12. CountExact
  <2>. SUFFICES ASSUME loop = "none"
                PROVE  nb_elements = Cardinality(InTree) /\ InTree = Allocated
    BY DEF CountExact, Allocated
  <2>. QED
    BY <1>1, <1>2 DEF IdleOK, InsertOK, DeleteOK
<1>. QED
  BY <1>5, <1>8, <1>11, <1>12

\* The invariant holds between commands and between the turns of a fixup.
THEOREM Invariance == Spec => []IInv
<1>1. IInv /\ [Next]_vars => IInv'
  BY NextIInv
<1>. QED
  BY InitIInv, <1>1, PTL DEF Spec

\* rbtree_left_rotate, rbtree_right_rotate, rbtree_insert, rbtree_delete and
\* both fixups keep the tree a search tree with right parent pointers, and
\* nil a black leaf: for every finite set of keys and after every turn of a
\* loop, not only at its end.
THEOREM StaysSearchTree == Spec => []SearchTree
<1>1. IInv => SearchTree
  BY InvariantImplies
<1>. QED
  BY <1>1, Invariance, PTL

\* When a command has returned, the root is black, no red node has a red
\* parent and every way down from the root has as many black nodes: the two
\* fixups repair whatever an insertion or a deletion can break, however far
\* up they have to go.
THEOREM StaysRedBlack == Spec => []RedBlack
<1>1. IInv => RedBlack
  BY InvariantImplies
<1>. QED
  BY <1>1, Invariance, PTL

\* At the head of the loop of rbtree_insert_fixup z is red and the only node
\* that may have a red parent; at the head of that of rbtree_delete_fixup x
\* stands for one black node more, and only x may clash in colour with the
\* nodes next to it.
THEOREM FixupsKeepInvariant == Spec => []FixupInvariant
<1>1. IInv => FixupInvariant
  BY InvariantImplies
<1>. QED
  BY <1>1, Invariance, PTL

\* RCOUNT is the number of nodes rbtree_search can reach, and every node that
\* put_kv_rbtree allocated and delete_kv_rbtree did not free is one of them.
THEOREM CountIsExact == Spec => []CountExact
<1>1. IInv => CountExact
  BY InvariantImplies
<1>. QED
  BY <1>1, Invariance, PTL
-----------------------------------------------------------------------------
(***************************************************************************)
(* The fixup loops end.                                                    *)
(***************************************************************************)
\* The nodes above n.
Above(t, B, n) == {m \in B[t.root] : t.parent[n] \in B[m]}

LEMMA ParentIsHigher ==
    ASSUME NEW t, NEW B, Tree(t, B), NEW x, NEW p, p = t.parent[x], p \in B[t.root]
    PROVE  /\ Cardinality(Above(t, B, p)) \in Nat /\ Cardinality(Above(t, B, x)) \in Nat
           /\ Cardinality(Above(t, B, p)) < Cardinality(Above(t, B, x))
<1>1. p \in Key /\ t.root \in Key /\ B \in [Node -> SUBSET Key] /\ \A m \in Key : B[m] \subseteq Key
  BY ParentOf, ConstantFacts DEF Tree
<1>2. p \in Above(t, B, x)
  BY <1>1, ConstantFacts DEF Above, Tree
<1>3. Above(t, B, p) \subseteq Above(t, B, x) /\ p \notin Above(t, B, p)
  <2>1. CASE p = t.root
    <3>1. t.parent[p] = nil
      BY <2>1, ParentOf
    <3>2. \A m \in B[t.root] : nil \notin B[m]
      BY <1>1, ConstantFacts
    <3>3. Above(t, B, p) = {}
      BY <3>1, <3>2 DEF Above
    <3>. QED
      BY <3>3
  <2>2. CASE p # t.root
    <3>1. PICK q : q = t.parent[p]
      OBVIOUS
    <3>2. q \in Key
      BY <2>2, <3>1, ParentOf
    <3>3. PICK e \in Dir : t.child[e][q] = p
      BY <2>2, <3>1, ParentOf
    <3>4. p \in B[q] /\ q \notin B[p]
      BY <1>1, <3>2, <3>3, Children, ConstantFacts
    <3>5. ASSUME NEW m \in B[t.root], q \in B[m]
          PROVE  p \in B[m]
      <4>1. m \in Key
        BY <1>1
      <4>2. B[q] \subseteq B[m]
        BY <3>5, <4>1, BelowBelow
      <4>. QED
        BY <3>4, <4>2
    <3>. QED
      BY <3>1, <3>4, <3>5 DEF Above
  <2>. QED
    BY <2>1, <2>2
<1>4. IsFiniteSet(Above(t, B, x))
  <2>1. Above(t, B, x) \subseteq Key
    BY <1>1 DEF Above
  <2>. QED
    BY <2>1, ConstantFacts, FS_Subset
<1>5. /\ IsFiniteSet(Above(t, B, p))
      /\ Cardinality(Above(t, B, p)) <= Cardinality(Above(t, B, x))
      /\ Above(t, B, p) # Above(t, B, x)
      /\ Cardinality(Above(t, B, p)) = Cardinality(Above(t, B, x)) => Above(t, B, p) = Above(t, B, x)
  BY <1>2, <1>3, <1>4, FS_Subset
<1>. QED
  BY <1>4, <1>5, FS_CardinalityType

\* The depth of the node of the loop, from the keys below each node.
DepthKnown == \A B : Tree(T, B) => Depth(at) = Cardinality(Above(T, B, at))

LEMMA DepthIsKnown == DepthKnown /\ DepthKnown'
<1>1. DepthKnown
  <2>. SUFFICES ASSUME NEW B, Tree(T, B)
                PROVE  Depth(at) = Cardinality(Above(T, B, at))
    BY DEF DepthKnown
  <2>1. \A n \in Node : Subtree[n] = B[n]
    BY SubtreeIs
  <2>2. T.root \in Node /\ B[T.root] \subseteq Node
    BY TreeFields, ConstantFacts DEF Tree
  <2>3. InTree = B[T.root]
    BY <2>1, <2>2 DEF InTree
  <2>4. {m \in InTree : T.parent[at] \in Subtree[m]} = Above(T, B, at)
    BY <2>1, <2>2, <2>3 DEF Above
  <2>. QED
    BY <2>4 DEF Depth
<1>. QED
  BY <1>1, PTL

LEMMA SameAbove ==
    ASSUME NEW t, NEW u, NEW B, NEW n, SameLinks(t, u)
    PROVE  Above(u, B, n) = Above(t, B, n)
BY DEF SameLinks, Above

LEMMA InsertFixupClimbs ==
    ASSUME IInv, InsertFixup, InsertGoesOn'
    PROVE  Depth(at)' < Depth(at)
<1>1. InsertOK /\ T.color[T.parent[at]] = "red"
  BY DEF IInv, IdleOK, DeleteOK, InsertFixup, InsertGoesOn
<1>2. PICK B, H : Inserting(T, B, H, at)
  BY <1>1 DEF InsertOK, IsInserting
<1>3. InsertTurnClimbs(T, at)
  BY <1>1, <1>2, InsertTurnKeeps
<1>4. T' = InsertTurn(T, at).t /\ at' = InsertTurn(T, at).z /\ T'.color[T'.parent[at']] = "red"
  BY DEF InsertFixup, InsertGoesOn
<1>5. SameLinks(T, T') /\ at' = T.parent[T.parent[at]]
  BY <1>3, <1>4 DEF InsertTurnClimbs
<1>6. PICK p, g, d : Family(T, B, H, at, p, g, d) /\ p = T.parent[at] /\ g = T.parent[p]
  BY <1>1, <1>2, InsertFamily
<1>7. Tree(T, B) /\ p \in B[T.root] /\ g \in B[T.root]
  BY <1>2, <1>6 DEF Inserting, Family
<1>8. /\ Cardinality(Above(T, B, g)) \in Nat /\ Cardinality(Above(T, B, p)) \in Nat
      /\ Cardinality(Above(T, B, g)) < Cardinality(Above(T, B, p))
  BY <1>6, <1>7, ParentIsHigher
<1>9. /\ Cardinality(Above(T, B, at)) \in Nat
      /\ Cardinality(Above(T, B, p)) < Cardinality(Above(T, B, at))
  BY <1>6, <1>7, ParentIsHigher
<1>10. Depth(at) = Cardinality(Above(T, B, at))
  BY <1>7, DepthIsKnown DEF DepthKnown
<1>11. Tree(T', B)
  BY <1>5, <1>7, ColorsKeepTree
<1>12. Depth(at)' = Cardinality(Above(T', B, at'))
  BY <1>11, DepthIsKnown DEF DepthKnown
<1>13. Above(T', B, at') = Above(T, B, g)
  BY <1>5, <1>6, SameAbove
<1>. QED
  BY <1>8, <1>9, <1>10, <1>12, <1>13

LEMMA DeleteFixupClimbs ==
    ASSUME IInv, DeleteFixup, DeleteGoesOn'
    PROVE  Depth(at)' < Depth(at)
<1>1. DeleteOK /\ at # T.root /\ T.color[at] = "black"
  BY DEF IInv, IdleOK, InsertOK, DeleteFixup, DeleteGoesOn
<1>2. PICK B, H : DeleteInv(T, B, H, at)
  BY <1>1 DEF DeleteOK, IsDeleting
<1>3. DeleteTurnClimbs(T, at)
  BY <1>1, <1>2, DeleteTurnKeeps
<1>4. /\ T' = DeleteTurn(T, at).t /\ at' = DeleteTurn(T, at).x
      /\ at' # T'.root /\ T'.color[at'] = "black"
  BY DEF DeleteFixup, DeleteGoesOn
<1>5. SameLinks(T, T') /\ at' = T.parent[at]
  BY <1>3, <1>4 DEF DeleteTurnClimbs
<1>6. PICK p : p = T.parent[at]
  OBVIOUS
<1>7. Tree(T, B) /\ p \in B[T.root]
  BY <1>1, <1>2, <1>6 DEF DeleteInv
<1>8. /\ Cardinality(Above(T, B, p)) \in Nat /\ Cardinality(Above(T, B, at)) \in Nat
      /\ Cardinality(Above(T, B, p)) < Cardinality(Above(T, B, at))
  BY <1>6, <1>7, ParentIsHigher
<1>9. Depth(at) = Cardinality(Above(T, B, at))
  BY <1>7, DepthIsKnown DEF DepthKnown
<1>10. Tree(T', B)
  BY <1>5, <1>7, ColorsKeepTree
<1>11. Depth(at)' = Cardinality(Above(T', B, at'))
  BY <1>10, DepthIsKnown DEF DepthKnown
<1>12. Above(T', B, at') = Above(T, B, p)
  BY <1>5, <1>6, SameAbove
<1>. QED
  BY <1>8, <1>9, <1>11, <1>12

\* A loop is left by a step that ends it, and by no other command.
LEMMA OnlyTurnsGoOn ==
    ASSUME Next, \/ InsertGoesOn /\ InsertGoesOn'
                 \/ DeleteGoesOn /\ DeleteGoesOn'
    PROVE  \/ InsertFixup /\ InsertGoesOn'
           \/ DeleteFixup /\ DeleteGoesOn'
<1>1. loop \in {"insert", "delete"} /\ loop' = loop
  BY DEF InsertGoesOn, DeleteGoesOn
<1>2. ~ Idle
  BY <1>1 DEF Idle
<1>3. Engine
  BY <1>2 DEF Next, CmdRSETRefused, CmdRSET, CmdRGET, CmdRCOUNT, CmdREXIST, CmdRDELETEMiss, CmdRDELETE
<1>4. ~ InsertDone /\ ~ DeleteDone
  BY <1>1 DEF InsertDone, DeleteDone, Leave
<1>5. CASE InsertFixup
  <2>1. loop = "insert"
    BY <1>5 DEF InsertFixup, InsertGoesOn
  <2>2. ~ DeleteGoesOn
    BY <2>1 DEF DeleteGoesOn
  <2>. QED
    BY <1>5, <2>2
<1>6. CASE DeleteFixup
  <2>1. loop = "delete"
    BY <1>6 DEF DeleteFixup, DeleteGoesOn
  <2>2. ~ InsertGoesOn
    BY <2>1 DEF InsertGoesOn
  <2>. QED
    BY <1>6, <2>2
<1>. QED
  BY <1>3, <1>4, <1>5, <1>6 DEF Engine

\* Neither rbtree_insert_fixup nor rbtree_delete_fixup can run for ever, in a
\* tree of any height: whenever the loop's condition still holds after a
\* turn, z or x has come nearer to the root.  The turns that rotate, and so
\* lower nodes, are all last turns.
THEOREM FixupsEnd == Spec => FixupClimbs
<1>1. IInv /\ [Next]_vars =>
        [(InsertGoesOn /\ InsertGoesOn') \/ (DeleteGoesOn /\ DeleteGoesOn')
         => Depth(at)' < Depth(at)]_vars
  BY OnlyTurnsGoOn, InsertFixupClimbs, DeleteFixupClimbs
<1>. QED
  BY <1>1, Invariance, PTL DEF Spec, FixupClimbs
-----------------------------------------------------------------------------
(***************************************************************************)
(* The engine implements the map.                                          *)
(***************************************************************************)
\* The value of k in the map: a new node counts when its fixup has ended, a
\* deleted one until its fixup has ended.
InMap(k) == IF loop = "insert" /\ k = req.key THEN NULL ELSE value[k]
SearchAgrees == \A k \in Key : MapValue(k) = InMap(k)

LEMMA SearchAgreesHolds == (IInv => SearchAgrees) /\ (IInv' => SearchAgrees')
<1>1. ASSUME IInv PROVE SearchAgrees
  <2>. SUFFICES ASSUME NEW k \in Key PROVE MapValue(k) = InMap(k)
    BY DEF SearchAgrees
  <2>1. k # nil /\ (k \notin Allocated => value[k] = NULL)
    BY ConstantFacts DEF Allocated
  <2>2. CASE IdleOK
    BY <2>1, <2>2, IdleSearch DEF MapValue, InMap, IdleOK
  <2>3. CASE InsertOK
    <3>1. PICK B, H : Inserting(T, B, H, at) /\ B[T.root] = Allocated
      BY <2>3 DEF InsertOK, IsInserting
    <3>2. rbtree_search(k) = IF k \in Allocated THEN k ELSE nil
      BY <3>1, SearchIs DEF Inserting
    <3>. QED
      BY <2>1, <2>3, <3>2 DEF MapValue, InMap, InsertOK
  <2>4. CASE DeleteOK
    <3>1. PICK B, H : DeleteInv(T, B, H, at) /\ B[T.root] = Allocated \ {req.key}
      BY <2>4 DEF DeleteOK, IsDeleting
    <3>2. rbtree_search(k) = IF k \in Allocated \ {req.key} THEN k ELSE nil
      BY <3>1, SearchIs DEF DeleteInv
    <3>. QED
      BY <2>1, <2>4, <3>2 DEF MapValue, InMap, DeleteOK
  <2>. QED
    BY <1>1, <2>2, <2>3, <2>4 DEF IInv
<1>2. IInv => SearchAgrees
  BY <1>1
<1>. QED
  BY <1>2, PTL

\* The map's instance of FiniteSets is ours.
LEMMA SameCardinality == \A S : Map!Cardinality(S) = Cardinality(S)
BY Zenon DEF Map!Cardinality, Cardinality

LEMMA SameReplies ==
    /\ SUCCESS = Map!SUCCESS /\ FAILED = Map!FAILED /\ NO_EXIST = Map!NO_EXIST
    /\ \A x : IntReply(x) = Map!IntReply(x) /\ ValueReply(x) = Map!ValueReply(x)
    /\ \A x, y : GetReply(x, y) = Map!GetReply(x, y)
    /\ \A b \in BOOLEAN : ExistReply(b) = Map!ExistReply(b)
BY DEF SUCCESS, FAILED, NO_EXIST, Map!SUCCESS, Map!FAILED, Map!NO_EXIST, IntReply, Map!IntReply,
       ValueReply, Map!ValueReply, GetReply, Map!GetReply, ExistReply, Map!ExistReply

\* What the map answers for what the engine answers.
Clean(o) == CASE o = ValueReply(EmptyValue) -> NO_EXIST
              [] o = IntReply(-1)           -> IntReply(0)
              [] OTHER                      -> o

LEMMA CleanIs ==
    /\ Clean(SUCCESS) = SUCCESS /\ Clean(FAILED) = FAILED /\ Clean(NO_EXIST) = NO_EXIST
    /\ Clean(ValueReply(EmptyValue)) = NO_EXIST /\ Clean(IntReply(-1)) = IntReply(0)
    /\ \A v \in Value : Clean(ValueReply(v)) = ValueReply(v)
    /\ \A n \in Nat : Clean(IntReply(n)) = IntReply(n)
<1>1. /\ SUCCESS # ValueReply(EmptyValue) /\ FAILED # ValueReply(EmptyValue)
      /\ NO_EXIST # ValueReply(EmptyValue) /\ SUCCESS # IntReply(-1)
      /\ FAILED # IntReply(-1) /\ NO_EXIST # IntReply(-1)
  BY DEF SUCCESS, FAILED, NO_EXIST, ValueReply, IntReply
<1>2. \A v \in Value : ValueReply(v) # ValueReply(EmptyValue) /\ ValueReply(v) # IntReply(-1)
  BY ConstantFacts DEF ValueReply, IntReply
<1>3. \A n \in Nat : IntReply(n) # ValueReply(EmptyValue) /\ IntReply(n) # IntReply(-1)
  BY DEF ValueReply, IntReply
<1>4. IntReply(-1) # ValueReply(EmptyValue)
  BY DEF ValueReply, IntReply
<1>. QED
  BY <1>1, <1>2, <1>3, <1>4 DEF Clean

LEMMA AnswerIs ==
    ASSUME NEW cmd, NEW k, NEW v, NEW o, Answer(cmd, k, v, o)
    PROVE  Map!Answer(cmd, k, v, Clean(o))
BY DEF Answer, Map!Answer, MapReply, Clean

\* The map before a step and after it.
LEMMA MapIs ==
    ASSUME IInv, IInv'
    PROVE  /\ [k \in Key |-> MapValue(k)] = [k \in Key |-> InMap(k)]
           /\ [k \in Key |-> MapValue(k)]' = [k \in Key |-> InMap(k)']
<1>1. \A k \in Key : MapValue(k) = InMap(k)
  BY SearchAgreesHolds DEF SearchAgrees
<1>2. \A k \in Key : MapValue(k)' = InMap(k)'
  BY SearchAgreesHolds DEF SearchAgrees
<1>. QED
  BY <1>1, <1>2

LEMMA SameMap ==
    ASSUME IInv, IInv', UNCHANGED <<tree, idle>>
    PROVE  [k \in Key |-> MapValue(k)]' = [k \in Key |-> MapValue(k)]
<1>1. \A k \in Key : InMap(k)' = InMap(k)
  BY DEF InMap, tree, idle
<1>. QED
  BY <1>1, MapIs

LEMMA LookupIs ==
    ASSUME IInv, IdleOK, NEW k \in Key \cup {NULL}
    PROVE  Map!Lookup(k) = IF k = NULL THEN NULL ELSE value[k]
<1>1. CASE k \in Key
  <2>1. MapValue(k) = value[k]
    BY <1>1, SearchAgreesHolds DEF SearchAgrees, InMap, IdleOK
  <2>. QED
    BY <1>1, <2>1, ConstantFacts DEF Map!Lookup
<1>2. CASE k = NULL
  BY <1>2, ConstantFacts DEF Map!Lookup
<1>. QED
  BY <1>1, <1>2

LEMMA ExistsIsLookup ==
    ASSUME IInv, IdleOK, NEW k \in Key \cup {NULL}
    PROVE  Exists(k) <=> Map!Lookup(k) # NULL
BY LookupIs, ExistsIs, ConstantFacts DEF Allocated

LEMMA StoredIs ==
    ASSUME IInv
    PROVE  /\ Map!Cardinality(Map!Stored) \in Nat
           /\ IdleOK => Map!Cardinality(Map!Stored) = Cardinality(Allocated)
<1>1. Map!Stored = {k \in Key : MapValue(k) # NULL}
  BY DEF Map!Stored
<1>2. Map!Stored \subseteq Key
  BY <1>1
<1>3. Cardinality(Map!Stored) \in Nat
  BY <1>2, ConstantFacts, FS_Subset, FS_CardinalityType
<1>4. IdleOK => Map!Stored = Allocated
  BY <1>1, SearchAgreesHolds DEF SearchAgrees, InMap, IdleOK, Allocated
<1>. QED
  BY <1>3, <1>4, SameCardinality

\* The end of RSET is SetNew of the map.
LEMMA InsertDoneIsSetNew ==
    ASSUME IInv, IInv', InsertDone
    PROVE  Map!Next
<1>1. InsertOK
  BY DEF IInv, IdleOK, DeleteOK, InsertDone
<1>2. PICK k, v : k = req.key /\ v = req.val
  OBVIOUS
<1>3. /\ k \in Key /\ v \in Value /\ value[k] = v /\ loop = "insert"
  BY <1>1, <1>2 DEF InsertOK, Allocated
<1>4. loop' = "none" /\ value' = value
  BY DEF InsertDone, Leave
<1>5. \A q \in Key : InMap(q)' = IF q = k THEN v ELSE InMap(q)
  BY <1>2, <1>3, <1>4 DEF InMap
<1>6. InMap(k) = NULL
  BY <1>2, <1>3 DEF InMap
<1>7. [q \in Key |-> MapValue(q)]' = [[q \in Key |-> MapValue(q)] EXCEPT ![k] = v]
  BY <1>3, <1>5, MapIs
<1>8. MapValue(k) = NULL
  BY <1>3, <1>6, SearchAgreesHolds DEF SearchAgrees
<1>9. Map!Cardinality(Map!Stored) # -1
  BY StoredIs
<1>10. Map!Answer("SET", k, v, Map!SUCCESS)
  <2>1. Answer("SET", k, v, SUCCESS)
    BY <1>2 DEF InsertDone, StatusReply
  <2>. QED
    BY <2>1, AnswerIs, CleanIs, SameReplies
<1>11. Map!SetNew(k, v)
  BY <1>3, <1>7, <1>8, <1>9, <1>10 DEF Map!SetNew
<1>. QED
  BY <1>3, <1>11 DEF Map!Next

\* The end of RDELETE, with or without a fixup, is Delete of the map.
LEMMA FreedIsDelete ==
    ASSUME IInv, IInv', NEW k \in Allocated, Freed(k), loop # "insert", loop' = "none"
    PROVE  Map!Next
<1>1. k \in Key /\ value[k] # NULL
  BY DEF Allocated
<1>2. value' = [value EXCEPT ![k] = NULL] /\ value \in [Node -> Value \cup {NULL, EmptyValue}]
      /\ \A q \in Key : q \in Node
  BY ConstantFacts DEF Freed, IInv, ValuesOK
<1>3. \A q \in Key : InMap(q)' = IF q = k THEN NULL ELSE InMap(q)
  BY <1>1, <1>2 DEF InMap
<1>4. InMap(k) # NULL
  BY <1>1 DEF InMap
<1>5. [q \in Key |-> MapValue(q)]' = [[q \in Key |-> MapValue(q)] EXCEPT ![k] = NULL]
  BY <1>1, <1>3, MapIs
<1>6. Map!Lookup(k) # NULL
  <2>1. MapValue(k) # NULL
    BY <1>1, <1>4, SearchAgreesHolds DEF SearchAgrees
  <2>. QED
    BY <1>1, <2>1 DEF Map!Lookup
<1>7. Map!Answer("DELETE", k, NULL, Map!SUCCESS)
  <2>1. Answer("DELETE", k, NULL, SUCCESS)
    BY DEF Freed, StatusReply
  <2>. QED
    BY <2>1, AnswerIs, CleanIs, SameReplies
<1>8. Map!Delete(k)
  BY <1>5, <1>6, <1>7 DEF Map!Delete
<1>. QED
  BY <1>1, <1>8 DEF Map!Next

\* A command that changes nothing gives the answer of the map.
LEMMA QueriesAnswerAsMap ==
    ASSUME IInv, IInv', IdleOK, UNCHANGED <<tree, idle>>
    PROVE  /\ \A k \in Key \cup {NULL}, v \in Value \cup {NULL} : CmdRSETRefused(k, v) => Map!Next
           /\ \A k \in Key \cup {NULL} : CmdRGET(k) \/ CmdREXIST(k) \/ CmdRDELETEMiss(k) => Map!Next
           /\ CmdRCOUNT => Map!Next
<1>0. [k \in Key |-> MapValue(k)]' = [k \in Key |-> MapValue(k)]
  BY SameMap
<1>1. ASSUME NEW k \in Key \cup {NULL}, NEW v \in Value \cup {NULL}, CmdRSETRefused(k, v)
      PROVE  Map!Next
  <2>1. Answer("SET", k, v, FAILED)
    BY <1>1 DEF CmdRSETRefused, StatusReply
  <2>2. Map!Answer("SET", k, v, Map!FAILED)
    BY <2>1, AnswerIs, CleanIs, SameReplies
  <2>3. k = NULL \/ v = NULL \/ Map!Lookup(k) # NULL \/ MallocMayFail
    BY <1>1, ExistsIsLookup DEF CmdRSETRefused
  <2>4. Map!SetRefused(k, v)
    BY <1>0, <2>2, <2>3 DEF Map!SetRefused
  <2>. QED
    BY <2>4 DEF Map!Next
<1>2. ASSUME NEW k \in Key \cup {NULL}, CmdRGET(k) PROVE Map!Next
  <2>1. Answer("GET", k, NULL, GetReply(get_kv_rbtree(k), NULL))
    BY <1>2 DEF CmdRGET
  <2>2. Clean(GetReply(get_kv_rbtree(k), NULL)) = GetReply(Map!Lookup(k), NULL)
    <3>1. CASE k = NULL
      <4>1. get_kv_rbtree(k) = NULL /\ Map!Lookup(k) = NULL
        BY <3>1, LookupIs DEF get_kv_rbtree
      <4>. QED
        BY <4>1, CleanIs DEF GetReply
    <3>2. CASE k \in Allocated
      <4>1. k \in Key /\ k # NULL /\ value[k] \in Value /\ value[k] # NULL
        BY <3>2, ConstantFacts DEF Allocated, IInv, ValuesOK
      <4>2. get_kv_rbtree(k) = value[k] /\ Map!Lookup(k) = value[k]
        BY <3>2, <4>1, IdleSearch, LookupIs DEF get_kv_rbtree
      <4>. QED
        BY <4>1, <4>2, CleanIs DEF GetReply
    <3>3. CASE k \in Key /\ k \notin Allocated
      <4>1. k # NULL /\ value[k] = NULL /\ value[nil] = EmptyValue /\ EmptyValue # NULL
        BY <3>3, ConstantFacts DEF Allocated, IInv, ValuesOK
      <4>2. get_kv_rbtree(k) = EmptyValue /\ Map!Lookup(k) = NULL
        BY <3>3, <4>1, IdleSearch, LookupIs DEF get_kv_rbtree
      <4>. QED
        BY <4>1, <4>2, CleanIs DEF GetReply
    <3>. QED
      BY <3>1, <3>2, <3>3
  <2>3. Map!Answer("GET", k, NULL, Map!GetReply(Map!Lookup(k), NULL))
    BY <2>1, <2>2, AnswerIs, SameReplies
  <2>4. Map!Get(k)
    BY <1>0, <2>3 DEF Map!Get
  <2>. QED
    BY <2>4 DEF Map!Next
<1>3. ASSUME NEW k \in Key \cup {NULL}, CmdREXIST(k) PROVE Map!Next
  <2>1. Answer("EXIST", k, NULL, IF k = NULL THEN IntReply(-1) ELSE ExistReply(Exists(k)))
    BY <1>3 DEF CmdREXIST
  <2>2. Clean(IF k = NULL THEN IntReply(-1) ELSE ExistReply(Exists(k)))
          = Map!ExistReply(Map!Lookup(k) # NULL)
    <3>1. CASE k = NULL
      <4>1. Map!Lookup(k) = NULL
        BY <3>1, LookupIs
      <4>. QED
        BY <3>1, <4>1, CleanIs, SameReplies DEF Map!ExistReply
    <3>2. CASE k # NULL
      <4>1. Exists(k) <=> Map!Lookup(k) # NULL
        BY ExistsIsLookup
      <4>2. CASE Map!Lookup(k) = NULL
        BY <3>2, <4>1, <4>2, CleanIs, SameReplies DEF Map!ExistReply, ExistReply
      <4>3. CASE Map!Lookup(k) # NULL
        BY <3>2, <4>1, <4>3, CleanIs, SameReplies DEF Map!ExistReply, ExistReply
      <4>. QED
        BY <4>2, <4>3
    <3>. QED
      BY <3>1, <3>2
  <2>3. Map!Answer("EXIST", k, NULL, Map!ExistReply(Map!Lookup(k) # NULL))
    BY <2>1, <2>2, AnswerIs
  <2>4. Map!Exist(k)
    BY <1>0, <2>3 DEF Map!Exist
  <2>. QED
    BY <2>4 DEF Map!Next
<1>4. ASSUME NEW k \in Key \cup {NULL}, CmdRDELETEMiss(k) PROVE Map!Next
  <2>1. Answer("DELETE", k, NULL, FAILED)
    BY <1>4 DEF CmdRDELETEMiss, StatusReply
  <2>2. Map!Answer("DELETE", k, NULL, Map!FAILED)
    BY <2>1, AnswerIs, CleanIs, SameReplies
  <2>3. Map!Lookup(k) = NULL
    BY <1>4, ExistsIsLookup DEF CmdRDELETEMiss
  <2>4. Map!Delete(k)
    BY <1>0, <2>2, <2>3 DEF Map!Delete
  <2>. QED
    BY <2>4 DEF Map!Next
<1>5. ASSUME CmdRCOUNT PROVE Map!Next
  <2>1. Answer("COUNT", NULL, NULL, IntReply(nb_elements))
    BY <1>5 DEF CmdRCOUNT
  <2>2. nb_elements = Map!Cardinality(Map!Stored) /\ nb_elements \in Nat
    BY StoredIs DEF IdleOK, IInv
  <2>3. Map!Answer("COUNT", NULL, NULL, Map!IntReply(Map!Cardinality(Map!Stored)))
    BY <2>1, <2>2, AnswerIs, CleanIs, SameReplies
  <2>4. Map!Count
    BY <1>0, <2>3 DEF Map!Count
  <2>. QED
    BY <2>4 DEF Map!Next
<1>. QED
  BY <1>1, <1>2, <1>3, <1>4, <1>5

\* Every action of the engine is a step of the map or a stutter.
LEMMA NextIsMapNext ==
    ASSUME IInv, IInv', [Next]_vars
    PROVE  [Map!Next]_(Map!vars)
<1>1. ASSUME Idle PROVE IdleOK
  BY <1>1 DEF Idle, IInv, InsertOK, DeleteOK
<1>2. ASSUME NEW k \in Key \cup {NULL}, NEW v \in Value \cup {NULL}, CmdRSETRefused(k, v)
      PROVE  Map!Next
  <2>1. IdleOK /\ UNCHANGED <<tree, idle>>
    BY <1>1, <1>2 DEF CmdRSETRefused
  <2>. QED
    BY <1>2, <2>1, QueriesAnswerAsMap
<1>3. ASSUME NEW k \in Key \cup {NULL}, CmdRGET(k) \/ CmdREXIST(k) \/ CmdRDELETEMiss(k)
      PROVE  Map!Next
  <2>1. IdleOK /\ UNCHANGED <<tree, idle>>
    BY <1>1, <1>3 DEF CmdRGET, CmdREXIST, CmdRDELETEMiss
  <2>. QED
    BY <1>3, <2>1, QueriesAnswerAsMap
<1>4. ASSUME CmdRCOUNT PROVE Map!Next
  <2>1. IdleOK /\ UNCHANGED <<tree, idle>>
    BY <1>1, <1>4 DEF CmdRCOUNT
  <2>. QED
    BY <1>4, <2>1, QueriesAnswerAsMap
<1>5. ASSUME \A k \in Key : InMap(k)' = InMap(k), reply' = reply PROVE UNCHANGED Map!vars
  <2>1. [k \in Key |-> MapValue(k)]' = [k \in Key |-> MapValue(k)]
    BY <1>5, MapIs
  <2>2. MapReply' = MapReply
    BY <1>5 DEF MapReply
  <2>. QED
    BY <2>1, <2>2 DEF Map!vars
<1>6. ASSUME NEW k \in Key, NEW v \in Value, CmdRSET(k, v) PROVE UNCHANGED Map!vars
  <2>1. IdleOK /\ k \notin Allocated
    BY <1>1, <1>6, ExistsIs DEF CmdRSET
  <2>2. value' = [value EXCEPT ![k] = v] /\ loop' = "insert" /\ req'.key = k /\ reply' = reply
    BY <1>6 DEF CmdRSET, Enter
  <2>3. value[k] = NULL /\ loop = "none" /\ value \in [Node -> Value \cup {NULL, EmptyValue}]
    BY <2>1 DEF Allocated, IdleOK, IInv, ValuesOK
  <2>4. \A q \in Key : InMap(q)' = InMap(q)
    BY <2>2, <2>3, ConstantFacts DEF InMap
  <2>. QED
    BY <1>5, <2>2, <2>4
<1>7. ASSUME NEW k \in Key, CmdRDELETE(k) PROVE Map!Next \/ UNCHANGED Map!vars
  <2>1. IdleOK /\ k \in Allocated
    BY <1>1, <1>7, ExistsIs DEF CmdRDELETE
  <2>2. CASE /\ Enter("delete", OnlyChild(Unlinked(k)), "DELETE", k, NULL)
             /\ UNCHANGED <<value, nb_elements, reply>>
    <3>1. loop' = "delete" /\ value' = value /\ reply' = reply /\ loop = "none"
      BY <2>1, <2>2 DEF Enter, IdleOK
    <3>2. \A q \in Key : InMap(q)' = InMap(q)
      BY <3>1 DEF InMap
    <3>. QED
      BY <1>5, <3>1, <3>2
  <2>3. CASE Freed(k) /\ UNCHANGED idle
    <3>1. loop = "none" /\ loop' = "none"
      BY <2>1, <2>3 DEF IdleOK, idle
    <3>. QED
      BY <2>1, <2>3, <3>1, FreedIsDelete
  <2>. QED
    BY <1>7, <2>2, <2>3 DEF CmdRDELETE
<1>8. CASE InsertFixup \/ DeleteFixup \/ UNCHANGED vars
  <2>1. UNCHANGED <<value, loop, req, reply>>
    BY <1>8 DEF InsertFixup, DeleteFixup, vars
  <2>2. \A q \in Key : InMap(q)' = InMap(q)
    BY <2>1 DEF InMap
  <2>. QED
    BY <1>5, <2>1, <2>2
<1>9. CASE InsertDone
  BY <1>9, InsertDoneIsSetNew
<1>10. CASE DeleteDone
  <2>1. DeleteOK
    BY <1>10 DEF IInv, IdleOK, InsertOK, DeleteDone
  <2>2. req.key \in Allocated /\ loop # "insert" /\ loop' = "none" /\ Freed(req.key)
    BY <1>10, <2>1 DEF DeleteOK, DeleteDone, Leave
  <2>. QED
    BY <2>2, FreedIsDelete
<1>. QED
  BY <1>2, <1>3, <1>4, <1>6, <1>7, <1>8, <1>9, <1>10 DEF Next, Engine

\* An empty tree is the empty map.
LEMMA InitIsMapInit == Init => Map!Init
<1>. SUFFICES ASSUME Init PROVE Map!Init
  OBVIOUS
<1>1. \A k \in Key : MapValue(k) = NULL
  <2>1. \A k \in Key : InMap(k) = NULL
    BY ConstantFacts DEF Init, init_rbtree, InMap
  <2>. QED
    BY <2>1, InitIInv, SearchAgreesHolds DEF SearchAgrees
<1>2. MapReply = [cmd |-> "none", key |-> NULL, val |-> NULL, out |-> NO_EXIST]
  <2>1. MapReply = [cmd |-> "none", key |-> NULL, val |-> NULL, out |-> Clean(NO_EXIST)]
    BY DEF Init, MapReply, Clean
  <2>. QED
    BY <2>1, CleanIs
<1>. QED
  BY <1>1, <1>2, SameReplies DEF Map!Init

\* The red-black tree engine is the unbounded map its clients assume: every
\* answer of RSET, RGET, RCOUNT, RDELETE and REXIST is the one the map gives,
\* but for the two it gives in its own way, for any finite set of keys.
THEOREM Refinement == Spec => Refines
<1>1. Init => Map!Init
  BY InitIsMapInit
<1>2. IInv /\ IInv' /\ [Next]_vars => [Map!Next]_(Map!vars)
  BY NextIsMapNext
<1>. QED
  BY <1>1, <1>2, Invariance, PTL DEF Spec, Map!Spec, Refines
=============================================================================
