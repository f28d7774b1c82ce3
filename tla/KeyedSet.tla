------------------------------ MODULE KeyedSet ------------------------------
(***************************************************************************)
(* What the users of a tree of nty_tree.h see: a set of elements of which  *)
(* no two have the same key.                                               *)
(***************************************************************************)
CONSTANTS Elem, KeyOf, NULL

VARIABLES set,  \* the elements
          ret   \* what the last call returned

Init == set = {} /\ ret = NULL

\* An element whose key is taken stays out, and the one that has it is
\* returned.
Insert(e) ==
    \/ /\ \A f \in set : KeyOf[f] # KeyOf[e]
       /\ set' = set \cup {e}
       /\ ret' = NULL
    \/ /\ \E f \in set : KeyOf[f] = KeyOf[e] /\ ret' = f
       /\ set' = set

Remove(e) ==
    /\ e \in set
    /\ set' = set \ {e}
    /\ ret' = e

Next == \E e \in Elem : Insert(e) \/ Remove(e)
Spec == Init /\ [][Next]_<<set, ret>>
=============================================================================
