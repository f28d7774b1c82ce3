----------------------------- MODULE MCNtyTree -----------------------------
(***************************************************************************)
(* NtyTree, with a last key that two elements have.  Ten keys are the      *)
(* fewest with which RB_REMOVE_COLOR moves up twice.                       *)
(***************************************************************************)
EXTENDS NtyTree

CONSTANT Keys

MCElem == 1 .. Keys + 1
MCKeyOf == [e \in MCElem |-> IF e > Keys THEN Keys ELSE e]

\* No action reads ret, and Refines is checked on every step.
WithoutRet == T
=============================================================================
