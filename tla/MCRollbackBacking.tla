------------------------- MODULE MCRollbackBacking -------------------------
(* TLC instance of RollbackBacking. *)
EXTENDS RollbackBacking, TLC

CONSTANT SubName   \* the files in sub; the others are in the root

MCParent == [p \in Name \cup Dir |-> IF p \in SubName THEN "sub" ELSE Root]

\* Page values and the names in the root are interchangeable.
Symmetry == Permutations(Val) \cup Permutations(Name \ SubName)
=============================================================================
