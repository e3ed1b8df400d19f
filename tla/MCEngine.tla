------------------------------ MODULE MCEngine ------------------------------
(***************************************************************************)
(* TLC instances of Engine: two units of two blocks, and block ranges that *)
(* cover units, part of one unit, and the border between two units.        *)
(***************************************************************************)
EXTENDS Engine

\* Requests that race for the blocks of the same units, with and without a
\* promise of durability.
RacingRequests ==
    {<<"read", 0, 3, FALSE>>, <<"read", 0, 0, FALSE>>, <<"write", 1, 2, FALSE>>,
     <<"write", 0, 0, TRUE>>, <<"trim", 0, 3, TRUE>>, <<"trim", 1, 2, TRUE>>,
     <<"flush", 0, 0, TRUE>>}

Symmetric == Permutations(Client)
=============================================================================
