--------------------------- MODULE MCEndpointSet ---------------------------
(* TLC instance of EndpointSet: two endpoints and two operations. *)
EXTENDS EndpointSet, TLC

CONSTANTS o1, o2

\* Two operations that contend for one permit, and for the circuit of one
\* endpoint; one of two chunks that may not be sent again; a bounded one; and
\* endpoints with other keys, for volumes with a canary, without one, and new
\* ones.  Operations with 0 chunks are refused.
MCSetting ==
    {[key |-> k, proof |-> p, chunks |-> o1 :> m @@ o2 :> n, cfgSafe |-> TRUE, capSafe |-> s, bounded |-> d,
      globalMax |-> g, localMax |-> l] :
        <<k, p, m, n, s, d, g, l>> \in
            {<< <<"own", "own">>, "canary", 1, 1, TRUE, FALSE, 1, 1>>,
             << <<"own", "own">>, "canary", 1, 1, TRUE, FALSE, 2, 2>>,
             << <<"own", "own">>, "canary", 2, 0, FALSE, FALSE, 2, 1>>,
             << <<"own", "own">>, "canary", 1, 0, TRUE, TRUE, 2, 1>>,
             << <<"own", "foreign">>, "canary", 1, 1, FALSE, FALSE, 1, 1>>,
             << <<"own", "rotated">>, "canary", 1, 0, FALSE, FALSE, 1, 1>>,
             << <<"rotated", "own">>, "canary", 1, 0, FALSE, FALSE, 1, 1>>,
             << <<"own", "plain">>, "canary", 1, 0, FALSE, FALSE, 1, 1>>,
             << <<"foreign", "own">>, "none", 1, 0, FALSE, FALSE, 1, 1>>,
             << <<"own", "rotated">>, "data", 1, 0, FALSE, FALSE, 1, 1>>}}
=============================================================================
