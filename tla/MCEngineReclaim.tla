--------------------------- MODULE MCEngineReclaim --------------------------
(***************************************************************************)
(* A TLC instance of EngineReclaim: configurations that meet one limit     *)
(* each, so that one state space holds the cases of all of them.           *)
(***************************************************************************)
EXTENDS EngineReclaim

CONSTANTS w1, w2

\* One writer of single records that nobody syncs, an overlay of one entry.
Plain == [writers |-> {w1}, requests |-> {<<1, FALSE, FALSE>>}, largest |-> 1, segment |-> 3, rounds |-> 1,
          journal |-> 7, high |-> 7, overlay |-> 1, pending |-> 3, records |-> 2, faults |-> 0, space |-> 0]

\* A storage call fails, and segments that should have gone are left.
Failing == [Plain EXCEPT !.segment = 2, !.journal = 5, !.high = 5, !.faults = 1]

\* The space runs out, and a storage call fails.
Full == [Plain EXCEPT !.records = 1, !.faults = 1, !.space = 1]

\* Two writers that fill the room again which the other one has made.
Crowded == {[Plain EXCEPT !.writers = {w1, w2}, !.records = 3, !.rounds = r] : r \in {1, 2}}

\* The limit of the journal is met before that of the overlay; durable
\* records, and discards of units that are all unwritten.
Long == [Plain EXCEPT !.requests = {<<1, TRUE, FALSE>>, <<0, FALSE, TRUE>>}, !.segment = 2, !.journal = 5,
                      !.high = 4, !.overlay = 3, !.records = 3, !.rounds = 2]

Limits == {Failing, Full, Long} \cup Crowded
=============================================================================
