------------------------------ MODULE Outcomes ------------------------------
(***************************************************************************)
(* Calls that may fail, and registers that a failed call leaves in doubt.  *)
(***************************************************************************)

\* Rust's `?`: a handler is the set of its outcomes, and what follows a call
\* happens after its successful ones only.
Then(outcomes, F(_)) == UNION {IF o.ok THEN F(o) ELSE {o} : o \in outcomes}

\* A two-copy A/B register (AbStore): what a load returns now and what a power
\* loss may leave.  A successful store is certain; a failed one may show and
\* may survive (DurableProof shows this of the pairs of files).
Stored(r, v) == [now |-> v, may |-> {v}]

HalfStored(r, v) == {[now |-> n, may |-> r.may \cup {v}] : n \in {r.now, v}}
=============================================================================
