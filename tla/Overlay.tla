------------------------------ MODULE Overlay ------------------------------
(***************************************************************************)
(* The ciphertext overlay (maki-core overlay.rs): per unit the latest      *)
(* version, which serves reads, and the latest durable one, which is what  *)
(* a checkpoint may apply.                                                 *)
(*                                                                         *)
(* A version is a sequence number and a payload; the empty payload is the  *)
(* discard tombstone.  Ciphertexts have length one.  The queue of pending  *)
(* promotions is the set of its sequence numbers, each tagged with its     *)
(* unit; it is drained in one step, since only the entry that is a unit's  *)
(* latest version has an effect.                                           *)
(***************************************************************************)
EXTENDS Integers, FiniteSets, Units

NoVersion == [n |-> 0, v |-> Tombstone]

Size(ver) == IF ver.v = Tombstone THEN 0 ELSE 1

EmptyOverlay ==
    [latest |-> [u \in Unit |-> NoVersion], durable |-> [u \in Unit |-> NoVersion],
     pending |-> {}, boundary |-> 0, bytes |-> 0, latestBytes |-> 0]

Held(o, u) == o.latest[u] # NoVersion

\* The units of a set whose version in f is not empty.
Full(f, units) == Cardinality({u \in units : Size(f[u]) = 1})

Publish(o, u, n, v) ==
    LET ver == [n |-> n, v |-> v]
        delta == Size(ver) - Size(o.latest[u])
    IN  [o EXCEPT !.latest[u] = ver, !.pending = @ \cup {[n |-> n, unit |-> u]},
                  !.bytes = @ + delta, !.latestBytes = @ + delta]

Promote(o, durable) ==
    LET ready == {p \in o.pending : p.n <= durable}
        promoted == {u \in Unit : /\ [n |-> o.latest[u].n, unit |-> u] \in ready
                                  /\ o.durable[u].n < o.latest[u].n}
    IN  [o EXCEPT !.boundary = IF durable > @ THEN durable ELSE @,
                  !.pending = @ \ ready,
                  !.durable = [u \in Unit |-> IF u \in promoted THEN o.latest[u] ELSE @[u]],
                  !.bytes = @ - Full(o.durable, promoted) + Full(o.latest, promoted)]

CollectDurable(o, durable) ==
    {[unit |-> u, ver |-> o.durable[u]] :
        u \in {u \in Unit : o.durable[u] # NoVersion /\ o.durable[u].n <= durable}}

\* Mutant: a unit is dropped as soon as its durable version is covered.
RetireAll(o, ck) ==
    LET gone == {u \in Unit : o.durable[u] # NoVersion /\ o.durable[u].n <= ck}
    IN  [o EXCEPT !.durable = [u \in Unit |-> IF u \in gone THEN NoVersion ELSE @[u]],
                  !.latest = [u \in Unit |-> IF u \in gone THEN NoVersion ELSE @[u]],
                  !.pending = {p \in @ : p.unit \notin gone},
                  !.bytes = @ - Full(o.durable, gone) - Full(o.latest, gone),
                  !.latestBytes = @ - Full(o.latest, gone)]

Retire(o, ck) ==
    LET covered == {u \in Unit : o.durable[u] # NoVersion /\ o.durable[u].n <= ck}
        gone == {u \in Unit : Held(o, u) /\ o.latest[u].n <= ck}
    IN  [o EXCEPT !.durable = [u \in Unit |-> IF u \in covered THEN NoVersion ELSE @[u]],
                  !.latest = [u \in Unit |-> IF u \in gone THEN NoVersion ELSE @[u]],
                  !.pending = {p \in @ : p.n > ck},
                  !.bytes = @ - Full(o.durable, covered) - Full(o.latest, gone),
                  !.latestBytes = @ - Full(o.latest, gone)]

\* Overlay::check_invariants: a durable version never leads the latest one nor
\* the boundary; a latest version at or below the boundary is the durable one;
\* the queue holds exactly what is above it; the byte counts are those of the
\* versions held.
Audited(o) ==
    /\ \A u \in Unit :
         /\ o.durable[u] # NoVersion =>
              /\ Held(o, u) /\ o.durable[u].n <= o.latest[u].n
              /\ o.durable[u].n <= o.boundary
              /\ o.durable[u].n = o.latest[u].n => o.durable[u] = o.latest[u]
         /\ Held(o, u) /\ o.latest[u].n <= o.boundary => o.durable[u] = o.latest[u]
    /\ \A p \in o.pending : p.n > o.boundary /\ o.latest[p.unit].n >= p.n
    /\ o.bytes = Full(o.latest, Unit) + Full(o.durable, Unit)
    /\ o.latestBytes = Full(o.latest, Unit)
=============================================================================
