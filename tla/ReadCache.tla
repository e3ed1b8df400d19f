----------------------------- MODULE ReadCache ------------------------------
(***************************************************************************)
(* The versioned plaintext read cache (maki-cache lib.rs): at most one     *)
(* entry per unit, keyed by the write sequence of the version it holds.    *)
(*                                                                         *)
(* Every entry has the size of one unit, so sizes count entries.  map is   *)
(* the table and order the recency index, least recently used first.  The  *)
(* clock is abstracted to the question a lookup asks of it, whether the    *)
(* entry has outlived its time to live.                                    *)
(***************************************************************************)
EXTENDS Integers, Sequences, SequencesExt

NoEntry == [seq |-> 0]

Holds(c, u) == c.map[u] # NoEntry

EmptyCache(units, max) == [map |-> [u \in units |-> NoEntry], order |-> <<>>, max |-> max]

\* The recency index lists a unit at most once; this is the rest of it.
Without(order, u) ==
    IF \A i \in 1..Len(order) : order[i] # u THEN order
    ELSE [i \in 1..(Len(order) - 1) |->
             IF \E j \in 1..i : order[j] = u THEN order[i + 1] ELSE order[i]]

\* Inner::remove
Evicted(c, u) ==
    [map |-> [c.map EXCEPT ![u] = NoEntry], order |-> Without(c.order, u), max |-> c.max]

\* Inner::touch
Touch(c, u) == [map |-> c.map, order |-> Append(Without(c.order, u), u), max |-> c.max]

\* Inner::make_room: the least recently used entries go until need fits.
MakeRoom(c, need) ==
    LET surplus == Len(c.order) + need - c.max
        k == IF surplus <= 0 THEN 0 ELSE IF surplus <= Len(c.order) THEN surplus ELSE Len(c.order)
        out == {c.order[i] : i \in 1..k}
    IN  [map |-> [u \in DOMAIN c.map |-> IF u \in out THEN NoEntry ELSE c.map[u]],
         order |-> SubSeq(c.order, k + 1, Len(c.order)), max |-> c.max]

\* put: a newer version stays; any other one is replaced, or only dropped
\* when nothing can be cached.
Put(c, u, n, d) ==
    IF Holds(c, u) /\ c.map[u].seq > n THEN c
    ELSE LET removed == Evicted(c, u)
         IN  IF c.max = 0 THEN removed
             ELSE LET roomy == MakeRoom(removed, 1)
                      entry == [seq |-> n, data |-> d, expired |-> FALSE]
                  IN  [map |-> [roomy.map EXCEPT ![u] = entry], order |-> Append(roomy.order, u), max |-> c.max]

\* Mutant: a lookup that takes whatever version is there.
HitAnyVersion(c, u, n) == Holds(c, u) /\ ~c.map[u].expired

\* get finds the version asked for.
Hit(c, u, n) == Holds(c, u) /\ c.map[u].seq = n /\ ~c.map[u].expired

\* The cache after get: a hit becomes the most recently used entry, a newer
\* version stays, an older or expired one is evicted.
Get(c, u, n) ==
    IF Hit(c, u, n) THEN Touch(c, u)
    ELSE IF Holds(c, u) /\ c.map[u].seq > n /\ ~c.map[u].expired THEN c
    ELSE Evicted(c, u)

\* reconfigure
Reconfigure(c, max) ==
    IF max = 0 THEN EmptyCache(DOMAIN c.map, 0) ELSE MakeRoom([map |-> c.map, order |-> c.order, max |-> max], 0)

\* The time to live of the entry of u has passed.
Expired(c, u) ==
    LET old == [seq |-> c.map[u].seq, data |-> c.map[u].data, expired |-> TRUE]
    IN  [map |-> [c.map EXCEPT ![u] = old], order |-> c.order, max |-> c.max]
=============================================================================
