--------------------------- MODULE DurableVolume ---------------------------
(***************************************************************************)
(* What a volume promises its caller: a history of accepted records, reads *)
(* that return the newest one of their unit, and restarts that lose at     *)
(* most the records after the last barrier that was reported.              *)
(***************************************************************************)
EXTENDS Integers, Sequences

CONSTANTS Unit, Ciphertext, Tombstone

VARIABLES
    hist,   \* the accepted records, in order
    floor,  \* records 1..floor were reported durable
    view    \* what a read of each unit returns; Off while the volume is down

Off == [u \in Unit |-> "off"]

\* The payload of the newest of the first n records on unit u.
Content(records, n, u) ==
    LET mine == {k \in 1..n : records[k].unit = u}
    IN  IF mine = {} THEN Tombstone
        ELSE records[CHOOSE k \in mine : \A j \in mine : j <= k].v

Reads(records) == [u \in Unit |-> Content(records, Len(records), u)]

Init == hist = << >> /\ floor = 0 /\ view = Off

\* A write or discard takes effect in the history and in reads at once, and
\* with FUA it is reported durable, together with what precedes it.
Accept(u, v) ==
    /\ view # Off
    /\ hist' = Append(hist, [unit |-> u, v |-> v])
    /\ floor' \in {floor, Len(hist')}
    /\ view' = Reads(hist')

Barrier == view # Off /\ floor' = Len(hist) /\ UNCHANGED <<hist, view>>

Stop == view # Off /\ view' = Off /\ UNCHANGED <<hist, floor>>

\* While the volume is down, records after the floor may go, newest first.
Lose(n) ==
    /\ view = Off /\ n \in floor..Len(hist)
    /\ hist' = SubSeq(hist, 1, n) /\ floor' = n
    /\ UNCHANGED view

Start == view = Off /\ view' = Reads(hist) /\ UNCHANGED <<hist, floor>>

Next ==
    \/ \E u \in Unit, v \in Ciphertext \cup {Tombstone} : Accept(u, v)
    \/ Barrier \/ Stop \/ Start
    \/ \E n \in 0..Len(hist) : Lose(n)

Spec == Init /\ [][Next]_<<hist, floor, view>>
=============================================================================
