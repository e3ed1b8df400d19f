-------------------------- MODULE HorizonRegister --------------------------
(***************************************************************************)
(* What the required durable proof promises to the rest of the volume: a   *)
(* register that holds the acknowledgement horizon of the journal.         *)
(*                                                                         *)
(*   acked   the highest horizon whose publication was reported successful *)
(*           to a barrier (FLUSH, FUA) or to recovery;                     *)
(*   seen    the horizon a load would select at this moment;               *)
(*   synced  the highest horizon whose journal data is known durable, the  *)
(*           only thing a caller may offer for publication.                *)
(*                                                                         *)
(* A publication that has not (yet) succeeded may or may not be visible,   *)
(* and a crash may take it back; nothing may ever take back an             *)
(* acknowledged one, and nothing may be visible that was not offered.      *)
(***************************************************************************)
EXTENDS Naturals

VARIABLES acked, seen, synced

hvars == <<acked, seen, synced>>

Init == acked = 0 /\ seen = 0 /\ synced = 0

\* Journal data up to a horizon became durable and its publication starts.
Offer ==
    /\ synced' \in Nat /\ synced' >= synced
    /\ UNCHANGED <<acked, seen>>

\* An unfinished publication shows, or a crash takes it back.
Drift ==
    /\ seen' \in acked..synced
    /\ UNCHANGED <<acked, synced>>

\* The publication of everything offered is reported successful.
Acknowledge ==
    /\ seen = synced
    /\ acked' = synced
    /\ UNCHANGED <<seen, synced>>

Next == Offer \/ Drift \/ Acknowledge

Spec == Init /\ [][Next]_hvars
=============================================================================
