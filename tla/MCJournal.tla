----------------------------- MODULE MCJournal -----------------------------
(* TLC instance of Journal. *)
EXTENDS Journal
=============================================================================
