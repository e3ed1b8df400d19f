------------------------------ MODULE MCVolume ------------------------------
(* TLC instance of Volume. *)
EXTENDS Volume
=============================================================================
