------------------------------- MODULE Units -------------------------------
(***************************************************************************)
(* The units of a volume and what is stored in them.                       *)
(***************************************************************************)
CONSTANTS
    Unit,        \* the units of the shard, numbered from 1
    Ciphertext,  \* the ciphertexts callers write
    Tombstone    \* the empty payload: a discarded, or never written, unit

ASSUME UnitsAssumption == Tombstone \notin Ciphertext
=============================================================================
