--------------------------- MODULE MCDurableProof ---------------------------
(***************************************************************************)
(* TLC instance of DurableProof.  MaxGen stands for u64::MAX: it leaves    *)
(* room for three complete publications and their failed retries, so the   *)
(* exhaustion path of advance is reached too.                              *)
(***************************************************************************)
EXTENDS DurableProof
=============================================================================
