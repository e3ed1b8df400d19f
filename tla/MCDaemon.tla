------------------------------ MODULE MCDaemon ------------------------------
(* Two daemons with one control socket path, on one volume or on two; the  *)
(* first serves callbacks and sessions and is shut down by two callers.    *)
EXTENDS Daemon, TLC

CONSTANTS d1, d2, vol1, vol2, t1, s1, u1, u2

MCOwnerOf == [x \in Thread \cup Session \cup Stopper |-> d1]

MCConfigured == {[d \in {d1, d2} |-> vol1], (d1 :> vol1) @@ (d2 :> vol2)}

Req(op, off, len, fua, may) == [op |-> op, off |-> off, len |-> len, fua |-> fua, may |-> may]

(* A split write, a zero with a head, a trim and a tail, and a request     *)
(* that ends beyond the device.                                            *)
MCRequests == {Req("zero", 1, 4, TRUE, TRUE), Req("pwrite", 5, 2, FALSE, FALSE),
               Req("pwrite", 0, 3, TRUE, FALSE)}
=============================================================================
