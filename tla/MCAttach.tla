------------------------------ MODULE MCAttach ------------------------------
(* Two volumes whose configurations may name the same volume group and the *)
(* same device, while daemons die, others use the devices, calls fail and  *)
(* helpers are killed, with or without the command they wait for.          *)
EXTENDS Attach, TLC

MCPinned == [v \in Vol |-> AutoDevice]

\* The configuration of one volume names the UUID of its filesystem.
MCFsPinned == [v \in Vol |-> v = CHOOSE w \in Vol : TRUE]

\* Bound on changes by others and faults together.
MaxTrouble == 2

MCNext == AttachNext /\ env' + faults' <= MaxTrouble

MCSpec == AttachInit /\ [][MCNext]_attachVars /\ AttachFairness
=============================================================================
