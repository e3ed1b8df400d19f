-------------------------- MODULE MCRemoteWitness --------------------------
(* Two processes on one root, the authority on a file store and on etcd.   *)
EXTENDS RemoteWitness, TLC

MCOp == (0..MaxFlows) \X (1..(MaxGeneration + 4))
MCAuth == 0..MaxFlows
MCRoot == [gen : 0..MaxGeneration, data : SUBSET MCOp]
MCSetting ==
    {[kind |-> "file", publish |-> 1, process |-> 0, commit |-> 2],
     [kind |-> "file", publish |-> 0, process |-> 1, commit |-> 1],
     [kind |-> "etcd", publish |-> 1, process |-> 0, commit |-> 1]}
Symmetry == Permutations(Host)
=============================================================================
