---------------------------- MODULE MCPlacement ----------------------------
(* Two Linux workers (ids 1, 2) and one of OpenStack (id 4); the slices      *)
(* "a" and "b" are Linux.                                                    *)
EXTENDS Placement, TLC

CONSTANTS g1, g2, g3

\* The triggers run the same code.
Alike == Permutations(Triggers)

MCCluster  == [w \in Workers |-> IF w < 4 THEN "linux" ELSE "openstack"]
MCTotalRam == [w \in Workers |-> 4]
MCTotalCpu == [w \in Workers |-> 2]
MCSliceOf  == [v \in VMs |-> IF v = "v1" THEN "a" ELSE "b"]
MCTarget   == [s \in Slices |-> "linux"]
MCRam      == [v \in VMs |-> IF v = "v1" THEN 3 ELSE 2]
MCVcpu     == [v \in VMs |-> 1]

\* A loaded worker: too little RAM left for any VM.
MCMeasures == {[ram |-> 1, alive |-> TRUE, cpu |-> 50]}
=============================================================================
