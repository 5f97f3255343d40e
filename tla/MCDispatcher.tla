---------------------------- MODULE MCDispatcher ----------------------------
(* Small instances of Dispatcher: an OpenStack slice of two VMs (tasks 1, 2) *)
(* and a Linux slice with links of one VM (task 3).                          *)
EXTENDS Dispatcher

MCTaskVm  == [t \in 1..3 |-> <<"v1", "v2", "v3">>[t]]
MCVmSlice == [v \in {"v1", "v2", "v3"} |-> IF v = "v3" THEN "lin" ELSE "os"]
=============================================================================
