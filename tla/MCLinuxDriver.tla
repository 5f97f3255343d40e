--------------------------- MODULE MCLinuxDriver ---------------------------
(***************************************************************************)
(* Bounded instances of LinuxDriver: `make` and `again` create one VM,     *)
(* `drop` deletes it once both are answered, `other` creates a VM of its   *)
(* slice, and then `twin` one of another slice with the first VM's name.   *)
(***************************************************************************)
EXTENDS LinuxDriver

CONSTANTS make, again, other, drop, twin, v1, v2, v3, n1, n2, s1, s2

Ops       == [r \in Requests |-> IF r = drop THEN "delete" ELSE "create"]
Targets   == [r \in Requests |-> CASE r = other -> v2 [] r = twin -> v3 [] OTHER -> v1]
TwinNames == [v \in Vms |-> IF v = v2 THEN n2 ELSE n1]
TwinSlice == [v \in Vms |-> IF v = v3 THEN s2 ELSE s1]
Creation  == [r \in Requests |-> CASE r = drop -> {make, again} \cap Requests [] r = twin -> {other} [] OTHER -> {}]
=============================================================================
