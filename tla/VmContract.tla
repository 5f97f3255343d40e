----------------------------- MODULE VmContract -----------------------------
(***************************************************************************)
(* What the dispatcher promises about a VM, whatever happens on the way:   *)
(* it is published READY only after a driver has built it; READY is final  *)
(* until the slice is deleted; FAILED may still be repaired; nothing       *)
(* happens to a VM that is gone.                                           *)
(***************************************************************************)
CONSTANT VMs
VARIABLES outcome, built

Init ==
  /\ outcome = [v \in VMs |-> "PENDING"]
  /\ built = {}

Become(S, value) == outcome' = [v \in VMs |-> IF v \in S THEN value ELSE outcome[v]]

Build(S) ==
  /\ built' = built \cup S
  /\ UNCHANGED outcome

Publish(S) ==
  /\ S \subseteq built
  /\ \A v \in S : outcome[v] # "GONE"
  /\ Become(S, "READY")
  /\ UNCHANGED built

Fail(S) ==
  /\ \A v \in S : outcome[v] \notin {"READY", "GONE"}
  /\ Become(S, "FAILED")
  /\ UNCHANGED built

Remove(S) ==
  /\ Become(S, "GONE")
  /\ UNCHANGED built

Next == \E S \in SUBSET VMs : Build(S) \/ Publish(S) \/ Fail(S) \/ Remove(S)

Spec == Init /\ [][Next]_<<outcome, built>>
=============================================================================
