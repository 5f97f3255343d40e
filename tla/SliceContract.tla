--------------------------- MODULE SliceContract ---------------------------
(***************************************************************************)
(* What slice-manager promises about a slice: it is edited only as a       *)
(* draft, decided once, and its VMs are handed over for placement once and *)
(* only by the decision that makes it ACTIVE.                              *)
(***************************************************************************)
EXTENDS Integers

CONSTANT Slices
VARIABLES
  phase,    \* "none", "DRAFT", "PENDING_APPROVAL", "ACTIVE", "REJECTED" or "deleted"
  handed    \* how often each VM of the slice was handed over: {} or {n, ...}

Init ==
  /\ phase = [s \in Slices |-> "none"]
  /\ handed = [s \in Slices |-> {}]

Undecided == {"DRAFT", "PENDING_APPROVAL"}

Move(s, p, h) ==
  /\ phase' = [phase EXCEPT ![s] = p]
  /\ handed' = [handed EXCEPT ![s] = h]

Create(s) == \E p \in Undecided : phase[s] = "none" /\ Move(s, p, {0})

HandOver(s) ==
  /\ phase[s] \in Undecided /\ handed[s] = {0}
  /\ \E p \in {phase[s], "ACTIVE"} : Move(s, p, {1})

Activate(s) ==
  /\ phase[s] \in Undecided /\ handed[s] = {1}
  /\ Move(s, "ACTIVE", {1})

Reject(s) ==
  /\ phase[s] = "PENDING_APPROVAL" /\ handed[s] = {0}
  /\ Move(s, "REJECTED", {0})

Remove(s) == phase[s] \notin {"none", "deleted"} /\ Move(s, "deleted", {})

Next == \E s \in Slices : Create(s) \/ HandOver(s) \/ Activate(s) \/ Reject(s) \/ Remove(s)

Spec == Init /\ [][Next]_<<phase, handed>>
=============================================================================
