---------------------------- MODULE MCDeployment ----------------------------
(* Three VMs in a row, or two.  Workers and free labels make no difference. *)
EXTENDS Deployment, TLC

CONSTANTS w1, w2, x1, x2

MCPair == "left" :> {1, 2}
MCEnds == "left" :> {1, 2} @@ "right" :> {1, 3}

Symmetry == Permutations(Labels) \cup Permutations(Workers)
=============================================================================
