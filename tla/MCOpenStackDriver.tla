------------------------- MODULE MCOpenStackDriver -------------------------
(***************************************************************************)
(* Bounded instances of OpenStackDriver.                                   *)
(***************************************************************************)
EXTENDS OpenStackDriver

CONSTANTS r1, r2, u, m, s1, i1

Creates   == [r \in {r1, r2} |-> "create"]
AllKinds  == [r \in {r1, r2, u, m} |->
  CASE r = r1 -> "create" [] r = r2 -> "delete" [] r = u -> "upload" [] r = m -> "remove"]
OneName   == [r \in Requests |-> s1]
OneImage  == [r \in Requests |-> i1]
=============================================================================
