---------------------------- MODULE MCNetworking ----------------------------
(* Slice s1 is activated, enriched by the dispatcher and deleted (twice, as *)
(* a client may retry), slice s2 is activated and deleted.                  *)
EXTENDS Networking

MCSliceOf == [r \in Requests |-> IF r \in {"a2", "d3"} THEN "s2" ELSE "s1"]
=============================================================================
