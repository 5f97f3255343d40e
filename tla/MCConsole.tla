----------------------------- MODULE MCConsole -----------------------------
(***************************************************************************)
(* Bounded instance of Console.                                            *)
(***************************************************************************)
EXTENDS Console

CONSTANTS d1, d2

\* Saved from a design of two VMs, and from one whose second VM was deleted.
Saved == [d \in Drafts |-> IF d = d1 THEN [vms |-> <<1, 2>>, links |-> {<<1, 2>>}]
                                     ELSE [vms |-> <<1, 3>>, links |-> {<<3, 1>>}]]
=============================================================================
