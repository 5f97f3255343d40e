----------------------------- MODULE Networking -----------------------------
(***************************************************************************)
(* The VLAN pool and the networks of a slice: the allocate and release     *)
(* handlers (networking/app/api.py) together with the three flows that     *)
(* call them, slice-manager's activation and deletion of a slice and the   *)
(* dispatcher's enrichment of a task.                                      *)
(*                                                                         *)
(* Every handler is a READ COMMITTED transaction without row locks on its  *)
(* reads: it reads in one action and commits in a later one.  A caller     *)
(* that times out goes on while the handler it called still runs.          *)
(***************************************************************************)
EXTENDS Integers

CONSTANTS
  Slices, Vlans,
  Activations,  \* runs of _activate_linux_slice, up to its last commit
  Enrichments,  \* runs of the dispatcher's _enrich_payload
  Deletions,    \* runs of delete_slice
  SliceOf,      \* the slice each of them is about
  NoVlan        \* NULL in slices.vlan_slice

Allocs   == Activations \cup Enrichments
Requests == Allocs \cup Deletions

ASSUME NetAssumption ==
  /\ SliceOf \in [Requests -> Slices]
  /\ NoVlan \notin Vlans
  /\ Activations \cap Enrichments = {} /\ Allocs \cap Deletions = {}

VARIABLES
  slices,     \* rows of slices that exist
  vlanOf,     \* slices.vlan_slice
  pool,       \* vlan_pool.status
  nets,       \* how often the links of the slice are in networks
  pc,         \* control point of each caller
  held,       \* the vlan_slice the caller's session has loaded
  handler,    \* control point of the handler the caller has called
  read,       \* the vlan_slice the handler has loaded
  pick,       \* the VLAN the allocate handler answers with
  stale       \* history: a commit has overwritten a row changed since it was read

rows  == <<slices, vlanOf, pool, nets>>
procs == <<pc, held, handler, read, pick>>
vars  == <<rows, procs, stale>>

Labels == Vlans \cup {NoVlan}
PoolStatus == {"AVAILABLE", "USED"}
CallerPoints  == {"start", "call", "waiting", "erase", "done"}
HandlerPoints == {"none", "read", "pick", "commit", "answered", "refused"}

Set(f, r, value) == [f EXCEPT ![r] = value]
-----------------------------------------------------------------------------
Init ==
  /\ slices = Slices
  /\ vlanOf = [s \in Slices |-> NoVlan]
  /\ pool = [v \in Vlans |-> "AVAILABLE"]
  /\ nets = [s \in Slices |-> 0]
  /\ pc = [r \in Requests |-> "start"]
  /\ held = [r \in Requests |-> NoVlan]
  /\ handler = [r \in Requests |-> "none"]
  /\ read = [r \in Requests |-> NoVlan]
  /\ pick = [r \in Requests |-> NoVlan]
  /\ stale = FALSE

(***************************************************************************)
(* The callers.                                                            *)
(***************************************************************************)
\* Loads the slice.  The activation calls allocate whatever vlan_slice is, the
\* dispatcher only for NULL; the deletion calls release only for a label.
Start(r) ==
  LET s == SliceOf[r]
      calls == CASE r \in Activations -> TRUE
                 [] r \in Enrichments -> vlanOf[s] = NoVlan
                 [] r \in Deletions -> vlanOf[s] # NoVlan
  IN /\ pc[r] = "start"
     /\ held' = Set(held, r, vlanOf[s])
     /\ \/ s \notin slices /\ pc' = Set(pc, r, "done")
        \/ s \in slices /\ calls /\ pc' = Set(pc, r, "call")
        \/ s \in slices /\ ~calls /\ pc' = Set(pc, r, IF r \in Deletions THEN "erase" ELSE "done")
     /\ UNCHANGED <<rows, handler, read, pick, stale>>

Call(r) ==
  /\ pc[r] = "call"
  /\ pc' = Set(pc, r, "waiting")
  /\ handler' = Set(handler, r, "read")
  /\ UNCHANGED <<rows, held, read, pick, stale>>

\* The caller gives up (refused, unreachable, timeout, or its own crash).  A
\* deletion goes on without the release; the others leave the slice as it is.
GiveUp(r) ==
  /\ pc[r] \in {"call", "waiting"}
  /\ pc' = Set(pc, r, IF r \in Deletions THEN "erase" ELSE "done")
  /\ UNCHANGED <<rows, held, handler, read, pick, stale>>

\* The caller stores the label it was told in the slice row of its own
\* session; an UPDATE goes out only if the session had loaded another value.
WriteBack(r) ==
  LET s == SliceOf[r]
      writes == s \in slices /\ held[r] # pick[r]
  IN /\ r \in Allocs /\ pc[r] = "waiting" /\ handler[r] = "answered"
     /\ pc' = Set(pc, r, "done")
     /\ vlanOf' = IF writes THEN Set(vlanOf, s, pick[r]) ELSE vlanOf
     /\ stale' = (stale \/ (writes /\ vlanOf[s] # pick[r]))
     /\ UNCHANGED <<slices, pool, nets, held, handler, read, pick>>

Released(r) ==
  /\ r \in Deletions /\ pc[r] = "waiting" /\ handler[r] = "answered"
  /\ pc' = Set(pc, r, "erase")
  /\ UNCHANGED <<rows, held, handler, read, pick, stale>>

\* delete_slice deletes the row (networks and interfaces cascade) and frees
\* the label it saw at the start once more, whoever holds it by now.
\* (EraseOnly is the fault of leaving that to the best-effort release.)
Delete(s) ==
  /\ slices' = slices \ {s}
  /\ vlanOf' = Set(vlanOf, s, NoVlan)
  /\ nets' = Set(nets, s, 0)

EraseOnly(r) ==
  /\ pc[r] = "erase"
  /\ pc' = Set(pc, r, "done")
  /\ Delete(SliceOf[r])
  /\ stale' = (stale \/ vlanOf[SliceOf[r]] \notin {held[r], NoVlan})
  /\ UNCHANGED <<pool, held, handler, read, pick>>

Erase(r) ==
  LET s == SliceOf[r]
      frees == held[r] # NoVlan /\ pool[held[r]] = "USED"
  IN /\ pc[r] = "erase"
     /\ pc' = Set(pc, r, "done")
     /\ Delete(s)
     /\ pool' = IF frees THEN Set(pool, held[r], "AVAILABLE") ELSE pool
     /\ stale' = (stale \/ vlanOf[s] \notin {held[r], NoVlan}
                        \/ (frees /\ vlanOf[s] # held[r]))
     /\ UNCHANGED <<held, handler, read, pick>>

(***************************************************************************)
(* The handlers of Networking.                                             *)
(***************************************************************************)
\* allocate: 400 for a slice that is gone; a label is picked only for NULL.
AllocateRead(r) ==
  LET s == SliceOf[r]
  IN /\ r \in Allocs /\ handler[r] = "read"
     /\ read' = Set(read, r, vlanOf[s])
     /\ pick' = Set(pick, r, vlanOf[s])
     /\ handler' = Set(handler, r, IF s \notin slices THEN "refused"
                                   ELSE IF vlanOf[s] = NoVlan THEN "pick" ELSE "commit")
     /\ UNCHANGED <<rows, pc, held, stale>>

\* SELECT ... WHERE status = 'AVAILABLE' LIMIT 1; 409 when there is none.
Pick(r) ==
  /\ handler[r] = "pick"
  /\ \/ \E v \in Vlans :
          /\ pool[v] = "AVAILABLE"
          /\ pick' = Set(pick, r, v)
          /\ handler' = Set(handler, r, "commit")
     \/ /\ \A v \in Vlans : pool[v] # "AVAILABLE"
        /\ handler' = Set(handler, r, "refused")
        /\ UNCHANGED pick
  /\ UNCHANGED <<rows, pc, held, read, stale>>

\* The commit: the label becomes USED and the slice's, if one was picked, and
\* the links are inserted once more in any case.  Without the slice row the
\* statements fail and everything is rolled back.
AllocateCommit(r) ==
  LET s == SliceOf[r]
      v == pick[r]
      picked == read[r] = NoVlan
  IN /\ r \in Allocs /\ handler[r] = "commit"
     /\ \/ /\ s \in slices
           /\ handler' = Set(handler, r, "answered")
           /\ pool' = IF picked THEN Set(pool, v, "USED") ELSE pool
           /\ vlanOf' = IF picked THEN Set(vlanOf, s, v) ELSE vlanOf
           /\ nets' = Set(nets, s, nets[s] + 1)
           /\ stale' = (stale \/ (picked /\ (pool[v] # "AVAILABLE" \/ vlanOf[s] # NoVlan)))
        \/ /\ s \notin slices
           /\ handler' = Set(handler, r, "refused")
           /\ UNCHANGED <<pool, vlanOf, nets, stale>>
     /\ UNCHANGED <<slices, pc, held, read, pick>>

\* release: "ignored" for a slice that is gone.
ReleaseRead(r) ==
  LET s == SliceOf[r]
  IN /\ r \in Deletions /\ handler[r] = "read"
     /\ read' = Set(read, r, vlanOf[s])
     /\ handler' = Set(handler, r, IF s \in slices THEN "commit" ELSE "answered")
     /\ UNCHANGED <<rows, pc, held, pick, stale>>

\* (The faults: vlan_slice left as it is, and vlan_slice = 0 for NULL.)
ReleaseLeaving(r, label) ==
  LET s == SliceOf[r]
  IN /\ r \in Deletions /\ handler[r] = "commit" /\ s \in slices
     /\ handler' = Set(handler, r, "answered")
     /\ pool' = IF read[r] = NoVlan THEN pool ELSE Set(pool, read[r], "AVAILABLE")
     /\ vlanOf' = Set(vlanOf, s, label)
     /\ nets' = Set(nets, s, 0)
     /\ UNCHANGED <<slices, pc, held, read, pick, stale>>

ReleaseKeepsLabel(r)  == ReleaseLeaving(r, vlanOf[SliceOf[r]])
ReleaseZeroesLabel(r) == ReleaseLeaving(r, 0)

ReleaseCommit(r) ==
  LET s == SliceOf[r]
      v == read[r]
      frees == v # NoVlan
  IN /\ r \in Deletions /\ handler[r] = "commit"
     /\ \/ /\ s \in slices
           /\ handler' = Set(handler, r, "answered")
           /\ pool' = IF frees THEN Set(pool, v, "AVAILABLE") ELSE pool
           /\ vlanOf' = IF frees THEN Set(vlanOf, s, NoVlan) ELSE vlanOf
           /\ nets' = Set(nets, s, 0)
           /\ stale' = (stale \/ vlanOf[s] # v)
        \/ /\ s \notin slices
           /\ handler' = Set(handler, r, "refused")
           /\ UNCHANGED <<vlanOf, pool, nets, stale>>
     /\ UNCHANGED <<slices, pc, held, read, pick>>
-----------------------------------------------------------------------------
Caller(r)  == Start(r) \/ Call(r) \/ GiveUp(r) \/ WriteBack(r) \/ Released(r) \/ Erase(r)
Handler(r) == \/ AllocateRead(r) \/ Pick(r) \/ AllocateCommit(r)
              \/ ReleaseRead(r) \/ ReleaseCommit(r)

Next == \E r \in Requests : Caller(r) \/ Handler(r)

Spec == Init /\ [][Next]_vars
-----------------------------------------------------------------------------
TypeOK ==
  /\ slices \subseteq Slices
  /\ vlanOf \in [Slices -> Labels]
  /\ pool \in [Vlans -> PoolStatus]
  /\ nets \in [Slices -> Nat]
  /\ pc \in [Requests -> CallerPoints]
  /\ held \in [Requests -> Labels]
  /\ handler \in [Requests -> HandlerPoints]
  /\ read \in [Requests -> Labels]
  /\ pick \in [Requests -> Labels]
  /\ stale \in BOOLEAN

\* The books balance: a label is USED exactly when one existing slice has it.
Balanced ==
  \A v \in Vlans :
    /\ pool[v] = "USED" <=> \E s \in slices : vlanOf[s] = v
    /\ \A s, t \in slices : vlanOf[s] = v /\ vlanOf[t] = v => s = t

\* Labels are lost or shared only through a write over a row that changed
\* since it was read: every other overlap of allocations, releases, timeouts
\* and deletions keeps the pool and the slices consistent.
BalancedUnlessStale == stale \/ Balanced

\* A slice that has a label has its links in the database: the dispatcher,
\* which skips allocate for such a slice, finds interfaces to send.
LabelledHasNetworks ==
  stale \/ \A s \in slices : vlanOf[s] # NoVlan => nets[s] > 0
=============================================================================
