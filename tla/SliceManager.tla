---------------------------- MODULE SliceManager ----------------------------
(***************************************************************************)
(* slice-manager (routers/slices.py): create, edit, deploy, approve,       *)
(* reject and delete as concurrent request handlers over the shared rows.  *)
(*                                                                         *)
(* A handler loads the slice with its VMs in one action; what it decides   *)
(* and writes later rests on that session.  Each commit and each call to   *)
(* another service ends an action.  A build is the set of VMs made by one  *)
(* run of _build_vms: its VMs get their tasks and are deleted together.    *)
(* A commit that updates a deleted row fails and rolls back (StaleData).   *)
(***************************************************************************)
EXTENDS Integers, FiniteSets

CONSTANTS
  Slices,       \* slice ids
  Requests,     \* handlers that may run side by side
  Ops,          \* what clients ask for: "deploy", "approve", "reject", "update", "delete"
  MaxBuilds,    \* bound on the runs of _build_vms
  MaxCrashes    \* bound on restarts of slice-manager

ASSUME SliceAssumption ==
  /\ Ops \subseteq {"deploy", "approve", "reject", "update", "delete"}
  /\ MaxBuilds \in Nat /\ MaxCrashes \in Nat

Builds   == 1..MaxBuilds
Statuses == {"DRAFT", "PENDING_APPROVAL", "ACTIVE", "REJECTED"}
Targets  == {"linux", "openstack"}

VARIABLES
  phase,    \* "none", "live" or "deleted"
  status,   \* slices.status
  target,   \* slices.iaas_target
  vms,      \* the builds in virtual_machines
  tasks,    \* how many CREATE_VM tasks each VM of a build has
  builds,   \* builds made so far
  pc, on,   \* per request: control point, slice
  basis,    \* per request: the row of the slice as the session holds it
  overlap,  \* history, per slice: "alone" until two handlers are under way
            \* together ("beside"); "edited" if one of them rebuilt the VMs
  crashes

rows    == <<phase, status, target, vms, tasks, builds>>
control == <<pc, on, basis>>
vars    == <<rows, control, overlap, crashes>>

Points == {"idle", "update", "reject", "delete", "openstack", "tasks", "placement", "final"}
Row(s) == [status |-> status[s], target |-> target[s], vms |-> vms[s]]
-----------------------------------------------------------------------------
Init ==
  /\ phase = [s \in Slices |-> "none"]
  /\ status = [s \in Slices |-> "DRAFT"]
  /\ target = [s \in Slices |-> "linux"]
  /\ vms = [s \in Slices |-> {}]
  /\ tasks = [b \in Builds |-> 0]
  /\ builds = 0
  /\ pc = [r \in Requests |-> "idle"]
  /\ on \in [Requests -> Slices] /\ \A q, r \in Requests : on[q] = on[r]
  /\ basis = [r \in Requests |-> <<>>]
  /\ overlap = [s \in Slices |-> "alone"]
  /\ crashes = 0

Live(r) == phase[on[r]] = "live"

Goto(r, point) ==
  /\ pc' = [pc EXCEPT ![r] = point]
  /\ UNCHANGED <<on, basis, crashes>>

\* The handler is over: answered, failed with an error, or rolled back.
Return(r) ==
  /\ pc' = [pc EXCEPT ![r] = "idle"]
  /\ basis' = [basis EXCEPT ![r] = <<>>]
  /\ UNCHANGED <<on, crashes>>

\* create_slice: students ask for approval (Linux only), admins get a draft.
Create(s) ==
  /\ phase[s] = "none" /\ builds < MaxBuilds
  /\ \E st \in {"DRAFT", "PENDING_APPROVAL"}, tg \in Targets :
       /\ st = "PENDING_APPROVAL" => tg = "linux"
       /\ status' = [status EXCEPT ![s] = st]
       /\ target' = [target EXCEPT ![s] = tg]
  /\ phase' = [phase EXCEPT ![s] = "live"]
  /\ vms' = [vms EXCEPT ![s] = {builds + 1}]
  /\ builds' = builds + 1
  /\ UNCHANGED <<tasks, control, overlap, crashes>>

\* The status a handler asks for (404 and 409 otherwise), and where it goes.
\* (AdmitsAny is the fault of an approval that forgets the check.)
AdmitsAny(op, s) == op \in {"delete", "approve"} \/ (op = "reject" /\ status[s] = "PENDING_APPROVAL")

Admits(op, s) ==
  \/ op \in {"deploy", "update"} /\ status[s] = "DRAFT"
  \/ op \in {"approve", "reject"} /\ status[s] = "PENDING_APPROVAL"
  \/ op = "delete"

Load(r, op, s) ==
  /\ pc[r] = "idle" /\ phase[s] = "live" /\ Admits(op, s)
  /\ on' = [on EXCEPT ![r] = s]
  /\ basis' = [basis EXCEPT ![r] = Row(s)]
  /\ pc' = [pc EXCEPT ![r] =
       IF op \notin {"deploy", "approve"} THEN op
       ELSE IF target[s] = "openstack" THEN "openstack" ELSE "tasks"]
  /\ overlap' = IF overlap[s] = "alone" /\ \E q \in Requests : pc[q] # "idle" /\ on[q] = s
                THEN [overlap EXCEPT ![s] = "beside"] ELSE overlap
  /\ UNCHANGED <<rows, crashes>>

\* Tasks for the VMs the session has loaded; fails once one of them is gone.
AddTasks(r) == tasks' = [b \in Builds |-> IF b \in basis[r].vms THEN tasks[b] + 1 ELSE tasks[b]]
CanAdd(r)   == Live(r) /\ basis[r].vms \subseteq vms[on[r]]

\* _activate_openstack_slice: tasks and ACTIVE in one commit, then the call.
\* (OpenStackLate is the fault of committing ACTIVE without the tasks.)
OpenStackLate(r) ==
  /\ pc[r] = "openstack" /\ CanAdd(r)
  /\ status' = [status EXCEPT ![on[r]] = "ACTIVE"]
  /\ Return(r)
  /\ UNCHANGED <<phase, target, vms, tasks, builds, overlap>>

ActivateOpenStack(r) ==
  /\ pc[r] = "openstack"
  /\ \/ /\ CanAdd(r)
        /\ AddTasks(r)
        /\ status' = [status EXCEPT ![on[r]] = "ACTIVE"]
     \/ ~CanAdd(r) /\ UNCHANGED <<tasks, status>>
  /\ Return(r)
  /\ UNCHANGED <<phase, target, vms, builds, overlap>>

\* _activate_linux_slice: its first commit makes the tasks visible to
\* placement while the slice keeps its status.
CreateTasks(r) ==
  /\ pc[r] = "tasks"
  /\ \/ CanAdd(r) /\ AddTasks(r) /\ Goto(r, "placement")
     \/ ~CanAdd(r) /\ Return(r) /\ UNCHANGED tasks
  /\ UNCHANGED <<phase, status, target, vms, builds, overlap>>

\* After the calls to Placement (answered or not) the session refreshes the
\* slice, which fails once it is gone; then Networking is called.
Refresh(r) ==
  /\ pc[r] = "placement"
  /\ \/ /\ Live(r)
        /\ basis' = [basis EXCEPT ![r] = Row(on[r])]
        /\ pc' = [pc EXCEPT ![r] = "final"]
        /\ UNCHANGED <<on, crashes>>
     \/ ~Live(r) /\ Return(r)
  /\ UNCHANGED <<rows, overlap>>

\* The last commit.  ACTIVE goes out only if the session holds another status;
\* it fails if the slice is gone, and may if an edit took a VM it updates.
\* (FinalizeWritesBack is the fault of storing the loaded status when
\* Networking gave no answer.)
FinalizeWritesBack(r) ==
  /\ pc[r] = "final"
  /\ \E st \in {"ACTIVE", basis[r].status} :
       status' = IF Live(r) THEN [status EXCEPT ![on[r]] = st] ELSE status
  /\ Return(r)
  /\ UNCHANGED <<phase, target, vms, tasks, builds, overlap>>

Finalize(r) ==
  /\ pc[r] = "final"
  /\ \/ /\ Live(r)
        /\ status' = IF basis[r].status # "ACTIVE"
                     THEN [status EXCEPT ![on[r]] = "ACTIVE"] ELSE status
     \/ ~CanAdd(r) /\ UNCHANGED status
  /\ Return(r)
  /\ UNCHANGED <<phase, target, vms, tasks, builds, overlap>>

Reject(r) ==
  /\ pc[r] = "reject"
  /\ status' = IF Live(r) THEN [status EXCEPT ![on[r]] = "REJECTED"] ELSE status
  /\ Return(r)
  /\ UNCHANGED <<phase, target, vms, tasks, builds, overlap>>

\* update_slice: deletes the VMs it has loaded (their tasks cascade), stores
\* name, target and topology, and builds the new VMs.
Rebuild(r, dropped) ==
  /\ builds < MaxBuilds
  /\ vms' = [vms EXCEPT ![on[r]] = (@ \ dropped) \cup {builds + 1}]
  /\ builds' = builds + 1
  /\ \E tg \in Targets : target' = [target EXCEPT ![on[r]] = tg]
  /\ tasks' = [b \in Builds |-> IF b \in dropped THEN 0 ELSE tasks[b]]
  /\ overlap' = IF overlap[on[r]] = "alone" THEN overlap
                ELSE [overlap EXCEPT ![on[r]] = "edited"]

Update(r) ==
  /\ pc[r] = "update"
  /\ \/ Live(r) /\ Rebuild(r, basis[r].vms)
     \/ UNCHANGED <<vms, builds, target, tasks, overlap>>   \* a VM is refused, or the slice is gone
  /\ Return(r)
  /\ UNCHANGED <<phase, status>>

\* delete_slice: after the best-effort clean-up the row goes, in any status,
\* and takes its VMs and tasks with it.
\* (EraseKeepsTasks is the fault of tasks that outlive their VMs.)
EraseKeepsTasks(r) ==
  /\ pc[r] = "delete"
  /\ phase' = [phase EXCEPT ![on[r]] = "deleted"]
  /\ vms' = [vms EXCEPT ![on[r]] = {}]
  /\ Return(r)
  /\ UNCHANGED <<status, target, tasks, builds, overlap>>

Erase(r) ==
  /\ pc[r] = "delete"
  /\ phase' = [phase EXCEPT ![on[r]] = "deleted"]
  /\ tasks' = [b \in Builds |-> IF b \in vms[on[r]] THEN 0 ELSE tasks[b]]
  /\ vms' = [vms EXCEPT ![on[r]] = {}]
  /\ Return(r)
  /\ UNCHANGED <<status, target, builds, overlap>>

\* slice-manager restarts: every handler in flight is gone.
Crash ==
  /\ crashes < MaxCrashes
  /\ crashes' = crashes + 1
  /\ \E r \in Requests : pc[r] # "idle"
  /\ pc' = [r \in Requests |-> "idle"]
  /\ basis' = [r \in Requests |-> <<>>]
  /\ UNCHANGED <<rows, on, overlap>>
-----------------------------------------------------------------------------
Handler(r) ==
  \/ ActivateOpenStack(r) \/ CreateTasks(r) \/ Refresh(r) \/ Finalize(r)
  \/ Reject(r) \/ Update(r) \/ Erase(r)

Next ==
  \/ \E s \in Slices : Create(s)
  \/ \E r \in Requests, op \in Ops, s \in Slices : Load(r, op, s)
  \/ \E r \in Requests : Handler(r)
  \/ Crash

Spec == Init /\ [][Next]_vars
-----------------------------------------------------------------------------
\* The rows as the schema keeps them, foreign keys included: VMs belong to a
\* slice that exists and tasks to a VM that exists, whatever was deleted when.
TypeOK ==
  /\ phase \in [Slices -> {"none", "live", "deleted"}]
  /\ status \in [Slices -> Statuses]
  /\ target \in [Slices -> Targets]
  /\ vms \in [Slices -> SUBSET Builds]
  /\ tasks \in [Builds -> Nat]
  /\ builds \in 0..MaxBuilds
  /\ pc \in [Requests -> Points]
  /\ on \in [Requests -> Slices]
  /\ overlap \in [Slices -> {"alone", "beside", "edited"}]
  /\ crashes \in 0..MaxCrashes
  /\ \A s \in Slices : vms[s] # {} => phase[s] = "live"
  /\ \A b \in Builds : (\A s \in Slices : b \notin vms[s]) => tasks[b] = 0

LiveSlices == {s \in Slices : phase[s] = "live"}

\* Until requests overlap on a slice or slice-manager restarts, every slice keeps
\* its contract: edited as a draft, decided and handed over once.
PhaseNow  == [s \in Slices |-> IF phase[s] = "live" THEN status[s] ELSE phase[s]]
HandedNow == [s \in Slices |-> {tasks[b] : b \in vms[s]}]
Contract  == INSTANCE SliceContract WITH phase <- PhaseNow, handed <- HandedNow

Disturbed == crashes > 0 \/ \E s \in Slices : overlap[s] # "alone"

ImplementsSliceContract ==
  Contract!Init /\ [][Contract!Next \/ Disturbed']_<<PhaseNow, HandedNow>>

\* An ACTIVE slice has CREATE_VM tasks for each of its VMs, through overlapping
\* approvals, deployments, rejections and deletions and through restarts: it
\* is never shown as deployed with nothing left that would deploy it, unless
\* an edit ran beside another request.
ActiveIsTasked ==
  \A s \in LiveSlices :
    status[s] = "ACTIVE" /\ overlap[s] # "edited" => \A b \in vms[s] : tasks[b] > 0

\* A decision is never undone: no handler that loaded the slice before the
\* decision of another writes DRAFT or PENDING_APPROVAL back over it.
NeverUndecidedAgain ==
  [][\A s \in LiveSlices : status[s] \in {"ACTIVE", "REJECTED"}
        => status'[s] \in {"ACTIVE", "REJECTED"}]_vars

\* slices.py:799 answers "Slice already processed" to a second approval: the
\* VMs of a slice get one task each, so a driver is asked for them once.
ProcessedOnce == \A s \in LiveSlices : \A b \in vms[s] : tasks[b] <= 1
=============================================================================
