----------------------------- MODULE Dispatcher -----------------------------
(***************************************************************************)
(* The dispatcher service (dispatcher/dispatcher_service.py, main.py).     *)
(*                                                                         *)
(* A cycle is one execution of process_tasks: the polling loop runs one    *)
(* after another, and POST /dispatcher/trigger runs one more beside it.    *)
(* A cycle recovers the stale tasks, lists the PLACEMENT_READY ones, and   *)
(* dispatches the list one by one: lock, load, enrich, driver call,        *)
(* outcome.  Every await (database statement, HTTP call) ends an action;   *)
(* rows are shared and hold their committed values, `todo`, `cur` and      *)
(* `failedBy` are what the cycle's own session remembers; SQLAlchemy leaves *)
(* a column out of an UPDATE when the session remembers the same value.    *)
(*                                                                         *)
(* The drivers, Networking, Placement and Slice Manager appear as what     *)
(* they do to the rows and to the hosts.  Time is abstracted: `old` holds  *)
(* the IN_PROGRESS tasks whose updated_at is before the stale cutoff.      *)
(***************************************************************************)
EXTENDS Integers, FiniteSets

CONSTANTS
  Tasks,        \* ids of the CREATE_VM tasks; created_at grows with the id
  VMs,          \* rows of virtual_machines
  Slices,       \* rows of slices
  TaskVm,       \* task.vm_id
  VmSlice,      \* vm.slice_id
  OpenStack,    \* the slices whose iaas_target is "openstack"
  Linked,       \* the slices with a topology
  Cycles,       \* the process_tasks executions that may run side by side
  NoTask,       \* "this cycle dispatches nothing"
  Overlapped,   \* tasks a second, overlapping placement trigger reads PENDING too
  MaxCrashes    \* bound on the crashes of the dispatcher process

ASSUME ParamsAssumption ==
  /\ Tasks \subseteq Nat /\ IsFiniteSet(Tasks)
  /\ TaskVm \in [Tasks -> VMs]
  /\ VmSlice \in [VMs -> Slices]
  /\ OpenStack \subseteq Slices /\ Linked \subseteq Slices
  /\ NoTask \notin Tasks
  /\ Overlapped \subseteq Tasks
  /\ MaxCrashes \in Nat

VARIABLES
  slices,       \* the slices that still exist; deleting one cascades
  status,       \* tasks.status
  old,          \* tasks whose updated_at is past the stale cutoff
  wired,        \* tasks whose payload holds interfaces and vlan_slice
  vlan,         \* slices whose vlan_slice is set
  vmStatus,     \* virtual_machines.status
  pc, todo, cur,\* per cycle: control point, tasks left, task dispatched
  job,          \* per cycle: the driver request it waits for
  failedBy,     \* per cycle: the tasks its session remembers as FAILED
  orphans,      \* tasks whose driver job runs with nobody waiting for it
  built,        \* VMs a driver job has brought up on its host or cloud
  again,        \* tasks the overlapping trigger has released a second time
  netFailed,    \* slices for which a call to Networking has failed
  crashes

rows    == <<slices, status, old, wired, vlan, vmStatus>>
control == <<pc, todo, cur, job, failedBy>>
hosts   == <<orphans, built>>
vars    == <<rows, control, hosts, again, netFailed, crashes>>

TaskStatus == {"PENDING", "PLACEMENT_READY", "IN_PROGRESS", "READY", "FAILED"}
VmStatus   == {"PENDING", "READY", "FAILED"}
Points     == {"idle", "recover", "list", "next", "load", "mark",
               "allocate", "enrich", "call", "wait", "report"}

SliceOf(t)  == VmSlice[TaskVm[t]]
Live(t)     == SliceOf(t) \in slices
SliceTasks(s) == {t \in Tasks : SliceOf(t) = s}
SliceVms(s)   == {v \in VMs : VmSlice[v] = s}

\* What one driver request builds: an OpenStack request carries the whole
\* slice, a Linux one a single VM; the same rows take the outcome.
\* (VmScopeOwnOnly is the fault "publish only the VM of the task".)
VmScopeOwnOnly(t) == {TaskVm[t]}
VmScope(t)   == IF SliceOf(t) \in OpenStack THEN SliceVms(SliceOf(t)) ELSE {TaskVm[t]}
TaskScope(t) == IF SliceOf(t) \in OpenStack THEN SliceTasks(SliceOf(t)) ELSE {t}

SetTo(f, S, value) == [x \in DOMAIN f |-> IF x \in S THEN value ELSE f[x]]
IsFirst(t, S) == t \in S /\ \A u \in S : t <= u

Settled(t) == status[t] \in {"READY", "FAILED"}
-----------------------------------------------------------------------------
Init ==
  /\ slices = Slices
  /\ status = [t \in Tasks |-> "PENDING"]
  /\ old = {} /\ wired = {} /\ vlan = {}
  /\ vmStatus = [v \in VMs |-> "PENDING"]
  /\ pc = [c \in Cycles |-> "idle"]
  /\ todo = [c \in Cycles |-> {}]
  /\ cur = [c \in Cycles |-> NoTask]
  /\ job = [c \in Cycles |-> "none"]
  /\ failedBy = [c \in Cycles |-> {}]
  /\ orphans = {} /\ built = {} /\ again = {}
  /\ netFailed = {} /\ crashes = 0

(***************************************************************************)
(* Control of one cycle.                                                   *)
(***************************************************************************)
Goto(c, point) == pc' = [pc EXCEPT ![c] = point]

\* The dispatch of cur[c] is over; the loop of process_tasks goes on.
Return(c) ==
  /\ Goto(c, "next")
  /\ cur' = [cur EXCEPT ![c] = NoTask]
  /\ job' = [job EXCEPT ![c] = "none"]
  /\ UNCHANGED todo

\* An UPDATE of a deleted row raises StaleDataError; the commit of the except
\* block raises again on the dead session and the exception leaves process_tasks.
Abort(c) ==
  /\ Goto(c, "idle")
  /\ cur' = [cur EXCEPT ![c] = NoTask]
  /\ job' = [job EXCEPT ![c] = "none"]
  /\ todo' = [todo EXCEPT ![c] = {}]
  /\ failedBy' = [failedBy EXCEPT ![c] = {}]
  /\ UNCHANGED rows

\* _recover_stale_tasks: the SELECT (StaleReleased is the fault of selecting
\* by the wrong status), then the UPDATE of what it returned.
StaleReleased == {t \in old : Live(t) /\ status[t] = "PLACEMENT_READY"}
Stale == {t \in old : Live(t) /\ status[t] = "IN_PROGRESS"}

SelectStale(c) ==
  /\ pc[c] = "idle"
  /\ todo' = [todo EXCEPT ![c] = Stale]
  /\ Goto(c, "recover")
  /\ UNCHANGED <<rows, cur, job, failedBy, hosts, again, netFailed, crashes>>

\* Fault: recovered tasks get a status no service knows.
RecoverStaleAsRetry(c) ==
  /\ pc[c] = "recover" /\ \A t \in todo[c] : Live(t)
  /\ status' = SetTo(status, todo[c], "RETRY")
  /\ Goto(c, "list")
  /\ UNCHANGED <<slices, old, wired, vlan, vmStatus, todo, cur, job, failedBy>>
  /\ UNCHANGED <<hosts, again, netFailed, crashes>>

RecoverStale(c) ==
  /\ pc[c] = "recover"
  /\ \/ /\ \A t \in todo[c] : Live(t)
        /\ status' = SetTo(status, todo[c], "PLACEMENT_READY")
        /\ old' = old \ todo[c]
        /\ Goto(c, "list")
        /\ todo' = [todo EXCEPT ![c] = {}]
        /\ UNCHANGED <<slices, wired, vlan, vmStatus, cur, job, failedBy>>
     \/ /\ \E t \in todo[c] : ~Live(t)
        /\ Abort(c)
  /\ UNCHANGED <<hosts, again, netFailed, crashes>>

\* process_tasks lists the PLACEMENT_READY tasks once, ordered by created_at.
ListTasks(c) ==
  /\ pc[c] = "list"
  /\ todo' = [todo EXCEPT ![c] = {t \in Tasks : Live(t) /\ status[t] = "PLACEMENT_READY"}]
  /\ Goto(c, "next")
  /\ UNCHANGED <<rows, cur, job, failedBy, hosts, again, netFailed, crashes>>

EndCycle(c) ==
  /\ pc[c] = "next" /\ todo[c] = {}
  /\ Goto(c, "idle")
  /\ failedBy' = [failedBy EXCEPT ![c] = {}]
  /\ UNCHANGED <<rows, todo, cur, job, hosts, again, netFailed, crashes>>

\* The lock: status = IN_PROGRESS is written whatever the row holds by now.
Lock(c) ==
  /\ pc[c] = "next"
  /\ \E t \in todo[c] :
       /\ IsFirst(t, todo[c])
       /\ \/ /\ Live(t)
             /\ status' = [status EXCEPT ![t] = "IN_PROGRESS"]
             /\ old' = old \ {t}
             /\ cur' = [cur EXCEPT ![c] = t]
             /\ todo' = [todo EXCEPT ![c] = @ \ {t}]
             /\ failedBy' = [failedBy EXCEPT ![c] = @ \ {t}]
             /\ Goto(c, "load")
             /\ UNCHANGED <<slices, wired, vlan, vmStatus, job>>
          \/ ~Live(t) /\ Abort(c)
  /\ UNCHANGED <<hosts, again, netFailed, crashes>>

(***************************************************************************)
(* _dispatch_single after the lock.                                        *)
(***************************************************************************)
\* Where the loaded rows lead.  (NextPointProvisions is the fault of not
\* looking whether the VM is READY already.)
NextPointProvisions(t) ==
  CASE SliceOf(t) \in OpenStack \/ t \in wired -> "call"
    [] SliceOf(t) \in Linked \ vlan -> "allocate"
    [] OTHER -> "enrich"

NextPoint(t) ==
  CASE SliceOf(t) \in OpenStack -> IF vmStatus[TaskVm[t]] = "READY" THEN "mark" ELSE "call"
    [] SliceOf(t) \notin OpenStack /\ t \in wired -> "call"
    [] SliceOf(t) \notin OpenStack /\ t \notin wired ->
         IF SliceOf(t) \in Linked \ vlan THEN "allocate" ELSE "enrich"

\* Loads the rows.  A missing one raises, and FAILED cannot be written to it.
LoadEntities(c) ==
  /\ pc[c] = "load"
  /\ LET t == cur[c]
     IN \/ ~Live(t) /\ Abort(c)
        \/ /\ Live(t)
           /\ Goto(c, NextPoint(t))
           /\ UNCHANGED <<rows, todo, cur, job, failedBy>>
  /\ UNCHANGED <<hosts, again, netFailed, crashes>>

\* OpenStack: an earlier task of the slice has provisioned this VM already.
AlreadyReady(c) ==
  /\ pc[c] = "mark"
  /\ LET t == cur[c]
     IN \/ ~Live(t) /\ Abort(c)
        \/ /\ Live(t)
           /\ status' = [status EXCEPT ![t] = "READY"]
           /\ old' = old \ {t}
           /\ Return(c)
           /\ UNCHANGED <<slices, wired, vlan, vmStatus, failedBy>>
  /\ UNCHANGED <<hosts, again, netFailed, crashes>>

\* _call_networking_allocate is best effort: a refusal or an unreachable
\* service is logged and the dispatch goes on.
Allocate(c) ==
  /\ pc[c] = "allocate"
  /\ LET s == SliceOf(cur[c])
     IN \/ ~Live(cur[c]) /\ Abort(c) /\ UNCHANGED netFailed
        \/ /\ Live(cur[c])
           /\ vlan' = vlan \cup {s}
           /\ Goto(c, "enrich")
           /\ UNCHANGED <<slices, status, old, wired, vmStatus, todo, cur, job, failedBy, netFailed>>
        \/ /\ Live(cur[c])
           /\ netFailed' = netFailed \cup {s}
           /\ Goto(c, "enrich")
           /\ UNCHANGED <<rows, todo, cur, job, failedBy>>
  /\ UNCHANGED <<hosts, again, crashes>>

\* _enrich_payload reads the interfaces Networking has left in the database.
\* (EnrichInMemory is the fault of never committing the enriched payload.)
EnrichInMemory(c) ==
  /\ pc[c] = "enrich" /\ Live(cur[c])
  /\ Goto(c, "call")
  /\ UNCHANGED <<rows, todo, cur, job, failedBy, hosts, again, netFailed, crashes>>

Enrich(c) ==
  /\ pc[c] = "enrich"
  /\ LET t == cur[c]
     IN \/ ~Live(t) /\ Abort(c)
        \/ /\ Live(t)
           /\ wired' = IF SliceOf(t) \in vlan THEN wired \cup {t} ELSE wired
           /\ Goto(c, "call")
           /\ UNCHANGED <<slices, status, old, vlan, vmStatus, todo, cur, job, failedBy>>
  /\ UNCHANGED <<hosts, again, netFailed, crashes>>

CallDriver(c) ==
  /\ pc[c] = "call"
  /\ job' = [job EXCEPT ![c] = "running"]
  /\ Goto(c, "wait")
  /\ UNCHANGED <<rows, todo, cur, failedBy, hosts, again, netFailed, crashes>>

\* The driver answers HTTP 200 for a failed command too: the body decides.
\* (AnsweredAny is the fault of trusting the HTTP status.)
AnsweredAny(c) == pc[c] = "wait" /\ job[c] \in {"ok", "failed"}
Answered(c)    == pc[c] = "wait" /\ job[c] = "ok"

\* The response is READY.  The OpenStack branch re-reads the rows of the
\* slice and finds none when it is gone; the Linux one writes to its task.
HandleSuccess(c) ==
  /\ Answered(c)
  /\ LET t == cur[c]
     IN \/ /\ Live(t)
           /\ status' = SetTo(status, TaskScope(t), "READY")
           /\ vmStatus' = SetTo(vmStatus, VmScope(t), "READY")
           /\ old' = old \ TaskScope(t)
           /\ failedBy' = [failedBy EXCEPT ![c] = @ \ TaskScope(t)]
           /\ Return(c)
           /\ UNCHANGED <<slices, wired, vlan>>
        \/ /\ ~Live(t) /\ SliceOf(t) \in OpenStack
           /\ Return(c)
           /\ UNCHANGED <<rows, failedBy>>
        \/ ~Live(t) /\ SliceOf(t) \notin OpenStack /\ Abort(c)
  /\ UNCHANGED <<hosts, again, netFailed, crashes>>

\* The response is not READY.  Linux fails its task and leaves
\* virtual_machines.status alone.  OpenStack fails every VM and every task of
\* the slice in a first commit (which finds no row of a slice that is gone) and
\* raises; a task the session has failed before keeps what its row holds by now.
HandleFailure(c) ==
  /\ pc[c] = "wait" /\ job[c] = "failed"
  /\ LET t == cur[c]
     IN \/ /\ SliceOf(t) \notin OpenStack /\ Live(t)
           /\ status' = [status EXCEPT ![t] = "FAILED"]
           /\ old' = old \ {t}
           /\ failedBy' = [failedBy EXCEPT ![c] = @ \cup {t}]
           /\ Return(c)
           /\ UNCHANGED <<slices, wired, vlan, vmStatus>>
        \/ SliceOf(t) \notin OpenStack /\ ~Live(t) /\ Abort(c)
        \/ /\ SliceOf(t) \in OpenStack /\ Live(t)
           /\ status' = SetTo(status, TaskScope(t) \ failedBy[c], "FAILED")
           /\ vmStatus' = SetTo(vmStatus, VmScope(t), "FAILED")
           /\ old' = old \ TaskScope(t)
           /\ failedBy' = [failedBy EXCEPT ![c] = @ \cup TaskScope(t)]
           /\ Goto(c, "report")
           /\ job' = [job EXCEPT ![c] = "none"]
           /\ UNCHANGED <<slices, wired, vlan, todo, cur>>
        \/ /\ SliceOf(t) \in OpenStack /\ ~Live(t)
           /\ Goto(c, "report")
           /\ job' = [job EXCEPT ![c] = "none"]
           /\ UNCHANGED <<rows, todo, cur, failedBy>>
  /\ UNCHANGED <<hosts, again, netFailed, crashes>>

\* The except block of process_tasks after an OpenStack failure: FAILED is what
\* the session remembers of the task, so this commit writes the other columns.
ReportFailure(c) ==
  /\ pc[c] = "report"
  /\ LET t == cur[c]
     IN \/ ~Live(t) /\ Abort(c)
        \/ /\ Live(t)
           /\ old' = old \ {t}
           /\ Return(c)
           /\ UNCHANGED <<slices, status, wired, vlan, vmStatus, failedBy>>
  /\ UNCHANGED <<hosts, again, netFailed, crashes>>

\* The HTTP request times out or breaks: the except block of process_tasks
\* fails this task only, and the driver may still be at work.
RequestBreaks(c) ==
  /\ pc[c] = "wait" /\ job[c] = "running"
  /\ LET t == cur[c]
     IN /\ orphans' = orphans \cup {t}
        /\ \/ /\ Live(t)
              /\ status' = [status EXCEPT ![t] = "FAILED"]
              /\ old' = old \ {t}
              /\ failedBy' = [failedBy EXCEPT ![c] = @ \cup {t}]
              /\ Return(c)
              /\ UNCHANGED <<slices, wired, vlan, vmStatus>>
           \/ ~Live(t) /\ Abort(c)
  /\ UNCHANGED <<built, again, netFailed, crashes>>

(***************************************************************************)
(* The drivers, the clock, a crash, and the other services.                *)
(***************************************************************************)
DriverEnds(c) ==
  /\ job[c] = "running"
  /\ \/ /\ job' = [job EXCEPT ![c] = "ok"]
        /\ built' = built \cup VmScope(cur[c])
     \/ /\ job' = [job EXCEPT ![c] = "failed"]
        /\ UNCHANGED built
  /\ UNCHANGED <<rows, pc, todo, cur, failedBy, orphans, again, netFailed, crashes>>

OrphanEnds(t) ==
  /\ t \in orphans
  /\ orphans' = orphans \ {t}
  /\ built' \in {built, built \cup VmScope(t)}
  /\ UNCHANGED <<rows, control, again, netFailed, crashes>>

\* An IN_PROGRESS task nobody dispatches any more gets past the cutoff.  A
\* live dispatch ends (30s + 120s or 180s) long before the ten minutes.
Age(t) ==
  /\ status[t] = "IN_PROGRESS" /\ t \notin old
  /\ \A c \in Cycles : cur[c] # t
  /\ old' = old \cup {t}
  /\ UNCHANGED <<slices, status, wired, vlan, vmStatus, control, hosts, again, netFailed, crashes>>

Crash ==
  /\ crashes < MaxCrashes
  /\ crashes' = crashes + 1
  /\ orphans' = orphans \cup {cur[c] : c \in {d \in Cycles : job[d] = "running"}}
  /\ pc' = [c \in Cycles |-> "idle"]
  /\ todo' = [c \in Cycles |-> {}]
  /\ cur' = [c \in Cycles |-> NoTask]
  /\ job' = [c \in Cycles |-> "none"]
  /\ failedBy' = [c \in Cycles |-> {}]
  /\ UNCHANGED <<rows, built, again, netFailed>>

\* vm-placement reads the PENDING tasks and commits PLACEMENT_READY later: an
\* overlapping trigger releases a task again, whatever its row holds by then.
PlaceTask(t) ==
  /\ Live(t)
  /\ \/ status[t] = "PENDING" /\ UNCHANGED again
     \/ /\ status[t] # "PENDING" /\ t \in Overlapped \ again
        /\ again' = again \cup {t}
  /\ status' = [status EXCEPT ![t] = "PLACEMENT_READY"]
  /\ old' = old \ {t}
  /\ UNCHANGED <<slices, wired, vlan, vmStatus, control, hosts, netFailed, crashes>>

\* slice-manager deletes a slice in any state; its VMs and tasks go with it.
DeleteSlice(s) ==
  /\ s \in slices
  /\ slices' = slices \ {s}
  /\ UNCHANGED <<status, old, wired, vlan, vmStatus, control, hosts, again, netFailed, crashes>>
-----------------------------------------------------------------------------
Cycle(c) ==
  \/ SelectStale(c) \/ RecoverStale(c) \/ ListTasks(c) \/ EndCycle(c)
  \/ Lock(c) \/ LoadEntities(c) \/ AlreadyReady(c)
  \/ Allocate(c) \/ Enrich(c) \/ CallDriver(c)
  \/ HandleSuccess(c) \/ HandleFailure(c) \/ ReportFailure(c) \/ RequestBreaks(c)

Next ==
  \/ \E c \in Cycles : Cycle(c) \/ DriverEnds(c)
  \/ \E t \in Tasks : OrphanEnds(t) \/ Age(t) \/ PlaceTask(t)
  \/ Crash
  \/ \E s \in Slices : DeleteSlice(s)

Spec == Init /\ [][Next]_vars

\* The polling loop never stops (while True around a try), every request has
\* a timeout, and the clock advances.
Fairness ==
  /\ \A c \in Cycles : WF_vars(Cycle(c))
  /\ \A t \in Tasks : WF_vars(Age(t))

FairSpec == Spec /\ Fairness
-----------------------------------------------------------------------------
TypeOK ==
  /\ slices \subseteq Slices
  /\ status \in [Tasks -> TaskStatus]
  /\ old \subseteq Tasks /\ wired \subseteq Tasks
  /\ vlan \subseteq Slices
  /\ vmStatus \in [VMs -> VmStatus]
  /\ pc \in [Cycles -> Points]
  /\ todo \in [Cycles -> SUBSET Tasks]
  /\ cur \in [Cycles -> Tasks \cup {NoTask}]
  /\ job \in [Cycles -> {"none", "running", "ok", "failed"}]
  /\ failedBy \in [Cycles -> SUBSET Tasks]
  /\ orphans \subseteq Tasks /\ built \subseteq VMs /\ again \subseteq Overlapped
  /\ netFailed \subseteq Slices
  /\ crashes \in 0..MaxCrashes

\* A VM the database calls READY has been brought up by a driver: no timeout,
\* crash, retry or concurrent cycle publishes a VM that was never built.
ReadyVmWasBuilt ==
  \A v \in VMs : VmSlice[v] \in slices /\ vmStatus[v] = "READY" => v \in built

\* The outcome of a task and the state of its VM tell the same story, whatever
\* timeouts, crashes, stale recoveries and overlapping releases came before
\* (_handle_success and the OpenStack branch write both rows in one commit).
\* A Linux task released again runs beside its READY VM and may fail.
OutcomesAgree ==
  \A t \in Tasks : Live(t) =>
    /\ status[t] = "READY" => vmStatus[TaskVm[t]] = "READY"
    /\ (status[t] = "FAILED" /\ (t \in again => SliceOf(t) \in OpenStack))
         => vmStatus[TaskVm[t]] # "READY"

\* A Linux VM of a slice with links comes up without its interfaces only
\* after Networking has failed for that slice (the best-effort enrichment).
UnwiredOnlyIfNetworkingFailed ==
  \A t \in Tasks :
    (status[t] = "READY" /\ SliceOf(t) \in Linked \ OpenStack /\ t \notin wired)
      => SliceOf(t) \in netFailed

\* The dispatcher implements VmContract: a VM is published READY only once
\* built, and a late failure, a stale recovery or a second task of the same
\* slice never takes a READY VM back while its slice exists.
Contract == INSTANCE VmContract WITH
  outcome <- [v \in VMs |-> IF VmSlice[v] \in slices THEN vmStatus[v] ELSE "GONE"]

ImplementsVmContract == Contract!Spec

\* Every task placement has released settles for good, or its slice is
\* deleted, in spite of crashes, timeouts, overlapping releases and cycles that
\* abort midway.
ReleasedTaskSettles ==
  <>[](\A t \in Tasks : status[t] # "PENDING" => Settled(t) \/ ~Live(t))
=============================================================================
