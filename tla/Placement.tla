----------------------------- MODULE Placement -----------------------------
(***************************************************************************)
(* vm-placement (app/placement_service.py): the trigger handler that gives *)
(* every PENDING task a worker by round robin, with the services it shares *)
(* the rows with: slice-manager, which creates the tasks, calls trigger    *)
(* and deletes slices, the dispatcher, which takes what was released, and  *)
(* monitoring, which overwrites the metrics of the Linux workers.          *)
(*                                                                         *)
(* A trigger is one transaction: it reads the PENDING tasks, then all      *)
(* workers, then for each task last_worker_id, VM and slice; each          *)
(* assignment is flushed (row locks) and everything commits at the end.    *)
(* The session keeps what it has read, and an UPDATE leaves out a column   *)
(* that is given the value it was read with: worker_id of a VM that        *)
(* another trigger has placed meanwhile, on the same worker.  (That of a   *)
(* PENDING task is NULL, and always goes out.)                             *)
(* One CREATE_VM task per VM, so a task goes by the name of its VM.        *)
(***************************************************************************)
EXTENDS Integers, FiniteSetsExt

CONSTANTS
  Workers,            \* worker ids
  Cluster,            \* workers.cluster_type
  TotalRam, TotalCpu, \* workers.total_ram, workers.total_cpu
  VMs, Slices,
  SliceOf,            \* vm.slice_id
  Target,             \* slices.iaas_target
  Ram, Vcpu,          \* what a VM asks for
  Triggers,           \* the trigger handlers that may run side by side
  MaxCalls,           \* bound on the calls of trigger
  Measures,           \* what monitoring may measure ({}: SSH disabled)
  MaxMeasures,        \* bound on the rounds of monitoring
  NoWorker            \* NULL in worker_id, 0 in config.last_worker_id

ASSUME PlacementAssumption ==
  /\ Workers \subseteq Nat /\ IsFiniteSet(Workers)
  /\ TotalRam \in [Workers -> Nat \ {0}] /\ TotalCpu \in [Workers -> Nat]
  /\ IsFiniteSet(VMs) /\ SliceOf \in [VMs -> Slices]
  /\ Ram \in [VMs -> Nat] /\ Vcpu \in [VMs -> Nat]
  /\ Cluster \in [Workers -> {"linux", "openstack"}]
  /\ Target \in [Slices -> {"linux", "openstack"}]
  /\ Measures \subseteq [ram : Nat, alive : {TRUE}, cpu : 0..100]
  /\ MaxMeasures \in Nat /\ MaxCalls \in Nat
  /\ NoWorker \notin Workers

VARIABLES
  slices,       \* the slices that exist
  tstatus,      \* tasks.status; "NONE" before the activation
  taskWorker,   \* tasks.worker_id
  vmWorker,     \* virtual_machines.worker_id; of a deleted VM, its last value
  metrics,      \* per worker: current_ram_available, status, current_cpu_load
  last,         \* config.last_worker_id
  calls,        \* calls of trigger so far
  pc, todo,     \* per trigger: control point, tasks left of its list
  at,           \* per trigger: the task it is placing, if any
  seen,         \* per trigger: the workers as its session holds them
  seenLast,     \* per trigger: last_worker_id as it last read or wrote it
  held,         \* per trigger: worker_id of each VM as its session read it
  plan,         \* per trigger: the assignments it has flushed
  mon,          \* monitoring: the metrics it has loaded, or <<>>
  measured,     \* rounds of monitoring so far
  mixed,        \* history: two triggers have overlapped, or monitoring has begun
  placed        \* history: how many commits have placed the VM

rows    == <<slices, tstatus, taskWorker, vmWorker>>
shared  == <<metrics, last>>
control == <<calls, pc, todo, at, seen, seenLast, held, plan>>
vars    == <<rows, shared, control, mon, measured, mixed, placed>>

Assigned(g) == {v \in VMs : plan[g][v] # NoWorker}
\* The trigger whose flushed UPDATE of config holds the row until it commits.
Writing == {g \in Triggers : Assigned(g) # {}}
NoPlan  == [v \in VMs |-> NoWorker]
\* The workers whose free RAM the trigger has changed, and so holds the row of.
Charged(g) == {w \in Workers : \E v \in VMs : plan[g][v] = w /\ Ram[v] # 0}
-----------------------------------------------------------------------------
(***************************************************************************)
(* The choice of a worker, from the snapshot `m` of the metrics.           *)
(***************************************************************************)
\* ALIVE, at most 80% of the RAM in use, and room for the VM.
\* (EligibleByUsage is the fault of leaving out the check against vm.ram.)
EligibleByUsage(m, v, w) == m[w].alive /\ 5 * m[w].ram >= TotalRam[w]

Eligible(m, v, w) ==
  /\ m[w].alive
  /\ 5 * m[w].ram >= TotalRam[w]
  /\ m[w].ram >= Ram[v]
  /\ TotalCpu[w] * (100 - m[w].cpu) >= 100 * Vcpu[v]

\* The reservation in the session.  (ReserveCpu takes the wrong column.)
ReserveCpu(m, w, v) == [m EXCEPT ![w].ram = @ - Vcpu[v]]
Reserve(m, w, v)    == [m EXCEPT ![w].ram = @ - Ram[v]]

Candidates(v) == {w \in Workers : Cluster[w] = Target[SliceOf[v]]}

\* The scan starts after the last worker chosen, or at the smallest id when
\* that one is of the other cluster (last_idx = -1), and wraps around.
\* (ScanFromLast is the fault of starting at the last worker itself.)
ScanFromLast(l, C, w, u) ==
  IF l \in C /\ (w >= l) # (u >= l) THEN w >= l ELSE w <= u

ScannedBefore(l, C, w, u) ==
  IF l \in C /\ (w > l) # (u > l) THEN w > l ELSE w <= u

Chosen(m, l, v) ==
  LET C == Candidates(v)
      E == {w \in C : Eligible(m, v, w)}
  IN {w \in E : \A u \in E : ScannedBefore(l, C, w, u)}
-----------------------------------------------------------------------------
Init ==
  /\ slices = Slices
  /\ tstatus = [v \in VMs |-> "NONE"]
  /\ taskWorker = NoPlan /\ vmWorker = NoPlan
  /\ metrics = [w \in Workers |-> [ram |-> TotalRam[w], alive |-> TRUE, cpu |-> 0]]
  /\ last = NoWorker
  /\ calls = 0
  /\ pc = [g \in Triggers |-> "idle"]
  /\ todo = [g \in Triggers |-> {}] /\ at = [g \in Triggers |-> {}]
  /\ seen = [g \in Triggers |-> <<>>]
  /\ seenLast = [g \in Triggers |-> NoWorker]
  /\ held = [g \in Triggers |-> NoPlan] /\ plan = [g \in Triggers |-> NoPlan]
  /\ mon = <<>>
  /\ measured = 0 /\ mixed = FALSE
  /\ placed = [v \in VMs |-> 0]

\* slice-manager commits the PENDING tasks of a slice, and then calls trigger.
Activate(s) ==
  /\ s \in slices
  /\ \A v \in VMs : SliceOf[v] = s => tstatus[v] = "NONE"
  /\ tstatus' = [v \in VMs |-> IF SliceOf[v] = s THEN "PENDING" ELSE tstatus[v]]
  /\ UNCHANGED <<slices, taskWorker, vmWorker, shared, control, mon, measured, mixed, placed>>

\* (ListedUndispatched is the fault of listing released tasks again.)
ListedUndispatched(v) == SliceOf[v] \in slices /\ tstatus[v] \in {"PENDING", "PLACEMENT_READY"}
Listed(v) == SliceOf[v] \in slices /\ tstatus[v] = "PENDING"

\* A trigger begins: slice-manager calls it for each activation, and an
\* administrator may at any time (api-gateway).
ReadTasks(g) ==
  /\ pc[g] = "idle" /\ calls < MaxCalls
  /\ calls' = calls + 1
  /\ todo' = [todo EXCEPT ![g] = {v \in VMs : Listed(v)}]
  /\ pc' = [pc EXCEPT ![g] = "workers"]
  /\ mixed' = (mixed \/ \E h \in Triggers \ {g} : pc[h] # "idle")
  /\ UNCHANGED <<rows, shared, at, seen, seenLast, held, plan, mon, measured, placed>>

ReadWorkers(g) ==
  /\ pc[g] = "workers"
  /\ seen' = [seen EXCEPT ![g] = metrics]
  /\ pc' = [pc EXCEPT ![g] = "last"]
  /\ UNCHANGED <<rows, shared, calls, todo, at, seenLast, held, plan, mon, measured, mixed, placed>>

\* A trigger sees its own uncommitted last_worker_id, otherwise the committed one.
ReadLast(g) ==
  /\ pc[g] = "last" /\ todo[g] # {}
  /\ seenLast' = [seenLast EXCEPT ![g] = IF g \in Writing THEN seenLast[g] ELSE last]
  /\ pc' = [pc EXCEPT ![g] = "vm"]
  /\ UNCHANGED <<rows, shared, calls, todo, at, seen, held, plan, mon, measured, mixed, placed>>

\* End of the transaction, with nothing (more) of it in the database.
EndTrigger(g) ==
  /\ pc' = [pc EXCEPT ![g] = "idle"]
  /\ todo' = [todo EXCEPT ![g] = {}] /\ at' = [at EXCEPT ![g] = {}]
  /\ seen' = [seen EXCEPT ![g] = <<>>]
  /\ seenLast' = [seenLast EXCEPT ![g] = NoWorker]
  /\ held' = [held EXCEPT ![g] = NoPlan] /\ plan' = [plan EXCEPT ![g] = NoPlan]

\* The VM and the slice of one task of the list (the SELECT has no order).  One
\* deleted since the list was read makes scalar_one raise, and every assignment
\* of the trigger is rolled back.
ReadVm(g) ==
  /\ pc[g] = "vm"
  /\ \E v \in todo[g] :
       \/ SliceOf[v] \notin slices /\ EndTrigger(g)
       \/ /\ SliceOf[v] \in slices
          /\ at' = [at EXCEPT ![g] = {v}]
          /\ held' = [held EXCEPT ![g][v] = vmWorker[v]]
          /\ pc' = [pc EXCEPT ![g] = "place"]
          /\ UNCHANGED <<todo, seen, seenLast, plan>>
  /\ UNCHANGED <<rows, shared, calls, mon, measured, mixed, placed>>

\* Two sessions that want each other's rows: PostgreSQL ends one of them.
Deadlocked(g) ==
  \/ \E h \in Triggers \ {g} : pc[h] = "place" /\ Writing \cap {g, h} # {}
  \/ g \in Writing /\ mon # <<>>

\* No worker, and the task stays PENDING; or an assignment, flushed once no other
\* trigger holds the row of last_worker_id.  The flush raises, and rolls the
\* trigger back, if the rows are gone by then or it is the victim of a deadlock.
Place(g) ==
  /\ pc[g] = "place"
  /\ \E v \in at[g] :
       \/ /\ Chosen(seen[g], seenLast[g], v) = {}
          /\ todo' = [todo EXCEPT ![g] = @ \ {v}] /\ at' = [at EXCEPT ![g] = {}]
          /\ pc' = [pc EXCEPT ![g] = "last"]
          /\ UNCHANGED <<seen, seenLast, held, plan>>
       \/ /\ Chosen(seen[g], seenLast[g], v) # {}
          /\ SliceOf[v] \notin slices \/ Deadlocked(g)
          /\ EndTrigger(g)
       \/ /\ SliceOf[v] \in slices /\ Writing \subseteq {g}
          /\ \E w \in Chosen(seen[g], seenLast[g], v) :
               /\ seen' = [seen EXCEPT ![g] = Reserve(@, w, v)]
               /\ seenLast' = [seenLast EXCEPT ![g] = w]
               /\ plan' = [plan EXCEPT ![g][v] = w]
          /\ todo' = [todo EXCEPT ![g] = @ \ {v}] /\ at' = [at EXCEPT ![g] = {}]
          /\ pc' = [pc EXCEPT ![g] = "last"]
          /\ UNCHANGED held
  /\ UNCHANGED <<rows, shared, calls, mon, measured, mixed, placed>>

\* The commit: the absolute current_ram_available the session computed, the tasks
\* whatever has become of them since they were read, and the VMs that are given
\* another worker than the session read.  (CommitUnplaced is the fault of storing
\* vm.worker_id only where there is none.)
CommitRows(g, out) ==
  /\ pc[g] = "last" /\ todo[g] = {}
  /\ tstatus' = [v \in VMs |-> IF v \in Assigned(g) THEN "PLACEMENT_READY" ELSE tstatus[v]]
  /\ taskWorker' = [v \in VMs |-> IF v \in Assigned(g) THEN plan[g][v] ELSE taskWorker[v]]
  /\ vmWorker' = [v \in VMs |-> IF v \in out THEN plan[g][v] ELSE vmWorker[v]]
  /\ metrics' = [w \in Workers |-> IF w \in Charged(g)
                                   THEN [metrics[w] EXCEPT !.ram = seen[g][w].ram]
                                   ELSE metrics[w]]
  /\ last' = IF Assigned(g) = {} THEN last ELSE seenLast[g]
  /\ placed' = [v \in VMs |-> IF v \in Assigned(g) THEN placed[v] + 1 ELSE placed[v]]
  /\ EndTrigger(g)
  /\ UNCHANGED <<slices, calls, mon, measured, mixed>>

CommitUnplaced(g) == CommitRows(g, {v \in Assigned(g) : vmWorker[v] = NoWorker})

Commit(g) == CommitRows(g, {v \in Assigned(g) : plan[g][v] # held[g][v]})
-----------------------------------------------------------------------------
\* The dispatcher locks a released task.
Dispatch(v) ==
  /\ SliceOf[v] \in slices /\ tstatus[v] = "PLACEMENT_READY"
  /\ \A g \in Triggers : plan[g][v] = NoWorker
  /\ tstatus' = [tstatus EXCEPT ![v] = "IN_PROGRESS"]
  /\ UNCHANGED <<slices, taskWorker, vmWorker, shared, control, mon, measured, mixed, placed>>

\* slice-manager deletes a slice; the reservation is not given back.  The
\* DELETE waits for the row locks of an assignment that is not committed.
DeleteSlice(s) ==
  /\ s \in slices
  /\ \A g \in Triggers, v \in VMs : SliceOf[v] = s => plan[g][v] = NoWorker
  /\ slices' = slices \ {s}
  /\ UNCHANGED <<tstatus, taskWorker, vmWorker, shared, control, mon, measured, mixed, placed>>

\* update_all_workers_metrics: load the Linux workers, measure each over SSH,
\* commit.  A column goes out only if it differs from what was loaded, but every
\* row does (updated_at); the UPDATE may be the victim of a deadlock.
MonitorRead ==
  /\ Measures # {} /\ mon = <<>> /\ measured < MaxMeasures
  /\ mon' = metrics /\ measured' = measured + 1 /\ mixed' = TRUE
  /\ UNCHANGED <<rows, shared, control, placed>>

Measured(w) ==
  IF Cluster[w] = "linux"
  THEN {[mon[w] EXCEPT !.alive = FALSE]} \cup Measures
  ELSE {mon[w]}

MonitorCommit ==
  /\ mon # <<>>
  /\ \/ /\ \A w \in UNION {Charged(g) : g \in Triggers} : Cluster[w] # "linux"
        /\ \E new \in [Workers -> UNION {Measured(w) : w \in Workers}] :
             /\ \A w \in Workers : new[w] \in Measured(w)
             /\ metrics' = [w \in Workers |->
                  [ram   |-> IF new[w].ram # mon[w].ram THEN new[w].ram ELSE metrics[w].ram,
                   alive |-> new[w].alive, cpu |-> new[w].cpu]]
     \/ Writing # {} /\ UNCHANGED metrics
  /\ mon' = <<>>
  /\ UNCHANGED <<rows, last, control, measured, mixed, placed>>

Trigger(g) == ReadTasks(g) \/ ReadWorkers(g) \/ ReadLast(g) \/ ReadVm(g) \/ Place(g) \/ Commit(g)

Next ==
  \/ \E g \in Triggers : Trigger(g)
  \/ \E s \in Slices : Activate(s) \/ DeleteSlice(s)
  \/ \E v \in VMs : Dispatch(v)
  \/ MonitorRead \/ MonitorCommit

Spec == Init /\ [][Next]_vars
-----------------------------------------------------------------------------
TypeOK ==
  /\ slices \subseteq Slices
  /\ tstatus \in [VMs -> {"NONE", "PENDING", "PLACEMENT_READY", "IN_PROGRESS"}]
  /\ taskWorker \in [VMs -> Workers \cup {NoWorker}]
  /\ vmWorker \in [VMs -> Workers \cup {NoWorker}]
  /\ metrics \in [Workers -> [ram : Nat, alive : BOOLEAN, cpu : 0..100]]
  /\ last \in Workers \cup {NoWorker}
  /\ calls \in 0..MaxCalls
  /\ pc \in [Triggers -> {"idle", "workers", "last", "vm", "place"}]
  /\ todo \in [Triggers -> SUBSET VMs] /\ at \in [Triggers -> SUBSET VMs]
  /\ seenLast \in [Triggers -> Workers \cup {NoWorker}]
  /\ held \in [Triggers -> [VMs -> Workers \cup {NoWorker}]]
  /\ plan \in [Triggers -> [VMs -> Workers \cup {NoWorker}]]
  /\ measured \in 0..MaxMeasures /\ mixed \in BOOLEAN /\ placed \in [VMs -> Nat]

PlacedOn(w) == {v \in VMs : vmWorker[v] = w}

\* Task and VM name the same worker, although a commit may leave the VM out: the
\* dispatcher sends the VM where the task says, deletion and Networking look where
\* the VM says.  Two triggers that place one VM agree; a third may store its worker
\* in the task alone, having read that worker from the first and lost to the second.
\* Either worker is of the cluster the slice is for.
TaskAndVmAgree ==
  \A v \in VMs :
    /\ placed[v] <= 2 => taskWorker[v] = vmWorker[v]
    /\ \A w \in {taskWorker[v], vmWorker[v]} \ {NoWorker} : Cluster[w] = Target[SliceOf[v]]

\* The free RAM of a worker is its total minus that of the VMs ever placed on
\* it: no reservation is lost or taken twice by a retry, a rollback or a deletion
\* in between, until triggers overlap or monitoring measures (the commit of a
\* trigger writes the absolute value it computed).
ReservationsAdd ==
  mixed \/ \A w \in Workers :
    metrics[w].ram + MapThenSumSet(LAMBDA v : Ram[v], PlacedOn(w)) = TotalRam[w]

\* A task that the dispatcher has taken keeps its worker: no trigger places it
\* again under the dispatcher's feet, until triggers overlap (or monitoring has
\* begun, since `mixed` is of both).
DispatchedStays ==
  [][\A v \in VMs : ~mixed /\ tstatus[v] = "IN_PROGRESS"
        => tstatus'[v] = "IN_PROGRESS" /\ vmWorker'[v] = vmWorker[v]]_vars

\* placement_service.py:73, "Robust Round Robin": the worker that took the last VM
\* does not take the next one while another of its cluster is eligible.  (Between
\* VMs of one cluster only: one of the other cluster moves the pointer away, and
\* the scan then begins at the first worker again.)
TurnsKept ==
  [][\A g \in Triggers, v \in VMs :
       plan[g][v] = NoWorker /\ plan'[g][v] # NoWorker /\ plan'[g][v] = seenLast[g]
         => \A w \in Candidates(v) \ {seenLast[g]} : ~Eligible(seen[g], v, w)]_vars
=============================================================================
