-------------------------- MODULE Placement_proofs --------------------------
(***************************************************************************)
(* vm-placement: no RAM is promised that a worker does not have, task and  *)
(* VM name one worker of the right cluster until a third trigger places    *)
(* the VM, a task under way keeps its worker and the reservations of a     *)
(* worker add up until triggers overlap, and the worker that took a VM     *)
(* does not take the next, for any workers, VMs and demand.                *)
(***************************************************************************)
EXTENDS Placement, FiniteSetTheorems, WellFoundedInduction, TLAPS

States == {"NONE", "PENDING", "PLACEMENT_READY", "IN_PROGRESS"}
Points == {"idle", "workers", "last", "vm", "place"}
\* A trigger that has read the workers.
Reading == {"last", "vm", "place"}
Given  == Workers \cup {NoWorker}
Row    == [ram : Nat, alive : BOOLEAN, cpu : 0..100]

RowsOK ==
  /\ slices \subseteq Slices /\ tstatus \in [VMs -> States]
  /\ taskWorker \in [VMs -> Given] /\ vmWorker \in [VMs -> Given]

\* Metrics, as stored, as a trigger holds them and as monitoring has loaded them.
MetricsOK ==
  /\ metrics \in [Workers -> Row]
  /\ \A g \in Triggers : pc[g] \in Reading => seen[g] \in [Workers -> Row]
  /\ mon # <<>> => mon \in [Workers -> Row]

\* The task a trigger is placing is on its list.
TriggersOK ==
  /\ calls \in 0..MaxCalls
  /\ pc \in [Triggers -> Points] /\ todo \in [Triggers -> SUBSET VMs] /\ at \in [Triggers -> SUBSET VMs]
  /\ \A g \in Triggers : at[g] \subseteq todo[g] /\ (pc[g] # "place" => at[g] = {})
  /\ held \in [Triggers -> [VMs -> Given]]
  /\ seenLast \in [Triggers -> Given] /\ plan \in [Triggers -> [VMs -> Given]]
  /\ seen \in [Triggers -> [Workers -> Row] \cup {<<>>}]

RestOK ==
  /\ last \in Given
  /\ measured \in 0..MaxMeasures /\ mixed \in BOOLEAN /\ placed \in [VMs -> Nat]

Typed == RowsOK /\ MetricsOK /\ TriggersOK /\ RestOK

LEMMA TypeParts == Typed => TypeOK
BY DEF Typed, TypeOK, RowsOK, MetricsOK, TriggersOK, RestOK, States, Points, Given, Row

\* The choice is a worker of the cluster with the RAM the VM asks for.
LEMMA ChosenFits ==
  ASSUME NEW m \in [Workers -> Row], NEW l, NEW v \in VMs, NEW w \in Chosen(m, l, v)
  PROVE  /\ w \in Workers /\ Cluster[w] = Target[SliceOf[v]] /\ w # NoWorker
         /\ Reserve(m, w, v) \in [Workers -> Row]
<1>1. w \in Workers /\ Cluster[w] = Target[SliceOf[v]] /\ m[w].ram >= Ram[v]
  BY DEF Chosen, Candidates, Eligible
<1>2. m[w] \in Row /\ Ram[v] \in Nat
  BY <1>1, PlacementAssumption
<1>3. m[w].ram - Ram[v] \in Nat
  BY <1>1, <1>2 DEF Row
<1>4. [m[w] EXCEPT !.ram = @ - Ram[v]] \in Row
  BY <1>2, <1>3 DEF Row
<1> QED
  BY <1>1, <1>4, PlacementAssumption DEF Reserve

LEMMA TypedInit == Init => Typed
<1> SUFFICES ASSUME Init PROVE Typed
  OBVIOUS
<1>1. NoPlan \in [VMs -> Given]
  BY DEF NoPlan, Given
<1>2. metrics \in [Workers -> Row]
  <2>1. \A w \in Workers : [ram |-> TotalRam[w], alive |-> TRUE, cpu |-> 0] \in Row
    BY PlacementAssumption DEF Row
  <2> QED
    BY <2>1 DEF Init
<1>3. RowsOK /\ MetricsOK
  BY <1>1, <1>2 DEF Init, RowsOK, MetricsOK, States, Reading
<1>4. TriggersOK
  BY <1>1, PlacementAssumption DEF Init, TriggersOK, Points, Given
<1>5. RestOK
  <2>1. 0 \in 0..MaxMeasures
    BY PlacementAssumption
  <2>2. mixed \in BOOLEAN /\ last \in Given /\ placed \in [VMs -> Nat]
    BY DEF Init, Given
  <2> QED
    BY <2>1, <2>2 DEF Init, RestOK
<1> QED
  BY <1>3, <1>4, <1>5 DEF Typed

\* A trigger that ends goes back to where it began.
LEMMA Ending ==
  ASSUME Typed, NEW g \in Triggers, EndTrigger(g), calls' = calls
  PROVE  TriggersOK' /\ \A h \in Triggers : pc'[h] \in Reading => h # g /\ pc'[h] = pc[h] /\ seen'[h] = seen[h]
<1>1. NoPlan \in [VMs -> Given]
  BY DEF NoPlan, Given
<1> QED
  BY <1>1 DEF EndTrigger, Typed, TriggersOK, Points, Reading, Given

\* What Place does to the trigger: it ends, finds no worker, or assigns one.
Places(g, v) ==
  /\ pc[g] = "place" /\ v \in at[g]
  /\ \/ EndTrigger(g)
     \/ /\ todo' = [todo EXCEPT ![g] = @ \ {v}] /\ at' = [at EXCEPT ![g] = {}]
        /\ pc' = [pc EXCEPT ![g] = "last"] /\ held' = held
        /\ \/ UNCHANGED <<seen, seenLast, plan>>
           \/ \E w \in Chosen(seen[g], seenLast[g], v) :
                /\ seen' = [seen EXCEPT ![g] = Reserve(@, w, v)]
                /\ seenLast' = [seenLast EXCEPT ![g] = w]
                /\ plan' = [plan EXCEPT ![g][v] = w]

LEMMA PlaceCases ==
  ASSUME Typed, NEW g \in Triggers, Place(g)
  PROVE  /\ UNCHANGED <<rows, shared, calls, mon, measured, mixed, placed>>
         /\ \E v \in VMs : v \in todo[g] /\ Places(g, v)
<1>1. PICK v \in at[g] : Places(g, v)
  BY DEF Place, Places
<1>2. v \in todo[g] /\ v \in VMs
  BY <1>1 DEF Typed, TriggersOK
<1> QED
  BY <1>1, <1>2 DEF Place

\* ReadVm either ends the trigger, or keeps the VM as it is for its next step.
LEMMA ReadVmCases ==
  ASSUME Typed, NEW g \in Triggers, ReadVm(g)
  PROVE  /\ UNCHANGED <<rows, shared, calls, mon, measured, mixed, placed>> /\ pc[g] = "vm"
         /\ \/ EndTrigger(g)
            \/ /\ \E v \in VMs : /\ v \in todo[g] /\ at' = [at EXCEPT ![g] = {v}]
                                 /\ held' = [held EXCEPT ![g][v] = vmWorker[v]]
               /\ pc' = [pc EXCEPT ![g] = "place"] /\ UNCHANGED <<todo, seen, seenLast, plan>>
<1>1. todo[g] \subseteq VMs
  BY DEF Typed, TriggersOK
<1> QED
  BY <1>1 DEF ReadVm

LEMMA ReadVmKeeps ==
  ASSUME Typed, NEW g \in Triggers, ReadVm(g)
  PROVE  Typed'
<1> USE DEF Typed
<1>1. UNCHANGED <<rows, shared, calls, mon, measured, mixed, placed>> /\ pc[g] = "vm"
  BY ReadVmCases
<1>2. RowsOK' /\ RestOK'
  BY <1>1 DEF rows, shared, RowsOK, RestOK
<1>3. CASE EndTrigger(g)
  BY <1>1, <1>2, <1>3, Ending DEF MetricsOK, shared
<1>4. ASSUME NEW v \in VMs, v \in todo[g], at' = [at EXCEPT ![g] = {v}],
             held' = [held EXCEPT ![g][v] = vmWorker[v]],
             pc' = [pc EXCEPT ![g] = "place"], UNCHANGED <<todo, seen, seenLast, plan>>
      PROVE  Typed'
  <2>1. held' \in [Triggers -> [VMs -> Given]]
    BY <1>4 DEF TriggersOK, RowsOK
  <2>2. TriggersOK'
    BY <1>1, <1>4, <2>1 DEF TriggersOK, Points
  <2>3. MetricsOK'
    BY <1>1, <1>4 DEF MetricsOK, TriggersOK, Reading, shared
  <2> QED
    BY <1>2, <2>2, <2>3
<1> QED
  BY <1>3, <1>4, ReadVmCases

LEMMA PlaceKeeps ==
  ASSUME Typed, NEW g \in Triggers, Place(g)
  PROVE  Typed'
<1> USE DEF Typed
<1>1. UNCHANGED <<rows, shared, calls, mon, measured, mixed, placed>> /\ pc[g] = "place"
  BY PlaceCases DEF Places
<1>2. RowsOK' /\ RestOK'
  BY <1>1 DEF rows, shared, RowsOK, RestOK
<1>3. PICK v \in VMs : v \in todo[g] /\ Places(g, v)
  BY PlaceCases
<1>4. CASE EndTrigger(g)
  BY <1>1, <1>2, <1>4, Ending DEF MetricsOK, shared
<1>5. CASE /\ todo' = [todo EXCEPT ![g] = @ \ {v}] /\ at' = [at EXCEPT ![g] = {}]
           /\ pc' = [pc EXCEPT ![g] = "last"] /\ UNCHANGED <<held, seen, seenLast, plan>>
  BY <1>1, <1>2, <1>5 DEF MetricsOK, TriggersOK, Points, Reading, shared
<1>6. ASSUME todo' = [todo EXCEPT ![g] = @ \ {v}], at' = [at EXCEPT ![g] = {}],
             pc' = [pc EXCEPT ![g] = "last"], held' = held,
             NEW w \in Chosen(seen[g], seenLast[g], v),
             seen' = [seen EXCEPT ![g] = Reserve(@, w, v)],
             seenLast' = [seenLast EXCEPT ![g] = w],
             plan' = [plan EXCEPT ![g][v] = w]
      PROVE  Typed'
  <2>1. seen[g] \in [Workers -> Row]
    BY <1>1 DEF MetricsOK, Reading
  <2>2. w \in Given /\ Reserve(seen[g], w, v) \in [Workers -> Row]
    BY <2>1, ChosenFits DEF Given
  <2>3. plan' \in [Triggers -> [VMs -> Given]]
    BY <1>6, <2>1, <2>2 DEF TriggersOK
  <2>4. seen' \in [Triggers -> [Workers -> Row] \cup {<<>>}] /\ seen'[g] \in [Workers -> Row]
    BY <1>6, <2>2 DEF TriggersOK
  <2>5. TriggersOK'
    BY <1>1, <1>6, <2>2, <2>3, <2>4 DEF TriggersOK, Points
  <2>6. MetricsOK'
    BY <1>1, <1>6, <2>4 DEF MetricsOK, TriggersOK, Reading, shared
  <2> QED
    BY <1>2, <2>5, <2>6
<1> QED
  BY <1>3, <1>4, <1>5, <1>6 DEF Places

LEMMA CommitKeeps ==
  ASSUME Typed, NEW g \in Triggers, Commit(g)
  PROVE  Typed'
<1> USE DEF Typed
<1>1. EndTrigger(g) /\ pc[g] = "last" /\ UNCHANGED <<slices, calls, mon, measured, mixed>>
  BY DEF Commit, CommitRows
<1>2. \A v \in VMs : plan[g][v] \in Given
  BY DEF TriggersOK
<1>3. RowsOK'
  BY <1>1, <1>2 DEF Commit, CommitRows, RowsOK, States
<1>4. metrics' \in [Workers -> Row]
  <2>1. seen[g] \in [Workers -> Row]
    BY <1>1 DEF MetricsOK, Reading
  <2>2. \A w \in Workers : [metrics[w] EXCEPT !.ram = seen[g][w].ram] \in Row
    <3> SUFFICES ASSUME NEW w \in Workers PROVE [metrics[w] EXCEPT !.ram = seen[g][w].ram] \in Row
      OBVIOUS
    <3>1. metrics[w] \in Row /\ seen[g][w] \in Row
      BY <2>1 DEF MetricsOK
    <3>2. seen[g][w].ram \in Nat
      BY <3>1 DEF Row
    <3> QED
      BY <3>1, <3>2 DEF Row
  <2> QED
    BY <2>2 DEF Commit, CommitRows, MetricsOK
<1>5. TriggersOK' /\ MetricsOK'
  BY <1>1, <1>4, Ending DEF MetricsOK
<1>6. RestOK'
  BY <1>1 DEF Commit, CommitRows, RestOK, TriggersOK
<1> QED
  BY <1>3, <1>5, <1>6

LEMMA MonitorKeeps ==
  ASSUME Typed, MonitorCommit
  PROVE  Typed'
<1> USE DEF Typed
<1>1. UNCHANGED <<rows, last, control, measured, mixed, placed>> /\ mon' = <<>> /\ mon \in [Workers -> Row]
  BY DEF MonitorCommit, MetricsOK
<1>2. RowsOK' /\ TriggersOK' /\ RestOK'
  BY <1>1 DEF rows, control, RowsOK, TriggersOK, RestOK
<1>3. CASE metrics' = metrics
  BY <1>1, <1>2, <1>3 DEF MetricsOK, control
<1>4. ASSUME NEW new \in [Workers -> UNION {Measured(w) : w \in Workers}],
             \A w \in Workers : new[w] \in Measured(w),
             metrics' = [w \in Workers |->
               [ram   |-> IF new[w].ram # mon[w].ram THEN new[w].ram ELSE metrics[w].ram,
                alive |-> new[w].alive, cpu |-> new[w].cpu]]
      PROVE  Typed'
  <2>1. \A w \in Workers : new[w] \in Row
    <3> SUFFICES ASSUME NEW w \in Workers PROVE Measured(w) \subseteq Row
      BY <1>4
    <3>1. mon[w] \in Row
      BY <1>1
    <3>2. [mon[w] EXCEPT !.alive = FALSE] \in Row
      BY <3>1 DEF Row
    <3>3. Measures \subseteq Row
      BY PlacementAssumption DEF Row
    <3> QED
      BY <3>1, <3>2, <3>3 DEF Measured
  <2>2. \A w \in Workers : metrics[w] \in Row
    BY DEF MetricsOK
  <2>3. metrics' \in [Workers -> Row]
    BY <1>4, <2>1, <2>2 DEF Row
  <2> QED
    BY <1>1, <1>2, <2>3 DEF MetricsOK, control
<1> QED
  BY <1>3, <1>4 DEF MonitorCommit

LEMMA TypedStep == Typed /\ [Next]_vars => Typed'
<1> SUFFICES ASSUME Typed, [Next]_vars PROVE Typed'
  OBVIOUS
<1> USE DEF Typed
<1>1. CASE UNCHANGED vars
  BY <1>1 DEF vars, rows, shared, control, RowsOK, MetricsOK, TriggersOK, RestOK
<1>2. ASSUME NEW g \in Triggers, ReadTasks(g) PROVE Typed'
  <2>1. UNCHANGED <<rows, shared, at, seen, seenLast, held, plan, mon, measured, placed>> /\ mixed' \in BOOLEAN
    BY <1>2 DEF ReadTasks
  <2>2. calls' \in 0..MaxCalls
    <3>1. calls' = calls + 1 /\ calls < MaxCalls /\ calls \in 0..MaxCalls /\ MaxCalls \in Nat
      BY <1>2, PlacementAssumption DEF ReadTasks, TriggersOK
    <3> QED
      BY <3>1
  <2>3. TriggersOK'
    BY <1>2, <2>1, <2>2 DEF ReadTasks, TriggersOK, Points
  <2>4. MetricsOK'
    BY <1>2, <2>1 DEF ReadTasks, MetricsOK, TriggersOK, Reading, shared
  <2> QED
    BY <2>1, <2>3, <2>4 DEF rows, shared, RowsOK, RestOK
<1>3. ASSUME NEW g \in Triggers, ReadWorkers(g) PROVE Typed'
  BY <1>3 DEF ReadWorkers, rows, shared, RowsOK, MetricsOK, TriggersOK, RestOK, Points, Reading
<1>4. ASSUME NEW g \in Triggers, ReadLast(g) PROVE Typed'
  BY <1>4 DEF ReadLast, rows, shared, RowsOK, MetricsOK, TriggersOK, RestOK, Points, Reading
<1>5. ASSUME NEW g \in Triggers, ReadVm(g) \/ Place(g) \/ Commit(g) PROVE Typed'
  BY <1>5, ReadVmKeeps, PlaceKeeps, CommitKeeps
<1>6. ASSUME NEW s \in Slices, Activate(s) PROVE Typed'
  <2>1. RowsOK'
    BY <1>6 DEF Activate, RowsOK, States
  <2>2. MetricsOK' /\ TriggersOK' /\ RestOK'
    BY <1>6 DEF Activate, shared, control, MetricsOK, TriggersOK, RestOK
  <2> QED
    BY <2>1, <2>2
<1>7. ASSUME NEW s \in Slices, DeleteSlice(s) PROVE Typed'
  BY <1>7 DEF DeleteSlice, shared, control, RowsOK, MetricsOK, TriggersOK, RestOK
<1>8. ASSUME NEW v \in VMs, Dispatch(v) PROVE Typed'
  BY <1>8 DEF Dispatch, shared, control, RowsOK, MetricsOK, TriggersOK, RestOK, States
<1>9. CASE MonitorRead
  BY <1>9, PlacementAssumption DEF MonitorRead, rows, shared, control, RowsOK, MetricsOK, TriggersOK, RestOK
<1>10. CASE MonitorCommit
  BY <1>10, MonitorKeeps
<1> QED
  BY <1>1, <1>2, <1>3, <1>4, <1>5, <1>6, <1>7, <1>8, <1>9, <1>10 DEF Next, Trigger

\* The rows keep their types; above all, free RAM is never negative, however
\* triggers, monitoring and deletions overlap.
THEOREM TypeCorrect == Spec => []TypeOK
BY TypedInit, TypedStep, TypeParts, PTL DEF Spec
-----------------------------------------------------------------------------
(***************************************************************************)
(* Task and VM.                                                            *)
(***************************************************************************)
\* What is assigned, committed or not, is of the cluster of the slice.
OfCluster(v, w) == w # NoWorker => Cluster[w] = Target[SliceOf[v]]

Matched ==
  \A v \in VMs : /\ OfCluster(v, taskWorker[v]) /\ OfCluster(v, vmWorker[v])
                 /\ \A g \in Triggers : OfCluster(v, plan[g][v])

\* Until a second commit has placed the VM, what a session knows of its worker is
\* what it is, or that it had none; so a second commit that leaves the VM out has
\* placed it where it is.
Remembered ==
  \A v \in VMs :
    /\ placed[v] <= 2 => taskWorker[v] = vmWorker[v]
    /\ placed[v] = 0 => vmWorker[v] = NoWorker
    /\ placed[v] <= 1 => \A g \in Triggers : held[g][v] \in {NoWorker, vmWorker[v]}

AInv == Typed /\ Matched /\ Remembered

\* A step that adds one assignment to those of a trigger.
Assigns(g, v) ==
  /\ pc[g] = "place" /\ v \in todo[g]
  /\ \E w \in Chosen(seen[g], seenLast[g], v) : plan' = [plan EXCEPT ![g][v] = w]

\* A plan changes by one assignment, or is gone at the end of its trigger.
LEMMA PlanSteps ==
  ASSUME Typed, [Next]_vars
  PROVE  \/ plan' = plan
         \/ \E g \in Triggers : \/ plan' = [plan EXCEPT ![g] = NoPlan]
                                \/ \E v \in VMs : Assigns(g, v)
<1>1. ASSUME NEW g \in Triggers, ReadTasks(g) \/ ReadWorkers(g) \/ ReadLast(g) PROVE plan' = plan
  BY <1>1 DEF ReadTasks, ReadWorkers, ReadLast
<1>2. ASSUME NEW g \in Triggers, ReadVm(g) PROVE plan' = plan \/ plan' = [plan EXCEPT ![g] = NoPlan]
  BY <1>2, ReadVmCases DEF EndTrigger
<1>3. ASSUME NEW g \in Triggers, Place(g)
      PROVE  plan' = plan \/ plan' = [plan EXCEPT ![g] = NoPlan] \/ \E v \in VMs : Assigns(g, v)
  BY <1>3, PlaceCases DEF Places, Assigns, EndTrigger
<1>4. ASSUME NEW g \in Triggers, Commit(g) PROVE plan' = [plan EXCEPT ![g] = NoPlan]
  BY <1>4 DEF Commit, CommitRows, EndTrigger
<1>5. ASSUME NEW s \in Slices, Activate(s) \/ DeleteSlice(s) PROVE plan' = plan
  BY <1>5 DEF Activate, DeleteSlice, control
<1>6. ASSUME NEW v \in VMs, Dispatch(v) PROVE plan' = plan
  BY <1>6 DEF Dispatch, control
<1>7. CASE MonitorRead \/ MonitorCommit \/ UNCHANGED vars
  BY <1>7 DEF MonitorRead, MonitorCommit, vars, control
<1> QED
  BY <1>1, <1>2, <1>3, <1>4, <1>5, <1>6, <1>7 DEF Next, Trigger

\* Only a commit places, and only ReadVm and the end of a trigger change what its
\* session knows of the VMs.
LEMMA PlacingSteps ==
  ASSUME Typed, [Next]_vars
  PROVE  \/ \E g \in Triggers : Commit(g)
         \/ /\ UNCHANGED <<taskWorker, vmWorker, placed>>
            /\ \/ held' = held
               \/ \E g \in Triggers : held' = [held EXCEPT ![g] = NoPlan]
               \/ \E g \in Triggers, v \in VMs : held' = [held EXCEPT ![g][v] = vmWorker[v]]
<1>1. ASSUME NEW g \in Triggers, ReadTasks(g) \/ ReadWorkers(g) \/ ReadLast(g)
      PROVE  UNCHANGED <<taskWorker, vmWorker, placed, held>>
  BY <1>1 DEF ReadTasks, ReadWorkers, ReadLast, rows
<1>2. ASSUME NEW g \in Triggers, ReadVm(g)
      PROVE  /\ UNCHANGED <<taskWorker, vmWorker, placed>>
             /\ held' = [held EXCEPT ![g] = NoPlan] \/ \E v \in VMs : held' = [held EXCEPT ![g][v] = vmWorker[v]]
  BY <1>2, ReadVmCases DEF EndTrigger, rows
<1>3. ASSUME NEW g \in Triggers, Place(g)
      PROVE  UNCHANGED <<taskWorker, vmWorker, placed>> /\ (held' = held \/ held' = [held EXCEPT ![g] = NoPlan])
  BY <1>3, PlaceCases DEF Places, EndTrigger, rows
<1>4. ASSUME NEW s \in Slices, Activate(s) \/ DeleteSlice(s) PROVE UNCHANGED <<taskWorker, vmWorker, placed, held>>
  BY <1>4 DEF Activate, DeleteSlice, control
<1>5. ASSUME NEW v \in VMs, Dispatch(v) PROVE UNCHANGED <<taskWorker, vmWorker, placed, held>>
  BY <1>5 DEF Dispatch, control
<1>6. CASE MonitorRead \/ MonitorCommit \/ UNCHANGED vars
  BY <1>6 DEF MonitorRead, MonitorCommit, vars, rows, control
<1> QED
  BY <1>1, <1>2, <1>3, <1>4, <1>5, <1>6 DEF Next, Trigger

LEMMA MatchedStep ==
  ASSUME Typed, Matched, [Next]_vars
  PROVE  Matched'
<1> USE DEF OfCluster
<1>1. \A v \in VMs, g \in Triggers : OfCluster(v, plan'[g][v])
  <2>1. CASE plan' = plan
    BY <2>1 DEF Matched
  <2>2. ASSUME NEW g \in Triggers, plan' = [plan EXCEPT ![g] = NoPlan]
        PROVE  \A v \in VMs, h \in Triggers : OfCluster(v, plan'[h][v])
    BY <2>2 DEF Matched, NoPlan, Typed, TriggersOK
  <2>3. ASSUME NEW g \in Triggers, NEW v \in VMs, pc[g] = "place",
               NEW w \in Chosen(seen[g], seenLast[g], v), plan' = [plan EXCEPT ![g][v] = w]
        PROVE  \A u \in VMs, h \in Triggers : OfCluster(u, plan'[h][u])
    <3>1. seen[g] \in [Workers -> Row]
      BY <2>3 DEF Typed, MetricsOK, Reading
    <3>2. Cluster[w] = Target[SliceOf[v]]
      BY <3>1, ChosenFits
    <3> QED
      BY <2>3, <3>2 DEF Matched, Typed, TriggersOK
  <2> QED
    BY <2>1, <2>2, <2>3, PlanSteps DEF Assigns
<1>2. \A v \in VMs : OfCluster(v, taskWorker'[v]) /\ OfCluster(v, vmWorker'[v])
  <2>1. ASSUME NEW g \in Triggers, Commit(g)
        PROVE  \A v \in VMs : /\ taskWorker'[v] \in {taskWorker[v], plan[g][v]}
                              /\ vmWorker'[v] \in {vmWorker[v], plan[g][v]}
    BY <2>1 DEF Commit, CommitRows
  <2> QED
    BY <2>1, PlacingSteps DEF Matched
<1> QED
  BY <1>1, <1>2 DEF Matched

LEMMA RememberedStep ==
  ASSUME Typed, Remembered, [Next]_vars
  PROVE  Remembered'
<1> USE DEF Typed, RowsOK, TriggersOK
<1>0. \A v \in VMs : placed[v] \in Nat
  BY DEF RestOK
<1>1. ASSUME NEW g \in Triggers, Commit(g) PROVE Remembered'
  <2>1. /\ taskWorker' = [v \in VMs |-> IF v \in Assigned(g) THEN plan[g][v] ELSE taskWorker[v]]
        /\ vmWorker' = [v \in VMs |-> IF v \in {u \in Assigned(g) : plan[g][u] # held[g][u]}
                                      THEN plan[g][v] ELSE vmWorker[v]]
        /\ placed' = [v \in VMs |-> IF v \in Assigned(g) THEN placed[v] + 1 ELSE placed[v]]
        /\ held' = [held EXCEPT ![g] = NoPlan]
    BY <1>1 DEF Commit, CommitRows, EndTrigger
  <2> SUFFICES ASSUME NEW v \in VMs
               PROVE  /\ placed'[v] <= 2 => taskWorker'[v] = vmWorker'[v]
                      /\ placed'[v] = 0 => vmWorker'[v] = NoWorker
                      /\ placed'[v] <= 1 => \A h \in Triggers : held'[h][v] \in {NoWorker, vmWorker'[v]}
    BY DEF Remembered
  <2>2. \A h \in Triggers : held'[h][v] \in {NoWorker, held[h][v]}
    BY <2>1 DEF NoPlan
  <2>3. CASE v \notin Assigned(g)
    BY <2>1, <2>2, <2>3 DEF Remembered
  <2>4. CASE v \in Assigned(g)
    <3>1. placed'[v] = placed[v] + 1 /\ taskWorker'[v] = plan[g][v] /\ plan[g][v] # NoWorker
      BY <2>1, <2>4 DEF Assigned
    <3>2. vmWorker'[v] = IF plan[g][v] # held[g][v] THEN plan[g][v] ELSE vmWorker[v]
      BY <2>1, <2>4
    <3>3. CASE placed[v] = 0
      <4>1. held[g][v] = NoWorker /\ vmWorker[v] = NoWorker /\ \A h \in Triggers : held[h][v] = NoWorker
        <5>1. vmWorker[v] = NoWorker
          BY ONLY <3>3, Remembered DEF Remembered
        <5>2. \A h \in Triggers : held[h][v] \in {NoWorker, vmWorker[v]}
          BY ONLY <3>3, Remembered DEF Remembered
        <5> QED
          BY ONLY <5>1, <5>2
      <4>2. vmWorker'[v] = plan[g][v] /\ placed'[v] = 1
        BY ONLY <3>1, <3>2, <3>3, <4>1
      <4>3. \A h \in Triggers : held'[h][v] = NoWorker
        BY ONLY <2>2, <4>1
      <4> QED
        BY ONLY <3>1, <4>2, <4>3
    <3>4. CASE placed[v] = 1
      <4>1. held[g][v] \in {NoWorker, vmWorker[v]}
        BY <3>4 DEF Remembered
      <4>2. placed'[v] = 2
        BY <3>1, <3>4
      <4> QED
        BY <3>1, <3>2, <4>1, <4>2
    <3>5. CASE placed[v] > 1
      <4>1. ~(placed'[v] <= 2) /\ placed'[v] # 0 /\ ~(placed'[v] <= 1)
        <5>1. placed[v] \in Nat /\ placed'[v] = placed[v] + 1
          BY <1>0, <3>1
        <5> QED
          BY <3>5, <5>1
      <4> QED
        BY <4>1
    <3>6. placed[v] = 0 \/ placed[v] = 1 \/ placed[v] > 1
      <4>1. placed[v] \in Nat
        BY <1>0
      <4>2. \A n \in Nat : n = 0 \/ n = 1 \/ n > 1
        OBVIOUS
      <4> QED
        BY <4>1, <4>2
    <3> QED
      BY <3>3, <3>4, <3>5, <3>6
  <2> QED
    BY <2>3, <2>4
<1>2. CASE UNCHANGED <<taskWorker, vmWorker, placed, held>>
  BY <1>2 DEF Remembered
<1>3. ASSUME NEW g \in Triggers, held' = [held EXCEPT ![g] = NoPlan], UNCHANGED <<taskWorker, vmWorker, placed>>
      PROVE  Remembered'
  <2>1. \A h \in Triggers, v \in VMs : held'[h][v] \in {NoWorker, held[h][v]}
    BY <1>3 DEF NoPlan
  <2> QED
    BY <1>3, <2>1 DEF Remembered
<1>4. ASSUME NEW g \in Triggers, NEW u \in VMs, held' = [held EXCEPT ![g][u] = vmWorker[u]],
             UNCHANGED <<taskWorker, vmWorker, placed>>
      PROVE  Remembered'
  <2>1. \A h \in Triggers, v \in VMs : held'[h][v] \in {vmWorker[v], held[h][v]}
    BY <1>4
  <2> QED
    BY <1>4, <2>1 DEF Remembered
<1> QED
  BY <1>1, <1>2, <1>3, <1>4, PlacingSteps

\* Task and VM name the same worker as long as at most two triggers have placed the
\* VM, and workers of the cluster of its slice in every interleaving, for any number
\* of triggers, workers and VMs: the dispatcher goes by the task, networking and
\* deletion by the VM.
THEOREM OneWorker == Spec => []TaskAndVmAgree
<1>1. Init => AInv
  <2>1. Init => Matched /\ Remembered
    BY DEF Init, Matched, OfCluster, NoPlan, Remembered
  <2> QED
    BY <2>1, TypedInit DEF AInv
<1>2. AInv /\ [Next]_vars => AInv'
  BY TypedStep, MatchedStep, RememberedStep DEF AInv
<1>3. AInv => TaskAndVmAgree
  BY DEF AInv, Matched, OfCluster, Remembered, TaskAndVmAgree
<1> QED
  BY <1>1, <1>2, <1>3, PTL DEF Spec
-----------------------------------------------------------------------------
(***************************************************************************)
(* The round robin.                                                        *)
(***************************************************************************)
\* The worker at the pointer is chosen only if it is alone.
LEMMA PointerIsLast ==
  ASSUME NEW m, NEW v, NEW l, l \in Chosen(m, l, v), NEW w \in Candidates(v) \ {l}
  PROVE  ~Eligible(m, v, w)
<1> SUFFICES ASSUME Eligible(m, v, w) PROVE FALSE
  OBVIOUS
<1>1. l \in Candidates(v) /\ l \in Int /\ w \in Int
  <2>1. l \in Candidates(v)
    BY DEF Chosen
  <2>2. \A u \in Candidates(v) : u \in Int
    BY PlacementAssumption DEF Candidates
  <2> QED
    BY <2>1, <2>2
<1>2. ScannedBefore(l, Candidates(v), l, w)
  BY DEF Chosen
<1> QED
  BY <1>1, <1>2 DEF ScannedBefore

\* The worker that took the last VM takes the next one only when no other of the
\* cluster is eligible (placement_service.py:73), whatever the pointer and the load.
THEOREM Robin == Spec => TurnsKept
<1> DEFINE Turns ==
      \A g \in Triggers, v \in VMs :
        plan[g][v] = NoWorker /\ plan'[g][v] # NoWorker /\ plan'[g][v] = seenLast[g]
          => \A w \in Candidates(v) \ {seenLast[g]} : ~Eligible(seen[g], v, w)
<1>1. ASSUME Typed, [Next]_vars, NEW g \in Triggers, NEW v \in VMs, plan[g][v] = NoWorker,
             plan'[g][v] # NoWorker, plan'[g][v] = seenLast[g], NEW w \in Candidates(v) \ {seenLast[g]}
      PROVE  ~Eligible(seen[g], v, w)
  <2>1. PICK h \in Triggers, u \in VMs :
          \E x \in Chosen(seen[h], seenLast[h], u) : plan' = [plan EXCEPT ![h][u] = x]
    <3>1. ASSUME NEW h \in Triggers PROVE plan' # [plan EXCEPT ![h] = NoPlan]
      BY <1>1 DEF NoPlan, Typed, TriggersOK
    <3> QED
      BY <1>1, <3>1, PlanSteps DEF Assigns
  <2>2. h = g /\ u = v
    BY <1>1, <2>1 DEF Typed, TriggersOK
  <2>3. seenLast[g] \in Chosen(seen[g], seenLast[g], v)
    BY <1>1, <2>1, <2>2 DEF Typed, TriggersOK
  <2> QED
    BY <1>1, <2>3, PointerIsLast
<1>2. Typed /\ [Next]_vars => [Turns]_vars
  BY <1>1
<1> QED
  BY <1>2, TypedInit, TypedStep, PTL DEF Spec, TurnsKept
-----------------------------------------------------------------------------
(***************************************************************************)
(* Tasks under way.                                                        *)
(***************************************************************************)
\* One trigger at a time: what is on its list, and not deleted, or in its plan is
\* PENDING still, and no other has a list or a plan.
Claims(g) == todo[g] \cup Assigned(g)

Alone ==
  ~mixed =>
    /\ \A g, h \in Triggers : pc[g] # "idle" /\ pc[h] # "idle" => g = h
    /\ \A g \in Triggers : pc[g] = "idle" => Claims(g) = {}
    /\ \A g \in Triggers : \A v \in Claims(g) : tstatus[v] = "PENDING"

LEMMA AloneStep ==
  ASSUME Typed, Alone, [Next]_vars
  PROVE  Alone'
<1> SUFFICES ASSUME ~mixed' PROVE
      /\ \A g, h \in Triggers : pc'[g] # "idle" /\ pc'[h] # "idle" => g = h
      /\ \A g \in Triggers : pc'[g] = "idle" => Claims(g)' = {}
      /\ \A g \in Triggers : \A v \in Claims(g)' : tstatus'[v] = "PENDING"
  BY DEF Alone
<1> USE DEF Alone, Claims, Assigned, Typed, TriggersOK, RowsOK
<1>1. ASSUME NEW g \in Triggers, ReadTasks(g) PROVE Alone'
  <2>1. ~mixed /\ \A h \in Triggers \ {g} : pc[h] = "idle"
    BY <1>1 DEF ReadTasks
  <2>2. /\ todo' = [todo EXCEPT ![g] = {v \in VMs : Listed(v)}] /\ pc' = [pc EXCEPT ![g] = "workers"]
        /\ tstatus' = tstatus /\ plan' = plan /\ pc[g] = "idle"
    BY <1>1 DEF ReadTasks, rows
  <2>3. \A v \in VMs : Listed(v) => tstatus[v] = "PENDING"
    BY DEF Listed
  <2> QED
    BY <2>1, <2>2, <2>3
<1>2. ASSUME NEW g \in Triggers, ReadWorkers(g) \/ ReadLast(g) PROVE Alone'
  <2>1. UNCHANGED <<todo, plan, tstatus, mixed>> /\ pc[g] # "idle"
    BY <1>2 DEF ReadWorkers, ReadLast, rows
  <2>2. pc' = [pc EXCEPT ![g] = "last"] \/ pc' = [pc EXCEPT ![g] = "vm"]
    BY <1>2 DEF ReadWorkers, ReadLast
  <2>3. \A h \in Triggers : pc'[h] = "idle" <=> pc[h] = "idle"
    BY <2>1, <2>2
  <2> QED
    BY <2>1, <2>3
<1>3. ASSUME NEW g \in Triggers, ReadVm(g) PROVE Alone'
  <2>1. tstatus' = tstatus /\ mixed' = mixed /\ pc[g] = "vm"
    BY <1>3, ReadVmCases DEF rows
  <2>2. CASE EndTrigger(g)
    BY <2>1, <2>2 DEF EndTrigger, NoPlan
  <2>3. CASE pc' = [pc EXCEPT ![g] = "place"] /\ UNCHANGED <<todo, seen, seenLast, plan>>
    BY <2>1, <2>3
  <2> QED
    BY <1>3, <2>2, <2>3, ReadVmCases
<1>9. ASSUME NEW g \in Triggers, Place(g) PROVE Alone'
  <2>1. PICK v \in VMs : v \in todo[g] /\ Places(g, v)
    BY <1>9, PlaceCases
  <2>2. tstatus' = tstatus /\ mixed' = mixed /\ pc[g] = "place"
    BY <1>9, PlaceCases DEF Places, rows
  <2>3. CASE EndTrigger(g)
    BY <2>2, <2>3 DEF EndTrigger, NoPlan
  <2>4. CASE /\ todo' = [todo EXCEPT ![g] = @ \ {v}] /\ pc' = [pc EXCEPT ![g] = "last"]
             /\ plan' = plan
    BY <2>2, <2>4
  <2>5. ASSUME todo' = [todo EXCEPT ![g] = @ \ {v}], pc' = [pc EXCEPT ![g] = "last"],
               NEW w, plan' = [plan EXCEPT ![g][v] = w]
        PROVE  Alone'
    <3>1. Claims(g)' \subseteq Claims(g) /\ \A h \in Triggers \ {g} : Claims(h)' = Claims(h) /\ pc'[h] = pc[h]
      BY <2>1, <2>5
    <3> QED
      BY <2>2, <2>5, <3>1
  <2> QED
    BY <2>1, <2>3, <2>4, <2>5 DEF Places
<1>4. ASSUME NEW g \in Triggers, Commit(g) PROVE Alone'
  <2>1. EndTrigger(g) /\ mixed' = mixed /\ pc[g] = "last"
    BY <1>4 DEF Commit, CommitRows
  <2>2. \A h \in Triggers : pc'[h] = "idle" /\ Claims(h)' = {}
    BY <2>1 DEF EndTrigger, NoPlan
  <2> QED
    BY <2>2
<1>5. ASSUME NEW s \in Slices, Activate(s) PROVE Alone'
  BY <1>5 DEF Activate, control
<1>6. ASSUME NEW s \in Slices, DeleteSlice(s) PROVE Alone'
  BY <1>6 DEF DeleteSlice, control
<1>7. ASSUME NEW v \in VMs, Dispatch(v) PROVE Alone'
  BY <1>7 DEF Dispatch, control
<1>8. CASE MonitorRead \/ MonitorCommit \/ UNCHANGED vars
  BY <1>8 DEF MonitorRead, MonitorCommit, vars, control, rows
<1> QED
  BY <1>1, <1>2, <1>3, <1>4, <1>5, <1>6, <1>7, <1>8, <1>9 DEF Next, Trigger

\* A task that the dispatcher has taken keeps its worker until triggers overlap or
\* monitoring measures, for any number of triggers, one after the other.
THEOREM TakenStays == Spec => DispatchedStays
<1> DEFINE Stays ==
      \A v \in VMs : ~mixed /\ tstatus[v] = "IN_PROGRESS"
        => tstatus'[v] = "IN_PROGRESS" /\ vmWorker'[v] = vmWorker[v]
<1>1. Init => Alone
  BY DEF Init, Alone, Claims, Assigned, NoPlan
<1>2. Typed /\ Alone /\ [Next]_vars => [Stays]_vars
  <2> SUFFICES ASSUME Typed, Alone, Next, NEW v \in VMs, ~mixed, tstatus[v] = "IN_PROGRESS"
               PROVE  tstatus'[v] = "IN_PROGRESS" /\ vmWorker'[v] = vmWorker[v]
    OBVIOUS
  <2> USE DEF Typed, RowsOK
  <2>1. ASSUME NEW g \in Triggers, Commit(g) PROVE tstatus'[v] = tstatus[v] /\ vmWorker'[v] = vmWorker[v]
    <3>1. v \notin Assigned(g)
      BY DEF Alone, Claims
    <3> QED
      BY <2>1, <3>1 DEF Commit, CommitRows
  <2>2. ASSUME NEW g \in Triggers, ReadTasks(g) \/ ReadWorkers(g) \/ ReadLast(g) \/ ReadVm(g) \/ Place(g)
        PROVE  UNCHANGED <<tstatus, vmWorker>>
    BY <2>2 DEF ReadTasks, ReadWorkers, ReadLast, ReadVm, Place, rows
  <2>3. ASSUME NEW s \in Slices, Activate(s) PROVE tstatus'[v] = tstatus[v] /\ vmWorker' = vmWorker
    BY <2>3 DEF Activate
  <2>4. ASSUME NEW s \in Slices, DeleteSlice(s) PROVE UNCHANGED <<tstatus, vmWorker>>
    BY <2>4 DEF DeleteSlice
  <2>5. ASSUME NEW u \in VMs, Dispatch(u) PROVE tstatus'[v] = tstatus[v] /\ vmWorker' = vmWorker
    BY <2>5 DEF Dispatch
  <2>6. CASE MonitorRead \/ MonitorCommit
    BY <2>6 DEF MonitorRead, MonitorCommit, rows
  <2> QED
    BY <2>1, <2>2, <2>3, <2>4, <2>5, <2>6 DEF Next, Trigger
<1>3. Typed /\ Alone /\ [Next]_vars => (Typed /\ Alone)'
  BY TypedStep, AloneStep
<1> QED
  BY <1>1, <1>2, <1>3, TypedInit, PTL DEF Spec, DispatchedStays
-----------------------------------------------------------------------------
(***************************************************************************)
(* Sums.  MapThenSumSet is a recursive function, and what it computes is   *)
(* an induction: here, that a family of subsets of a finite set has a      *)
(* smallest one, so that none is the smallest to fail.                     *)
(***************************************************************************)
\* A family of subsets of a finite set has a smallest one.
LEMMA Smallest ==
  ASSUME NEW S, IsFiniteSet(S), NEW F, F \subseteq SUBSET S, F # {}
  PROVE  \E T \in F : \A U \in F : U \subseteq T => U = T
<1>1. IsWellFoundedOn(StrictSubsetOrdering(S), FiniteSubsetsOf(S))
  BY FS_StrictSubsetOrderingWellFounded
<1>2. FiniteSubsetsOf(S) = SUBSET S
  BY FS_FiniteSubsetsOfFinite
<1>3. PICK T \in F : \A U \in F : ~(<<U, T>> \in StrictSubsetOrdering(S))
  BY <1>1, <1>2, WFMin
<1> QED
  BY <1>3 DEF StrictSubsetOrdering

Picked(s) == CHOOSE x \in s : TRUE
Sums(f, S) == f = [s \in SUBSET S |-> IF s = {} THEN 0 ELSE Ram[Picked(s)] + f[s \ {Picked(s)}]]
Sum(S) == MapThenSumSet(LAMBDA v : Ram[v], S)

LEMMA Unfold ==
  ASSUME NEW S
  PROVE  Sum(S) = (CHOOSE f : Sums(f, S))[S]
BY DEF Sum, MapThenSumSet, MapThenFoldSet, Sums, Picked

LEMMA PickedIn == ASSUME NEW S, S # {} PROVE Picked(S) \in S
BY DEF Picked

\* Two functions that sum agree where both are defined.
LEMMA SumsAgree ==
  ASSUME NEW S, IsFiniteSet(S), NEW f, Sums(f, S), NEW T, NEW g, Sums(g, T), T \subseteq S, NEW U \in SUBSET T
  PROVE  f[U] = g[U]
<1> DEFINE F == {V \in SUBSET T : f[V] # g[V]}
<1> SUFFICES ASSUME F # {} PROVE FALSE
  OBVIOUS
<1>1. PICK V \in F : \A W \in F : W \subseteq V => W = V
  <2>1. F \subseteq SUBSET S
    OBVIOUS
  <2> HIDE DEF F
  <2> QED
    BY <2>1, Smallest
<1>2. /\ f[V] = IF V = {} THEN 0 ELSE Ram[Picked(V)] + f[V \ {Picked(V)}]
      /\ g[V] = IF V = {} THEN 0 ELSE Ram[Picked(V)] + g[V \ {Picked(V)}]
  <2>1. V \in SUBSET T /\ V \in SUBSET S
    OBVIOUS
  <2>2. f[V] = IF V = {} THEN 0 ELSE Ram[Picked(V)] + f[V \ {Picked(V)}]
    BY <2>1 DEF Sums
  <2>3. g[V] = IF V = {} THEN 0 ELSE Ram[Picked(V)] + g[V \ {Picked(V)}]
    BY <2>1 DEF Sums
  <2> QED
    BY <2>2, <2>3
<1>3. V # {}
  BY <1>2
<1>4. V \ {Picked(V)} \in SUBSET T /\ V \ {Picked(V)} # V
  BY <1>3, PickedIn
<1>5. f[V \ {Picked(V)}] = g[V \ {Picked(V)}]
  BY <1>1, <1>4
<1> QED
  BY <1>2, <1>3, <1>5

\* The recursion of the fold has a solution over every finite set.
LEMMA SumsExist ==
  ASSUME NEW S, IsFiniteSet(S)
  PROVE  \E f : Sums(f, S)
<1> DEFINE F == {T \in SUBSET S : ~\E f : Sums(f, T)}
           H(U) == CHOOSE f : Sums(f, U)
<1> SUFFICES ASSUME F # {} PROVE FALSE
  OBVIOUS
<1>1. PICK T \in F : \A U \in F : U \subseteq T => U = T
  <2>1. F \subseteq SUBSET S
    OBVIOUS
  <2> HIDE DEF F
  <2> QED
    BY <2>1, Smallest
<1>2. ASSUME NEW U \in SUBSET T, U # T PROVE Sums(H(U), U) /\ IsFiniteSet(U)
  <2>1. \E f : Sums(f, U)
    BY <1>1, <1>2
  <2> QED
    BY <2>1, FS_Subset
<1>3. ASSUME NEW U \in SUBSET T, U # T, NEW V \in SUBSET U PROVE H(U)[V] = H(V)[V]
  <2>1. V # T /\ V \in SUBSET V
    BY <1>3
  <2>2. Sums(H(U), U) /\ Sums(H(V), V) /\ IsFiniteSet(U)
    BY <1>2, <1>3, <2>1
  <2> HIDE DEF H
  <2> QED
    BY <2>1, <2>2, SumsAgree
<1> DEFINE g == [s \in SUBSET T |-> IF s = {} THEN 0 ELSE Ram[Picked(s)] + H(s \ {Picked(s)})[s \ {Picked(s)}]]
<1>4. ASSUME NEW U \in SUBSET T, U # T PROVE g[U] = H(U)[U]
  <2>1. H(U)[U] = IF U = {} THEN 0 ELSE Ram[Picked(U)] + H(U)[U \ {Picked(U)}]
    <3>1. Sums(H(U), U)
      BY <1>2, <1>4
    <3> HIDE DEF H
    <3> QED
      BY <3>1 DEF Sums
  <2>2. H(U)[U \ {Picked(U)}] = H(U \ {Picked(U)})[U \ {Picked(U)}]
    BY <1>3, <1>4
  <2> HIDE DEF H
  <2> QED
    BY <1>4, <2>1, <2>2
<1>5. \A s \in SUBSET T : s # {} => g[s \ {Picked(s)}] = H(s \ {Picked(s)})[s \ {Picked(s)}]
  <2> SUFFICES ASSUME NEW s \in SUBSET T, s # {} PROVE s \ {Picked(s)} \in SUBSET T /\ s \ {Picked(s)} # T
    BY <1>4
  <2> QED
    BY PickedIn
<1>6. Sums(g, T)
  <2> HIDE DEF H
  <2>1. \A s \in SUBSET T : (IF s = {} THEN 0 ELSE Ram[Picked(s)] + H(s \ {Picked(s)})[s \ {Picked(s)}])
                          = (IF s = {} THEN 0 ELSE Ram[Picked(s)] + g[s \ {Picked(s)}])
    BY <1>5
  <2> QED
    BY <2>1 DEF Sums
<1> QED
  BY <1>1, <1>6

\* The sum over a set is 0, or that of the element taken and the rest.
LEMMA SumStep ==
  ASSUME NEW S, IsFiniteSet(S)
  PROVE  /\ S = {} => Sum(S) = 0
         /\ S # {} => Sum(S) = Ram[Picked(S)] + Sum(S \ {Picked(S)})
<1> DEFINE H(U) == CHOOSE f : Sums(f, U)
           R    == S \ {Picked(S)}
<1>1. IsFiniteSet(R) /\ R \in SUBSET S
  BY FS_Subset
<1>2. Sums(H(S), S) /\ Sums(H(R), R)
  BY <1>1, SumsExist
<1>3. Sum(S) = H(S)[S] /\ Sum(R) = H(R)[R]
  BY Unfold
<1> HIDE DEF H
<1>4. H(S)[S] = IF S = {} THEN 0 ELSE Ram[Picked(S)] + H(S)[R]
  BY <1>2 DEF Sums
<1>5. H(S)[R] = H(R)[R]
  BY <1>1, <1>2, SumsAgree
<1> QED
  BY <1>3, <1>4, <1>5

LEMMA SumNat ==
  ASSUME NEW S, IsFiniteSet(S), S \subseteq VMs
  PROVE  Sum(S) \in Nat
<1> DEFINE F == {T \in SUBSET S : Sum(T) \notin Nat}
<1> SUFFICES ASSUME F # {} PROVE FALSE
  OBVIOUS
<1>1. PICK T \in F : \A U \in F : U \subseteq T => U = T
  <2>1. F \subseteq SUBSET S
    OBVIOUS
  <2> HIDE DEF F
  <2> QED
    BY <2>1, Smallest
<1>2. IsFiniteSet(T)
  BY FS_Subset
<1>3. T # {}
  <2>1. Sum(T) \notin Nat
    BY <1>1
  <2>2. T = {} => Sum(T) = 0
    BY <1>2, SumStep
  <2> QED
    BY <2>1, <2>2
<1>4. Picked(T) \in T /\ Picked(T) \in VMs
  BY <1>3, PickedIn
<1>5. Sum(T \ {Picked(T)}) \in Nat
  <2>1. T \ {Picked(T)} \in SUBSET S /\ T \ {Picked(T)} \subseteq T /\ T \ {Picked(T)} # T
    BY <1>4
  <2> QED
    BY <1>1, <2>1
<1>6. Sum(T) = Ram[Picked(T)] + Sum(T \ {Picked(T)}) /\ Ram[Picked(T)] \in Nat
  BY <1>2, <1>3, <1>4, SumStep, PlacementAssumption
<1> QED
  BY <1>5, <1>6

\* VMs that ask for no RAM add nothing.
LEMMA SumZero ==
  ASSUME NEW S, IsFiniteSet(S), \A v \in S : Ram[v] = 0
  PROVE  Sum(S) = 0
<1> DEFINE F == {T \in SUBSET S : Sum(T) # 0}
<1> SUFFICES ASSUME F # {} PROVE FALSE
  OBVIOUS
<1>1. PICK T \in F : \A U \in F : U \subseteq T => U = T
  <2>1. F \subseteq SUBSET S
    OBVIOUS
  <2> HIDE DEF F
  <2> QED
    BY <2>1, Smallest
<1>2. IsFiniteSet(T) /\ T # {}
  <2>1. IsFiniteSet(T)
    BY FS_Subset
  <2> QED
    BY <1>1, <2>1, SumStep
<1>3. Picked(T) \in T /\ T \ {Picked(T)} \in SUBSET S
  BY <1>2, PickedIn
<1>4. Sum(T \ {Picked(T)}) = 0
  BY <1>1, <1>3
<1>5. Sum(T) = Ram[Picked(T)] + Sum(T \ {Picked(T)}) /\ Ram[Picked(T)] = 0
  BY <1>2, <1>3, SumStep
<1> QED
  BY <1>1, <1>4, <1>5

\* Whatever element is taken first, the sum is the same.
LEMMA SumAny ==
  ASSUME NEW S, IsFiniteSet(S), S \subseteq VMs, NEW x \in S
  PROVE  Sum(S) = Ram[x] + Sum(S \ {x})
<1> DEFINE F == {T \in SUBSET S : \E y \in T : Sum(T) # Ram[y] + Sum(T \ {y})}
<1> SUFFICES ASSUME F # {} PROVE FALSE
  OBVIOUS
<1>1. PICK T \in F : \A U \in F : U \subseteq T => U = T
  <2>1. F \subseteq SUBSET S
    OBVIOUS
  <2> HIDE DEF F
  <2> QED
    BY <2>1, Smallest
<1>2. PICK y \in T : Sum(T) # Ram[y] + Sum(T \ {y})
  BY <1>1
<1>3. ASSUME NEW U \in SUBSET T, U # T, NEW z \in U PROVE Sum(U) = Ram[z] + Sum(U \ {z})
  BY <1>1, <1>3
<1> DEFINE t == Picked(T)
<1>4. t \in T /\ t # y /\ IsFiniteSet(T) /\ Sum(T) = Ram[t] + Sum(T \ {t})
  <2>1. IsFiniteSet(T) /\ T # {}
    BY FS_Subset
  <2>2. t \in T /\ Sum(T) = Ram[t] + Sum(T \ {t})
    BY <2>1, PickedIn, SumStep
  <2> QED
    BY <1>2, <2>1, <2>2
<1> HIDE DEF t
<1>5. Sum(T \ {t}) = Ram[y] + Sum((T \ {t}) \ {y})
  BY <1>2, <1>3, <1>4
<1>6. Sum(T \ {y}) = Ram[t] + Sum((T \ {y}) \ {t})
  BY <1>2, <1>3, <1>4
<1>7. (T \ {t}) \ {y} = (T \ {y}) \ {t}
  OBVIOUS
<1>8. Sum((T \ {y}) \ {t}) \in Nat /\ Ram[t] \in Nat /\ Ram[y] \in Nat
  <2>1. IsFiniteSet((T \ {y}) \ {t}) /\ (T \ {y}) \ {t} \subseteq VMs
    BY <1>4, FS_Subset
  <2> QED
    BY <1>2, <1>4, <2>1, SumNat, PlacementAssumption
<1>9. Sum(T \ {t}) = Ram[y] + Sum((T \ {y}) \ {t})
  BY <1>5, <1>7
<1> HIDE DEF F
<1>10. Sum(T) = Ram[t] + (Ram[y] + Sum((T \ {y}) \ {t}))
  BY <1>4, <1>9
<1>11. Ram[y] + Sum(T \ {y}) = Ram[y] + (Ram[t] + Sum((T \ {y}) \ {t}))
  BY <1>6
<1> QED
  BY <1>2, <1>8, <1>10, <1>11

\* The sum over two sets that do not meet.
LEMMA SumBoth ==
  ASSUME NEW A, NEW B, IsFiniteSet(A), IsFiniteSet(B), A \subseteq VMs, B \subseteq VMs, A \cap B = {}
  PROVE  Sum(A \cup B) = Sum(A) + Sum(B)
<1> DEFINE F == {T \in SUBSET B : Sum(A \cup T) # Sum(A) + Sum(T)}
<1> SUFFICES ASSUME F # {} PROVE FALSE
  OBVIOUS
<1>1. PICK T \in F : \A U \in F : U \subseteq T => U = T
  <2>1. F \subseteq SUBSET B
    OBVIOUS
  <2> HIDE DEF F
  <2> QED
    BY <2>1, Smallest
<1>2. IsFiniteSet(T) /\ IsFiniteSet(A \cup T) /\ A \cup T \subseteq VMs /\ Sum(A) \in Nat
  BY FS_Subset, FS_Union, SumNat
<1>3. T # {}
  <2> SUFFICES ASSUME T = {} PROVE FALSE
    OBVIOUS
  <2>1. A \cup T = A /\ Sum(T) = 0
    BY <1>2, SumStep
  <2> QED
    BY <1>1, <1>2, <2>1
<1>4. PICK x : x \in T
  BY <1>3
<1>5. x \in VMs /\ x \notin A /\ (A \cup T) \ {x} = A \cup (T \ {x})
  BY <1>4
<1>6. Sum(A \cup T) = Ram[x] + Sum(A \cup (T \ {x})) /\ Sum(T) = Ram[x] + Sum(T \ {x})
  BY <1>2, <1>4, <1>5, SumAny
<1>7. Sum(A \cup (T \ {x})) = Sum(A) + Sum(T \ {x})
  <2>1. T \ {x} \in SUBSET B /\ T \ {x} \subseteq T /\ T \ {x} # T
    BY <1>4
  <2> QED
    BY <1>1, <2>1
<1>8. Sum(T \ {x}) \in Nat /\ Ram[x] \in Nat
  <2>1. IsFiniteSet(T \ {x}) /\ T \ {x} \subseteq VMs
    BY <1>2, FS_Subset
  <2> QED
    BY <1>5, <2>1, SumNat, PlacementAssumption
<1> QED
  BY <1>1, <1>2, <1>6, <1>7, <1>8
-----------------------------------------------------------------------------
(***************************************************************************)
(* Reservations.                                                           *)
(***************************************************************************)
\* What a trigger has assigned to a worker, in its transaction.
Share(g, w) == {v \in VMs : plan[g][v] = w}

\* A VM that has a worker has a released task; of one that has none no session
\* knows any.
Released ==
  \A v \in VMs :
    /\ vmWorker[v] # NoWorker => tstatus[v] \in {"PLACEMENT_READY", "IN_PROGRESS"}
    /\ vmWorker[v] = NoWorker => \A g \in Triggers : held[g][v] = NoWorker

\* One trigger at a time: the RAM it sees is what is stored less what it has assigned,
\* and what is stored is the total less what has been placed.
Tally ==
  ~mixed =>
    /\ mon = <<>>
    /\ \A g \in Triggers : todo[g] \cap Assigned(g) = {} /\ (pc[g] = "workers" => Assigned(g) = {})
    /\ \A g \in Triggers : pc[g] \in Reading =>
         \A w \in Workers : seen[g][w].ram + Sum(Share(g, w)) = metrics[w].ram
    /\ \A w \in Workers : metrics[w].ram + Sum(PlacedOn(w)) = TotalRam[w]

LEMMA ReleasedStep ==
  ASSUME Typed, Released, [Next]_vars
  PROVE  Released'
<1> USE DEF Typed, RowsOK, TriggersOK
<1>1. ASSUME NEW v \in VMs, vmWorker'[v] # NoWorker PROVE tstatus'[v] \in {"PLACEMENT_READY", "IN_PROGRESS"}
  <2>1. ASSUME NEW g \in Triggers, Commit(g) PROVE tstatus'[v] \in {"PLACEMENT_READY", "IN_PROGRESS"}
    BY <1>1, <2>1 DEF Commit, CommitRows, Released
  <2>2. ASSUME NEW g \in Triggers, ReadTasks(g) \/ ReadWorkers(g) \/ ReadLast(g) \/ ReadVm(g) \/ Place(g)
        PROVE  UNCHANGED rows
    BY <2>2 DEF ReadTasks, ReadWorkers, ReadLast, ReadVm, Place
  <2>3. ASSUME NEW s \in Slices, Activate(s) PROVE tstatus'[v] = tstatus[v] /\ vmWorker' = vmWorker
    <3>1. vmWorker' = vmWorker /\ tstatus[v] \in {"PLACEMENT_READY", "IN_PROGRESS"}
      BY <1>1, <2>3 DEF Activate, Released
    <3> QED
      BY <2>3, <3>1 DEF Activate
  <2>4. ASSUME NEW s \in Slices, DeleteSlice(s) PROVE UNCHANGED <<tstatus, vmWorker>>
    BY <2>4 DEF DeleteSlice
  <2>5. ASSUME NEW u \in VMs, Dispatch(u) PROVE vmWorker' = vmWorker /\ tstatus'[v] \in {tstatus[v], "IN_PROGRESS"}
    BY <2>5 DEF Dispatch
  <2>6. CASE MonitorRead \/ MonitorCommit \/ UNCHANGED vars
    BY <1>1, <2>6 DEF MonitorRead, MonitorCommit, vars, rows, Released
  <2> QED
    BY <1>1, <2>1, <2>2, <2>3, <2>4, <2>5, <2>6 DEF Next, Trigger, rows, Released
<1>2. ASSUME NEW v \in VMs, vmWorker'[v] = NoWorker PROVE \A g \in Triggers : held'[g][v] = NoWorker
  <2>1. ASSUME NEW h \in Triggers, Commit(h)
        PROVE  vmWorker[v] = NoWorker /\ held' = [held EXCEPT ![h] = NoPlan]
    BY <1>2, <2>1 DEF Commit, CommitRows, Assigned, EndTrigger
  <2>2. vmWorker[v] = NoWorker
    BY <1>2, <2>1, PlacingSteps
  <2>3. ASSUME NEW g \in Triggers PROVE held'[g][v] = NoWorker
    <3>1. held[g][v] = NoWorker /\ NoPlan[v] = NoWorker
      BY <2>2 DEF Released, NoPlan
    <3>2. ASSUME NEW h \in Triggers, held' = [held EXCEPT ![h] = NoPlan] PROVE held'[g][v] = NoWorker
      BY <3>1, <3>2
    <3>3. ASSUME NEW h \in Triggers, NEW u \in VMs, held' = [held EXCEPT ![h][u] = vmWorker[u]]
          PROVE  held'[g][v] = NoWorker
      BY <2>2, <3>1, <3>3
    <3> QED
      BY <2>1, <3>1, <3>2, <3>3, PlacingSteps
  <2> QED
    BY <2>3
<1> QED
  BY <1>1, <1>2 DEF Released

\* Sets of VMs are finite, and their RAM adds up to a number.
LEMMA Shares ==
  ASSUME NEW g \in Triggers, NEW w \in Workers
  PROVE  /\ IsFiniteSet(Share(g, w)) /\ Share(g, w) \subseteq VMs /\ Sum(Share(g, w)) \in Nat
         /\ IsFiniteSet(PlacedOn(w)) /\ PlacedOn(w) \subseteq VMs /\ Sum(PlacedOn(w)) \in Nat
<1>1. Share(g, w) \subseteq VMs /\ PlacedOn(w) \subseteq VMs
  BY DEF Share, PlacedOn
<1>2. IsFiniteSet(Share(g, w)) /\ IsFiniteSet(PlacedOn(w))
  BY <1>1, FS_Subset, PlacementAssumption
<1> QED
  BY <1>1, <1>2, SumNat

\* An assignment moves RAM from what the trigger sees to its share.
LEMMA AssignTallies ==
  ASSUME Typed, Tally, ~mixed, NEW g \in Triggers, pc[g] = "place", NEW v \in todo[g],
         NEW w \in Chosen(seen[g], seenLast[g], v),
         seen' = [seen EXCEPT ![g] = Reserve(@, w, v)], plan' = [plan EXCEPT ![g][v] = w], metrics' = metrics,
         NEW u \in Workers
  PROVE  seen'[g][u].ram + Sum(Share(g, u)') = metrics'[u].ram
<1> USE DEF Typed, TriggersOK
<1>1. v \in VMs /\ plan[g][v] = NoWorker
  BY DEF Tally, Assigned
<1>2. seen[g] \in [Workers -> Row] /\ seen[g][u].ram \in Nat /\ Ram[v] \in Nat
  <2>1. seen[g] \in [Workers -> Row]
    BY DEF MetricsOK, Reading
  <2>2. seen[g][u] \in Row
    BY <2>1
  <2> QED
    BY <1>1, <2>1, <2>2, PlacementAssumption DEF Row
<1>3. w \in Workers
  BY <1>1, <1>2, ChosenFits
<1>4. seen[g][u].ram + Sum(Share(g, u)) = metrics[u].ram
  BY DEF Tally, Reading
<1>5. CASE u = w
  <2>1. Share(g, u)' = Share(g, u) \cup {v} /\ v \notin Share(g, u)
    BY <1>1, <1>3, <1>5, PlacementAssumption DEF Share
  <2>2. Sum(Share(g, u)') = Ram[v] + Sum(Share(g, u))
    <3>1. IsFiniteSet(Share(g, u) \cup {v}) /\ Share(g, u) \cup {v} \subseteq VMs
      BY <1>1, Shares, FS_AddElement
    <3>2. (Share(g, u) \cup {v}) \ {v} = Share(g, u)
      BY <2>1
    <3> QED
      BY <2>1, <3>1, <3>2, SumAny
  <2>3. seen'[g][u].ram = seen[g][u].ram - Ram[v]
    <3>1. seen'[g] = Reserve(seen[g], w, v)
      OBVIOUS
    <3> QED
      BY <1>2, <1>3, <1>5, <3>1 DEF Reserve, Row
  <2>4. Sum(Share(g, u)) \in Nat
    BY Shares
  <2> QED
    BY <1>2, <1>4, <2>2, <2>3, <2>4
<1>6. CASE u # w
  <2>1. Share(g, u)' = Share(g, u)
    BY <1>1, <1>6, PlacementAssumption DEF Share
  <2>2. seen'[g][u] = seen[g][u]
    BY <1>2, <1>6 DEF Reserve
  <2> QED
    BY <1>4, <2>1, <2>2
<1> QED
  BY <1>5, <1>6

LEMMA CommitTallies ==
  ASSUME Typed, Alone, Released, Tally, ~mixed, NEW g \in Triggers, Commit(g), NEW w \in Workers
  PROVE  metrics'[w].ram + Sum(PlacedOn(w)') = TotalRam[w]
<1> USE DEF Typed, RowsOK, TriggersOK
<1>1. \A v \in Assigned(g) : vmWorker[v] = NoWorker /\ held[g][v] = NoWorker
  BY DEF Alone, Claims, Assigned, Released
<1>2. /\ vmWorker' = [v \in VMs |-> IF v \in {u \in Assigned(g) : plan[g][u] # held[g][u]}
                                   THEN plan[g][v] ELSE vmWorker[v]]
      /\ metrics' = [u \in Workers |-> IF u \in Charged(g)
                                       THEN [metrics[u] EXCEPT !.ram = seen[g][u].ram] ELSE metrics[u]]
      /\ pc[g] = "last"
  BY DEF Commit, CommitRows
<1>3. PlacedOn(w)' = PlacedOn(w) \cup Share(g, w) /\ PlacedOn(w) \cap Share(g, w) = {}
  <2>1. \A v \in VMs : vmWorker'[v] = IF plan[g][v] # NoWorker THEN plan[g][v] ELSE vmWorker[v]
    BY <1>1, <1>2 DEF Assigned
  <2>2. \A v \in VMs : plan[g][v] # NoWorker => vmWorker[v] = NoWorker
    BY <1>1 DEF Assigned
  <2>3. w # NoWorker
    BY PlacementAssumption
  <2> QED
    BY ONLY <2>1, <2>2, <2>3 DEF PlacedOn, Share
<1>4. Sum(PlacedOn(w)') = Sum(PlacedOn(w)) + Sum(Share(g, w))
  BY <1>3, Shares, SumBoth
<1>5. /\ seen[g][w].ram + Sum(Share(g, w)) = metrics[w].ram
      /\ metrics[w].ram + Sum(PlacedOn(w)) = TotalRam[w]
  BY <1>2 DEF Tally, Reading
<1>6. seen[g][w].ram \in Nat /\ metrics[w].ram \in Nat /\ metrics[w] \in Row
  <2>1. seen[g][w] \in Row /\ metrics[w] \in Row
    BY <1>2 DEF MetricsOK, Reading
  <2> QED
    BY <2>1 DEF Row
<1>7. metrics'[w].ram = seen[g][w].ram
  <2>1. CASE w \in Charged(g)
    BY <1>2, <1>6, <2>1 DEF Row
  <2>2. CASE w \notin Charged(g)
    <3>1. \A v \in Share(g, w) : Ram[v] = 0
      BY <2>2 DEF Share, Charged
    <3>2. Sum(Share(g, w)) = 0
      BY <3>1, Shares, SumZero
    <3> QED
      BY <1>2, <1>5, <1>6, <2>2, <3>2
  <2> QED
    BY <2>1, <2>2
<1>8. Sum(PlacedOn(w)) \in Nat /\ Sum(Share(g, w)) \in Nat
  BY Shares
<1> QED
  BY <1>4, <1>5, <1>6, <1>7, <1>8

\* What the tally counts is left as it is by what leaves plans and VMs.
LEMMA SameShares ==
  ASSUME plan' = plan, vmWorker' = vmWorker
  PROVE  /\ \A g, w : Share(g, w)' = Share(g, w) /\ Assigned(g)' = Assigned(g)
         /\ \A w : PlacedOn(w)' = PlacedOn(w)
BY DEF Share, Assigned, PlacedOn

\* Nothing but these is tallied.
LEMMA TallySame ==
  ASSUME Tally, UNCHANGED <<plan, vmWorker, pc, todo, seen, metrics, mon, mixed>>
  PROVE  Tally'
<1>1. /\ \A g, w : Share(g, w)' = Share(g, w) /\ Assigned(g)' = Assigned(g)
      /\ \A w : PlacedOn(w)' = PlacedOn(w)
  BY SameShares
<1>2. /\ \A g, w : Sum(Share(g, w)') = Sum(Share(g, w))
      /\ \A w : Sum(PlacedOn(w)') = Sum(PlacedOn(w))
  BY ONLY <1>1
<1>3. pc' = pc /\ todo' = todo /\ seen' = seen /\ metrics' = metrics /\ mon' = mon /\ mixed' = mixed
  OBVIOUS
<1> HIDE DEF Sum
<1> QED
  BY ONLY Tally, <1>1, <1>2, <1>3 DEF Tally

LEMMA TallyStep ==
  ASSUME Typed, Alone, Released, Tally, [Next]_vars
  PROVE  Tally'
<1> USE DEF Typed, TriggersOK
<1>0. mixed \in BOOLEAN
  BY DEF RestOK
<1>1. ASSUME NEW g \in Triggers, ReadTasks(g), ~mixed' PROVE Tally'
  <2>1. ~mixed /\ \A h \in Triggers : pc[h] = "idle"
    BY <1>1 DEF ReadTasks
  <2>2. \A h \in Triggers : Assigned(h) = {}
    BY <2>1 DEF Alone, Claims
  <2>3. UNCHANGED <<plan, seen, metrics, mon, vmWorker>> /\ pc' = [pc EXCEPT ![g] = "workers"]
    BY <1>1 DEF ReadTasks, rows, shared
  <2>4. \A h \in Triggers : Assigned(h)' = {} /\ pc'[h] \notin Reading
    BY <2>1, <2>2, <2>3 DEF Assigned, Reading
  <2> QED
    BY <2>1, <2>3, <2>4 DEF Tally, PlacedOn
<1>2. ASSUME NEW g \in Triggers, ReadWorkers(g), ~mixed' PROVE Tally'
  <2>1. /\ UNCHANGED <<plan, todo, metrics, mon, vmWorker, mixed>> /\ pc' = [pc EXCEPT ![g] = "last"]
        /\ seen' = [seen EXCEPT ![g] = metrics] /\ pc[g] = "workers"
    BY <1>2 DEF ReadWorkers, rows, shared
  <2>2. ASSUME NEW w \in Workers PROVE Sum(Share(g, w)) = 0
    <3>1. Share(g, w) = {}
      BY <1>2, <2>1, PlacementAssumption DEF Share, Tally, Assigned
    <3> QED
      BY <3>1, Shares, SumStep
  <2>3. ASSUME NEW w \in Workers PROVE metrics[w].ram + Sum(Share(g, w)) = metrics[w].ram
    <3>1. metrics[w] \in Row
      BY DEF MetricsOK
    <3>2. metrics[w].ram \in Nat
      BY <3>1 DEF Row
    <3> QED
      BY <2>2, <3>2
  <2>4. ASSUME NEW h \in Triggers, pc'[h] \in Reading, NEW w \in Workers
        PROVE  seen'[h][w].ram + Sum(Share(h, w)) = metrics[w].ram
    <3>1. CASE h = g
      BY <2>1, <2>3, <3>1
    <3>2. CASE h # g
      <4>1. pc[h] \in Reading /\ seen'[h] = seen[h]
        BY <2>1, <2>4, <3>2
      <4> QED
        BY <1>2, <2>1, <4>1 DEF Tally
    <3> QED
      BY <3>1, <3>2
  <2>5. \A h \in Triggers : pc'[h] = "workers" => pc[h] = "workers"
    BY <2>1
  <2> QED
    <3>1. /\ \A h \in Triggers : Assigned(h)' = Assigned(h) /\ \A w \in Workers : Share(h, w)' = Share(h, w)
          /\ \A w \in Workers : PlacedOn(w)' = PlacedOn(w)
      BY <2>1, SameShares
    <3>2. \A h \in Triggers : todo'[h] \cap Assigned(h)' = {} /\ (pc'[h] = "workers" => Assigned(h)' = {})
      BY <1>2, <2>1, <2>5, <3>1 DEF Tally
    <3>3. \A h \in Triggers : pc'[h] \in Reading =>
            \A w \in Workers : seen'[h][w].ram + Sum(Share(h, w)') = metrics'[w].ram
      BY <2>1, <2>4, <3>1
    <3> QED
      BY <1>2, <2>1, <3>1, <3>2, <3>3 DEF Tally
<1>3. ASSUME NEW g \in Triggers, ReadLast(g), ~mixed' PROVE Tally'
  <2>1. /\ UNCHANGED <<plan, todo, seen, metrics, mon, vmWorker, mixed>> /\ pc' = [pc EXCEPT ![g] = "vm"]
        /\ pc[g] = "last"
    BY <1>3 DEF ReadLast, rows, shared
  <2>2. \A h \in Triggers : /\ pc'[h] = "workers" => pc[h] = "workers"
                            /\ pc'[h] \in Reading => pc[h] \in Reading
    BY <2>1 DEF Reading
  <2> QED
    <3>1. /\ \A h \in Triggers : Assigned(h)' = Assigned(h) /\ \A w \in Workers : Share(h, w)' = Share(h, w)
          /\ \A w \in Workers : PlacedOn(w)' = PlacedOn(w)
      BY <2>1, SameShares
    <3>2. \A h \in Triggers : todo'[h] \cap Assigned(h)' = {} /\ (pc'[h] = "workers" => Assigned(h)' = {})
      BY <1>3, <2>1, <2>2, <3>1 DEF Tally
    <3>3. \A h \in Triggers : pc'[h] \in Reading =>
            \A w \in Workers : seen'[h][w].ram + Sum(Share(h, w)') = metrics'[w].ram
      BY <1>3, <2>1, <2>2, <3>1 DEF Tally
    <3> QED
      BY <1>3, <2>1, <3>1, <3>2, <3>3 DEF Tally
<1>4. ASSUME NEW g \in Triggers, ReadVm(g) \/ Place(g), ~mixed' PROVE Tally'
  <2>1. UNCHANGED <<metrics, mon, vmWorker, mixed>> /\ pc[g] \in {"vm", "place"}
    BY <1>4 DEF ReadVm, Place, rows, shared
  <2>2. Tally => /\ \A h \in Triggers : todo[h] \cap Assigned(h) = {} /\ (pc[h] = "workers" => Assigned(h) = {})
                 /\ \A h \in Triggers : pc[h] \in Reading =>
                      \A w \in Workers : seen[h][w].ram + Sum(Share(h, w)) = metrics[w].ram
    BY <1>4, <2>1 DEF Tally
  <2> SUFFICES ASSUME NEW h \in Triggers
               PROVE  /\ todo'[h] \cap Assigned(h)' = {} /\ (pc'[h] = "workers" => Assigned(h)' = {})
                      /\ pc'[h] \in Reading =>
                           \A w \in Workers : seen'[h][w].ram + Sum(Share(h, w)') = metrics'[w].ram
    BY <1>4, <2>1 DEF Tally, PlacedOn
  <2>3. \/ EndTrigger(g)
        \/ pc' = [pc EXCEPT ![g] = "place"] /\ UNCHANGED <<todo, seen, plan>>
        \/ \E v \in VMs : v \in todo[g] /\ Places(g, v)
    BY <1>4, ReadVmCases, PlaceCases
  <2>4. CASE h # g
    <3>1. todo'[h] = todo[h] /\ pc'[h] = pc[h] /\ seen'[h] = seen[h] /\ plan'[h] = plan[h]
      BY <2>3, <2>4 DEF EndTrigger, Places
    <3>2. Assigned(h)' = Assigned(h) /\ \A w : Share(h, w)' = Share(h, w)
      BY <3>1 DEF Assigned, Share
    <3> QED
      BY <2>1, <2>2, <3>1, <3>2
  <2>5. CASE h = g /\ EndTrigger(g)
    BY <2>5 DEF EndTrigger, Assigned, NoPlan, Reading
  <2>6. ASSUME h = g, pc' = [pc EXCEPT ![g] = "last"] \/ pc' = [pc EXCEPT ![g] = "place"],
               todo'[g] \subseteq todo[g], UNCHANGED <<seen, plan>>
        PROVE  /\ todo'[h] \cap Assigned(h)' = {} /\ (pc'[h] = "workers" => Assigned(h)' = {})
               /\ pc'[h] \in Reading =>
                    \A u \in Workers : seen'[h][u].ram + Sum(Share(h, u)') = metrics'[u].ram
    <3>1. Assigned(g)' = Assigned(g) /\ \A u \in Workers : Share(g, u)' = Share(g, u)
      BY <2>1, <2>6, SameShares
    <3>2. pc[g] \in Reading /\ pc'[g] # "workers"
      BY <2>1, <2>6 DEF Reading
    <3> QED
      BY <2>1, <2>2, <2>6, <3>1, <3>2
  <2>7. ASSUME h = g, pc[g] = "place", NEW v \in VMs, v \in todo[g],
               todo' = [todo EXCEPT ![g] = @ \ {v}], pc' = [pc EXCEPT ![g] = "last"],
               NEW w \in Chosen(seen[g], seenLast[g], v),
               seen' = [seen EXCEPT ![g] = Reserve(@, w, v)],
               plan' = [plan EXCEPT ![g][v] = w]
        PROVE  /\ todo'[h] \cap Assigned(h)' = {} /\ (pc'[h] = "workers" => Assigned(h)' = {})
               /\ pc'[h] \in Reading =>
                    \A u \in Workers : seen'[h][u].ram + Sum(Share(h, u)') = metrics'[u].ram
    <3>1. \A u \in Workers : seen'[g][u].ram + Sum(Share(g, u)') = metrics'[u].ram
      BY <1>4, <2>1, <2>7, AssignTallies
    <3>2. todo'[g] \cap Assigned(g)' = {}
      BY <2>2, <2>7 DEF Assigned
    <3> QED
      BY <2>7, <3>1, <3>2
  <2> QED
    <3>1. CASE pc' = [pc EXCEPT ![g] = "place"] /\ UNCHANGED <<todo, seen, plan>>
      BY <2>4, <2>6, <3>1
    <3>2. ASSUME NEW v \in VMs, v \in todo[g], Places(g, v)
          PROVE  /\ todo'[h] \cap Assigned(h)' = {} /\ (pc'[h] = "workers" => Assigned(h)' = {})
                 /\ pc'[h] \in Reading =>
                      \A u \in Workers : seen'[h][u].ram + Sum(Share(h, u)') = metrics'[u].ram
      <4>1. CASE /\ todo' = [todo EXCEPT ![g] = @ \ {v}] /\ pc' = [pc EXCEPT ![g] = "last"]
                 /\ UNCHANGED <<seen, seenLast, plan>>
        BY <2>4, <2>6, <4>1
      <4> QED
        BY <2>4, <2>5, <2>7, <3>2, <4>1 DEF Places
    <3> QED
      BY <2>3, <2>4, <2>5, <3>1, <3>2
<1>5. ASSUME NEW g \in Triggers, Commit(g), ~mixed' PROVE Tally'
  <2>1. UNCHANGED <<mon, mixed>> /\ EndTrigger(g) /\ pc[g] = "last"
    BY <1>5 DEF Commit, CommitRows
  <2>2. \A h \in Triggers : pc'[h] = "idle" /\ Assigned(h)' = {}
    <3>1. \A h \in Triggers \ {g} : pc[h] = "idle" /\ Assigned(h) = {}
      BY <1>5, <2>1 DEF Alone, Claims
    <3> QED
      BY <2>1, <3>1 DEF EndTrigger, Assigned, NoPlan
  <2>3. \A w \in Workers : metrics'[w].ram + Sum(PlacedOn(w)') = TotalRam[w]
    BY <1>5, <2>1, CommitTallies
  <2>4. \A h \in Triggers : pc'[h] \notin Reading
    BY <2>2 DEF Reading
  <2> QED
    BY <1>5, <2>1, <2>2, <2>3, <2>4 DEF Tally
<1>6. ASSUME NEW s \in Slices, Activate(s) \/ DeleteSlice(s) PROVE Tally'
  <2>1. UNCHANGED <<plan, vmWorker, pc, todo, seen, metrics, mon, mixed>>
    BY <1>6 DEF Activate, DeleteSlice, shared, control
  <2> QED
    BY <2>1, TallySame
<1>7. ASSUME NEW v \in VMs, Dispatch(v) PROVE Tally'
  <2>1. UNCHANGED <<plan, vmWorker, pc, todo, seen, metrics, mon, mixed>>
    BY <1>7 DEF Dispatch, shared, control
  <2> QED
    BY <2>1, TallySame
<1>8. CASE MonitorRead
  BY <1>8 DEF MonitorRead, Tally
<1>9. CASE MonitorCommit
  <2>1. mixed' = mixed /\ mon # <<>>
    BY <1>9 DEF MonitorCommit
  <2> QED
    BY <2>1 DEF Tally
<1>10. CASE UNCHANGED vars
  BY <1>10, TallySame DEF vars, rows, shared, control
<1>11. CASE mixed'
  BY <1>11 DEF Tally
<1> QED
  BY <1>1, <1>2, <1>3, <1>4, <1>5, <1>6, <1>7, <1>8, <1>9, <1>10, <1>11 DEF Next, Trigger

LInv == Typed /\ Alone /\ Released /\ Tally

LEMMA LInvInit == Init => LInv
<1> SUFFICES ASSUME Init PROVE LInv
  OBVIOUS
<1>1. Typed /\ Alone /\ Released
  BY TypedInit DEF Init, Alone, Claims, Assigned, NoPlan, Released
<1>2. \A g \in Triggers : Assigned(g) = {} /\ pc[g] = "idle"
  BY DEF Init, Assigned, NoPlan
<1>3. ASSUME NEW w \in Workers PROVE metrics[w].ram + Sum(PlacedOn(w)) = TotalRam[w]
  <2>1. PlacedOn(w) = {}
    BY PlacementAssumption DEF Init, PlacedOn, NoPlan
  <2>2. Sum(PlacedOn(w)) = 0
    BY <2>1, FS_EmptySet, SumStep
  <2>3. metrics[w].ram = TotalRam[w] /\ TotalRam[w] \in Nat
    BY PlacementAssumption DEF Init
  <2> QED
    BY <2>2, <2>3
<1> QED
  BY <1>1, <1>2, <1>3 DEF LInv, Tally, Init, Reading

\* The free RAM of a worker is its total less that of the VMs ever placed on it, for
\* any number of VMs of any size: no reservation is lost or taken twice, until
\* triggers overlap or monitoring measures.
THEOREM ReservationsTally == Spec => []ReservationsAdd
<1>1. LInv => ReservationsAdd
  BY DEF LInv, Tally, ReservationsAdd, Sum
<1>2. LInv /\ [Next]_vars => LInv'
  BY TypedStep, AloneStep, ReleasedStep, TallyStep DEF LInv
<1> QED
  BY <1>1, <1>2, LInvInit, PTL DEF Spec
=============================================================================
