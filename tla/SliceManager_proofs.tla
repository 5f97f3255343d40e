------------------------ MODULE SliceManager_proofs ------------------------
(***************************************************************************)
(* The rows stay as the schema keeps them, whatever overlaps and restarts; *)
(* unless an edit ran beside another request, an ACTIVE slice has tasks    *)
(* for all of its VMs; no decision is taken back; and until requests       *)
(* overlap or slice-manager restarts the handlers implement SliceContract. *)
(***************************************************************************)
EXTENDS SliceManager, TLAPS

RowType == [status : Statuses, target : Targets, vms : SUBSET Builds]

\* A handler under way holds a row of the slice.
Held ==
  /\ basis = [r \in Requests |-> basis[r]]
  /\ \A r \in Requests : pc[r] # "idle" => basis[r] \in RowType

TypeInv == TypeOK /\ Held

LEMMA TypeInit == Init => TypeInv
BY SliceAssumption DEF Init, TypeInv, TypeOK, Held, Statuses, Targets, Points, Builds

\* Counting up the tasks of VMs that exist keeps tasks and VMs together.
LEMMA AddType ==
  ASSUME TypeInv, NEW r \in Requests, pc[r] # "idle", CanAdd(r), AddTasks(r)
  PROVE  /\ tasks' \in [Builds -> Nat]
         /\ \A b \in Builds : (\A s \in Slices : b \notin vms[s]) => tasks'[b] = 0
<1>1. on[r] \in Slices
  BY DEF TypeInv, TypeOK
<1> QED
  BY <1>1 DEF TypeInv, TypeOK, AddTasks, CanAdd

LEMMA TypeNext == TypeInv /\ [Next]_vars => TypeInv'
<1> SUFFICES ASSUME TypeInv, [Next]_vars PROVE TypeInv'
  OBVIOUS
<1> USE SliceAssumption
<1> USE DEF TypeInv, TypeOK, Held, Statuses, Targets, Points
<1>1. ASSUME NEW s \in Slices, Create(s) PROVE TypeInv'
  <2>1. builds + 1 \in Builds /\ builds + 1 \in 0..MaxBuilds
    BY <1>1 DEF Create, Builds
  <2>2. vms' \in [Slices -> SUBSET Builds] /\ phase' \in [Slices -> {"none", "live", "deleted"}]
    BY <1>1, <2>1 DEF Create
  <2>3. \A t \in Slices : vms'[t] # {} => phase'[t] = "live"
    BY <1>1 DEF Create
  <2>4. ASSUME NEW b \in Builds, \A t \in Slices : b \notin vms'[t] PROVE tasks'[b] = 0
    <3>1. vms[s] = {}
      BY <1>1 DEF Create
    <3>2. \A t \in Slices : b \notin vms[t]
      BY <1>1, <2>4, <3>1 DEF Create
    <3> QED
      BY <1>1, <3>2 DEF Create
  <2>5. status' \in [Slices -> Statuses] /\ target' \in [Slices -> Targets]
    BY <1>1 DEF Create
  <2> QED
    BY <1>1, <2>1, <2>2, <2>3, <2>4, <2>5 DEF Create, control
<1>2. ASSUME NEW r \in Requests, NEW op \in Ops, NEW s \in Slices, Load(r, op, s) PROVE TypeInv'
  <2>1. Row(s) \in RowType
    BY DEF Row, RowType
  <2>2. pc' \in [Requests -> Points] /\ on' \in [Requests -> Slices]
    BY <1>2 DEF Load
  <2>3. Held'
    BY <1>2, <2>1 DEF Load
  <2> QED
    BY <1>2, <2>2, <2>3 DEF Load, rows
<1>3. ASSUME NEW r \in Requests, ActivateOpenStack(r) PROVE TypeInv'
  <2>1. Held' /\ pc' \in [Requests -> Points]
    BY <1>3 DEF ActivateOpenStack, Return
  <2>2. tasks' \in [Builds -> Nat] /\ (\A b \in Builds : (\A s \in Slices : b \notin vms[s]) => tasks'[b] = 0)
    BY <1>3, AddType DEF ActivateOpenStack
  <2>3. status' \in [Slices -> Statuses]
    BY <1>3 DEF ActivateOpenStack
  <2> QED
    BY <1>3, <2>1, <2>2, <2>3 DEF ActivateOpenStack, Return
<1>4. ASSUME NEW r \in Requests, CreateTasks(r) PROVE TypeInv'
  <2>1. Held' /\ pc' \in [Requests -> Points]
    BY <1>4 DEF CreateTasks, Return, Goto
  <2>2. tasks' \in [Builds -> Nat] /\ (\A b \in Builds : (\A s \in Slices : b \notin vms[s]) => tasks'[b] = 0)
    BY <1>4, AddType DEF CreateTasks
  <2> QED
    BY <1>4, <2>1, <2>2 DEF CreateTasks, Return, Goto
<1>5. ASSUME NEW r \in Requests, Refresh(r) PROVE TypeInv'
  <2>1. Row(on[r]) \in RowType
    BY DEF Row, RowType
  <2>2. Held' /\ pc' \in [Requests -> Points]
    BY <1>5, <2>1 DEF Refresh, Return
  <2> QED
    BY <1>5, <2>2 DEF Refresh, Return, rows
<1>6. ASSUME NEW r \in Requests, Finalize(r) PROVE TypeInv'
  BY <1>6, ZenonT(60) DEF Finalize, Return
<1>7. ASSUME NEW r \in Requests, Reject(r) PROVE TypeInv'
  BY <1>7 DEF Reject, Return
<1>8. ASSUME NEW r \in Requests, Update(r) PROVE TypeInv'
  <2>1. Held' /\ pc' \in [Requests -> Points]
    BY <1>8 DEF Update, Return
  <2>2. CASE UNCHANGED <<vms, builds, target, tasks, overlap>>
    BY <1>8, <2>1, <2>2 DEF Update, Return
  <2>3. CASE Live(r) /\ Rebuild(r, basis[r].vms)
    <3> DEFINE dropped == basis[r].vms
    <3>1. on[r] \in Slices /\ phase[on[r]] = "live"
      BY <2>3 DEF Live
    <3>2. builds + 1 \in Builds /\ builds' \in 0..MaxBuilds
      BY <2>3 DEF Rebuild, Builds
    <3>3. vms' \in [Slices -> SUBSET Builds]
      BY <2>3, <3>2 DEF Rebuild
    <3>4. target' \in [Slices -> Targets] /\ tasks' \in [Builds -> Nat]
      BY <2>3 DEF Rebuild
    <3>5. \A s \in Slices : vms'[s] # {} => phase[s] = "live"
      BY <2>3, <3>1 DEF Rebuild
    <3>6. ASSUME NEW b \in Builds, \A s \in Slices : b \notin vms'[s] PROVE tasks'[b] = 0
      <4>1. CASE b \in dropped
        BY <2>3, <4>1 DEF Rebuild
      <4>2. CASE b \notin dropped
        <5>1. \A s \in Slices : b \notin vms[s]
          BY <2>3, <3>1, <3>6, <4>2 DEF Rebuild
        <5> QED
          BY <2>3, <4>2, <5>1 DEF Rebuild
      <4> QED
        BY <4>1, <4>2
    <3>7. overlap' \in [Slices -> {"alone", "beside", "edited"}]
      BY <2>3 DEF Rebuild
    <3> QED
      BY <1>8, <2>1, <3>2, <3>3, <3>4, <3>5, <3>6, <3>7 DEF Update, Return
  <2> QED
    BY <1>8, <2>2, <2>3 DEF Update
<1>9. ASSUME NEW r \in Requests, Erase(r) PROVE TypeInv'
  <2>1. on[r] \in Slices
    OBVIOUS
  <2>2. ASSUME NEW b \in Builds, \A s \in Slices : b \notin vms'[s] PROVE tasks'[b] = 0
    <3>1. CASE b \in vms[on[r]]
      BY <1>9, <3>1 DEF Erase
    <3>2. CASE b \notin vms[on[r]]
      <4>1. \A s \in Slices : b \notin vms[s]
        BY <1>9, <2>2, <3>2 DEF Erase
      <4> QED
        BY <1>9, <3>2, <4>1 DEF Erase
    <3> QED
      BY <3>1, <3>2
  <2>3. \A s \in Slices : vms'[s] # {} => phase'[s] = "live"
    BY <1>9, <2>1 DEF Erase
  <2>4. Held' /\ pc' \in [Requests -> Points]
    BY <1>9 DEF Erase, Return
  <2>5. /\ phase' \in [Slices -> {"none", "live", "deleted"}]
        /\ vms' \in [Slices -> SUBSET Builds] /\ tasks' \in [Builds -> Nat]
    BY <1>9, <2>1 DEF Erase
  <2> QED
    BY <1>9, <2>2, <2>3, <2>4, <2>5 DEF Erase, Return
<1>10. CASE Crash
  BY <1>10 DEF Crash, rows
<1>11. CASE UNCHANGED vars
  BY <1>11 DEF vars, rows, control
<1> QED
  BY <1>1, <1>2, <1>3, <1>4, <1>5, <1>6, <1>7, <1>8, <1>9, <1>10, <1>11 DEF Next, Handler

\* The rows keep their types and foreign keys under any overlap of handlers
\* and any restart of slice-manager.
THEOREM TypeCorrect == Spec => []TypeOK
<1>1. TypeInv => TypeOK
  BY DEF TypeInv
<1> QED
  BY <1>1, TypeInit, TypeNext, PTL DEF Spec
-----------------------------------------------------------------------------
(***************************************************************************)
(* Two handlers on one slice are noticed (Alone), so as long as the slice  *)
(* is not "edited" its VMs are those each session has loaded (Steady); an  *)
(* edit that runs alone finds no ACTIVE slice (EditsDraft), and one beside *)
(* another request gives the slice up.  Own keeps an edit of any slice     *)
(* from taking the tasks of another.                                       *)
(***************************************************************************)
Whole(s)   == overlap[s] # "edited"
Alone      == \A q, r \in Requests :
                pc[q] # "idle" /\ pc[r] # "idle" /\ on[q] = on[r] /\ q # r => overlap[on[r]] # "alone"
EditsDraft == \A r \in Requests :
                pc[r] = "update" /\ overlap[on[r]] = "alone" => status[on[r]] # "ACTIVE"
Apart      == /\ \A s \in Slices : \A b \in vms[s] : b <= builds
              /\ \A s, t \in Slices : s # t => vms[s] \cap vms[t] = {}
Own        == \A r \in Requests : pc[r] # "idle" =>
                /\ \A b \in basis[r].vms : b <= builds
                /\ \A s \in Slices : s # on[r] => basis[r].vms \cap vms[s] = {}
Created    == \A r \in Requests : pc[r] # "idle" => phase[on[r]] # "none"
Steady     == \A r \in Requests :
                pc[r] # "idle" /\ Live(r) /\ Whole(on[r]) => basis[r].vms = vms[on[r]]
Tasked(s)  == \A b \in vms[s] : tasks[b] > 0
Promised   == \A r \in Requests :
                pc[r] \in {"placement", "final"} /\ Live(r) /\ Whole(on[r]) => Tasked(on[r])

TaskInv ==
  /\ TypeInv /\ Alone /\ EditsDraft /\ Apart /\ Own /\ Created /\ Steady /\ Promised
  /\ ActiveIsTasked

LEMMA TaskInit == Init => TaskInv
<1> SUFFICES ASSUME Init PROVE TaskInv
  OBVIOUS
<1> QED
  BY TypeInit DEF Init, TaskInv, Alone, EditsDraft, Apart, Own, Created, Steady, Promised,
                  ActiveIsTasked, LiveSlices

\* Tasks added by a handler take none away, and reach every VM of its slice
\* unless the slice was edited beside it.
LEMMA AddTasked ==
  ASSUME TaskInv, NEW r \in Requests, pc[r] # "idle", CanAdd(r), AddTasks(r)
  PROVE  /\ \A b \in Builds : tasks'[b] >= tasks[b]
         /\ Whole(on[r]) => \A b \in vms[on[r]] : tasks'[b] > 0
<1>1. on[r] \in Slices /\ (Whole(on[r]) => basis[r].vms = vms[on[r]])
  BY DEF TaskInv, Steady, CanAdd, TypeInv, TypeOK
<1>2. vms[on[r]] \subseteq Builds /\ tasks \in [Builds -> Nat]
  BY <1>1 DEF TaskInv, TypeInv, TypeOK
<1> QED
  BY <1>1, <1>2 DEF AddTasks

LEMMA TaskNext == TaskInv /\ [Next]_vars => TaskInv'
<1> SUFFICES ASSUME TaskInv, [Next]_vars PROVE TaskInv'
  OBVIOUS
<1>0. TypeInv'
  BY TypeNext DEF TaskInv
<1>T. /\ on \in [Requests -> Slices] /\ phase \in [Slices -> {"none", "live", "deleted"}]
      /\ vms \in [Slices -> SUBSET Builds] /\ tasks \in [Builds -> Nat]
      /\ status \in [Slices -> Statuses] /\ pc \in [Requests -> Points]
      /\ overlap \in [Slices -> {"alone", "beside", "edited"}]
      /\ builds \in Nat /\ basis = [r \in Requests |-> basis[r]]
      /\ \A s \in Slices : vms[s] # {} => phase[s] = "live"
  BY SliceAssumption DEF TaskInv, TypeInv, TypeOK, Held
<1> USE <1>T DEF TaskInv, Alone, EditsDraft, Apart, Own, Created, Steady, Promised, ActiveIsTasked,
                 LiveSlices, Live, Tasked, Whole
<1>1. ASSUME NEW s \in Slices, Create(s) PROVE TaskInv'
  <2>1. \A r \in Requests : pc[r] # "idle" => on[r] # s
    BY <1>1 DEF Create
  <2>2. /\ \A t \in Slices : t # s => vms'[t] = vms[t] /\ status'[t] = status[t] /\ phase'[t] = phase[t]
        /\ vms'[s] = {builds + 1} /\ status'[s] # "ACTIVE" /\ phase'[s] = "live" /\ builds' = builds + 1
        /\ UNCHANGED <<tasks, pc, on, basis, overlap>>
    BY <1>1 DEF Create, control
  <2>3. Apart'
    <3>1. \A t \in Slices : t # s => builds + 1 \notin vms[t]
      BY DEF Builds
    <3>2. \A t \in Slices : \A b \in vms'[t] : b <= builds'
      BY <2>2 DEF Builds
    <3> QED
      BY <2>2, <3>1, <3>2
  <2>4. Own'
    <3> SUFFICES ASSUME NEW r \in Requests, pc[r] # "idle"
                 PROVE  /\ \A b \in basis[r].vms : b <= builds + 1
                        /\ \A t \in Slices : t # on[r] => basis[r].vms \cap vms'[t] = {}
      BY <2>2
    <3>1. basis[r].vms \subseteq Builds /\ \A b \in basis[r].vms : b <= builds
      BY DEF TypeInv, Held, RowType
    <3>2. \A b \in basis[r].vms : b <= builds + 1 /\ b # builds + 1
      BY <3>1 DEF Builds
    <3> QED
      BY <2>2, <3>2
  <2>5. Steady' /\ Created' /\ Alone' /\ EditsDraft'
    BY <2>1, <2>2
  <2>6. Promised'
    BY <2>1, <2>2
  <2>7. ActiveIsTasked'
    BY <2>2
  <2> QED
    BY <1>0, <2>3, <2>4, <2>5, <2>6, <2>7
<1>2. ASSUME NEW r \in Requests, NEW op \in Ops, NEW s \in Slices, Load(r, op, s) PROVE TaskInv'
  <2>1. /\ pc'[r] \notin {"idle", "placement", "final"} /\ on'[r] = s /\ basis'[r].vms = vms[s]
        /\ pc'[r] = "update" => status[s] = "DRAFT"
    BY <1>2, SliceAssumption DEF Load, Row, Admits
  <2>2. /\ \A q \in Requests : q # r => pc'[q] = pc[q] /\ on'[q] = on[q] /\ basis'[q] = basis[q]
        /\ UNCHANGED rows /\ phase[s] = "live" /\ pc[r] = "idle"
    BY <1>2 DEF Load
  <2>3. /\ \A t \in Slices : t # s => overlap'[t] = overlap[t]
        /\ overlap'[s] = "edited" <=> overlap[s] = "edited"
        /\ overlap'[s] = "alone" => overlap[s] = "alone" /\ \A q \in Requests : pc[q] # "idle" => on[q] # s
    BY <1>2 DEF Load
  <2>4. Alone' /\ EditsDraft'
    BY <2>1, <2>2, <2>3 DEF rows
  <2>5. Own' /\ Apart'
    BY <2>1, <2>2 DEF rows
  <2>6. Steady' /\ Promised' /\ Created' /\ ActiveIsTasked'
    BY <2>1, <2>2, <2>3 DEF rows
  <2> QED
    BY <1>0, <2>4, <2>5, <2>6
<1>3. ASSUME NEW r \in Requests, ActivateOpenStack(r) PROVE TaskInv'
  <2>1. /\ pc[r] = "openstack" /\ pc'[r] = "idle" /\ UNCHANGED <<on, phase, vms, builds, overlap>>
        /\ \A q \in Requests : q # r => pc'[q] = pc[q] /\ basis'[q] = basis[q]
    BY <1>3 DEF ActivateOpenStack, Return
  <2>2. CASE UNCHANGED <<tasks, status>>
    BY <1>0, <2>1, <2>2
  <2>3. CASE CanAdd(r) /\ AddTasks(r) /\ status' = [status EXCEPT ![on[r]] = "ACTIVE"]
    <3>1. /\ \A b \in Builds : tasks'[b] >= tasks[b]
          /\ Whole(on[r]) => \A b \in vms[on[r]] : tasks'[b] > 0
      BY <2>1, <2>3, AddTasked
    <3>2. tasks' \in [Builds -> Nat]
      BY <1>0 DEF TypeInv, TypeOK
    <3>3. \A s \in Slices : Tasked(s) => Tasked(s)'
      BY <2>1, <3>1, <3>2
    <3>4. ActiveIsTasked'
      BY <2>1, <2>3, <3>1, <3>3
    <3>5. EditsDraft'
      BY <2>1, <2>3
    <3>6. Steady' /\ Own' /\ Apart' /\ Created' /\ Alone'
      BY <2>1
    <3>7. Promised'
      BY <2>1, <3>3
    <3> QED
      BY <1>0, <3>4, <3>5, <3>6, <3>7
  <2> QED
    BY <1>3, <2>2, <2>3 DEF ActivateOpenStack
<1>4. ASSUME NEW r \in Requests, CreateTasks(r) PROVE TaskInv'
  <2>1. CASE Return(r) /\ UNCHANGED tasks
    BY <1>0, <1>4, <2>1 DEF CreateTasks, Return
  <2>2. CASE CanAdd(r) /\ AddTasks(r) /\ Goto(r, "placement")
    <3>1. /\ \A b \in Builds : tasks'[b] >= tasks[b]
          /\ Whole(on[r]) => \A b \in vms[on[r]] : tasks'[b] > 0
      BY <1>4, <2>2, AddTasked DEF CreateTasks
    <3>2. tasks' \in [Builds -> Nat]
      BY <1>0 DEF TypeInv, TypeOK
    <3>3. /\ UNCHANGED <<phase, status, vms, builds, on, basis, overlap>>
          /\ pc[r] = "tasks" /\ pc' = [pc EXCEPT ![r] = "placement"]
      BY <1>4, <2>2 DEF CreateTasks, Goto
    <3>4. \A s \in Slices : Tasked(s) => Tasked(s)'
      BY <3>1, <3>2, <3>3
    <3>5. Whole(on[r]) => Tasked(on[r])'
      BY <3>1, <3>3
    <3>6. Promised'
      BY <3>3, <3>4, <3>5
    <3>7. Steady' /\ Created' /\ Apart' /\ Own' /\ Alone' /\ EditsDraft'
      BY <3>3
    <3> QED
      BY <1>0, <3>3, <3>4, <3>6, <3>7
  <2> QED
    BY <1>4, <2>1, <2>2 DEF CreateTasks
<1>5. ASSUME NEW r \in Requests, Refresh(r) PROVE TaskInv'
  <2>1. /\ UNCHANGED <<rows, on, overlap>> /\ pc[r] = "placement"
        /\ \A q \in Requests : q # r => pc'[q] = pc[q] /\ basis'[q] = basis[q]
    BY <1>5 DEF Refresh, Return
  <2>2. \/ pc'[r] = "idle"
        \/ pc'[r] = "final" /\ basis'[r].vms = vms[on[r]]
    BY <1>5 DEF Refresh, Return, Row
  <2> QED
    BY <1>0, <2>1, <2>2 DEF rows
<1>6. ASSUME NEW r \in Requests, Finalize(r) PROVE TaskInv'
  <2>1. /\ pc[r] = "final" /\ pc'[r] = "idle" /\ UNCHANGED <<on, phase, vms, tasks, builds, overlap>>
        /\ \A q \in Requests : q # r => pc'[q] = pc[q] /\ basis'[q] = basis[q]
    BY <1>6 DEF Finalize, Return
  <2>2. \A s \in Slices : status'[s] = status[s] \/ (s = on[r] /\ Live(r))
    BY <1>6 DEF Finalize
  <2>3. ActiveIsTasked' /\ EditsDraft'
    BY <2>1, <2>2
  <2> QED
    BY <1>0, <2>1, <2>3
<1>7. ASSUME NEW r \in Requests, Reject(r) PROVE TaskInv'
  BY <1>0, <1>7 DEF Reject, Return
<1>8. ASSUME NEW r \in Requests, Update(r) PROVE TaskInv'
  <2>1. /\ pc[r] = "update" /\ pc'[r] = "idle" /\ UNCHANGED <<on, phase, status>>
        /\ \A q \in Requests : q # r => pc'[q] = pc[q] /\ basis'[q] = basis[q]
    BY <1>8 DEF Update, Return
  <2>2. CASE UNCHANGED <<vms, builds, target, tasks, overlap>>
    BY <1>0, <2>1, <2>2
  <2>3. CASE Live(r) /\ Rebuild(r, basis[r].vms)
    <3> DEFINE s == on[r]
    <3>1. /\ builds' = builds + 1 /\ s \in Slices
          /\ vms'[s] = (vms[s] \ basis[r].vms) \cup {builds + 1}
          /\ \A t \in Slices : t # s => vms'[t] = vms[t] /\ overlap'[t] = overlap[t]
          /\ overlap'[s] = IF overlap[s] = "alone" THEN "alone" ELSE "edited"
      BY <2>3 DEF Rebuild
    <3>2. \A t \in Slices : t # s /\ Tasked(t) => Tasked(t)'
      <4>1. ASSUME NEW t \in Slices, t # s, NEW b \in vms[t] PROVE tasks'[b] = tasks[b]
        <5>1. b \notin basis[r].vms /\ b \in Builds
          BY <2>1, <4>1
        <5> QED
          BY <2>3, <5>1 DEF Rebuild
      <4> QED
        BY <3>1, <4>1
    <3>3. Apart'
      <4>1. \A t \in Slices : builds + 1 \notin vms[t]
        BY DEF Builds
      <4>2. \A t \in Slices : \A b \in vms'[t] : b <= builds'
        BY <3>1 DEF Builds
      <4> QED
        BY <3>1, <4>1, <4>2
    <3>4. Own'
      <4> SUFFICES ASSUME NEW q \in Requests, q # r, pc[q] # "idle"
                   PROVE  /\ \A b \in basis[q].vms : b <= builds + 1
                          /\ \A t \in Slices : t # on[q] => basis[q].vms \cap vms'[t] = {}
        BY <2>1, <3>1
      <4>1. basis[q].vms \subseteq Builds /\ \A b \in basis[q].vms : b <= builds
        BY DEF TypeInv, Held, RowType
      <4>2. \A b \in basis[q].vms : b <= builds + 1 /\ b # builds + 1
        BY <4>1 DEF Builds
      <4> QED
        BY <3>1, <4>2
    <3>5. \A q \in Requests : q # r /\ pc[q] # "idle" /\ on[q] = s => overlap'[s] = "edited"
      BY <2>1, <3>1
    <3>6. Alone' /\ EditsDraft' /\ Created'
      BY <2>1, <3>1, <3>5
    <3>7. Steady'
      BY <2>1, <3>1, <3>5
    <3>8. Promised'
      BY <2>1, <3>1, <3>2, <3>5
    <3>9. ActiveIsTasked'
      BY <2>1, <3>1, <3>2
    <3> QED
      BY <1>0, <3>3, <3>4, <3>6, <3>7, <3>8, <3>9
  <2> QED
    BY <1>8, <2>2, <2>3 DEF Update
<1>9. ASSUME NEW r \in Requests, Erase(r) PROVE TaskInv'
  <2>1. /\ pc'[r] = "idle" /\ UNCHANGED <<on, status, builds, overlap>>
        /\ \A q \in Requests : q # r => pc'[q] = pc[q] /\ basis'[q] = basis[q]
        /\ phase'[on[r]] = "deleted" /\ vms'[on[r]] = {}
        /\ \A s \in Slices : s # on[r] => phase'[s] = phase[s] /\ vms'[s] = vms[s]
    BY <1>9 DEF Erase, Return
  <2>2. ASSUME NEW s \in Slices, s # on[r], Tasked(s) PROVE Tasked(s)'
    <3>1. \A b \in vms[s] : b \in Builds /\ b \notin vms[on[r]]
      BY <2>2
    <3> QED
      BY <1>9, <2>1, <2>2, <3>1 DEF Erase
  <2>3. Apart' /\ Created' /\ Own'
    BY <2>1
  <2>4. Steady' /\ Promised' /\ Alone' /\ EditsDraft'
    BY <2>1, <2>2
  <2>5. ActiveIsTasked'
    BY <2>1, <2>2
  <2> QED
    BY <1>0, <2>3, <2>4, <2>5
<1>10. CASE Crash
  BY <1>0, <1>10 DEF Crash, rows
<1>11. CASE UNCHANGED vars
  BY <1>0, <1>11 DEF vars, rows, control
<1> QED
  BY <1>1, <1>2, <1>3, <1>4, <1>5, <1>6, <1>7, <1>8, <1>9, <1>10, <1>11 DEF Next, Handler

\* Whatever approvals, deployments, rejections, edits, deletions and restarts
\* overlap, a slice shown as ACTIVE has tasks for each of its VMs, unless an
\* edit ran beside another request on it.
THEOREM ActiveTasked == Spec => []ActiveIsTasked
<1>1. TaskInv => ActiveIsTasked
  BY DEF TaskInv
<1> QED
  BY <1>1, TaskInit, TaskNext, PTL DEF Spec
-----------------------------------------------------------------------------
(***************************************************************************)
(* The status of a live slice changes only to ACTIVE or REJECTED; an edit  *)
(* leaves it alone and a creation needs a slice that is not there yet.     *)
(***************************************************************************)

\* No step takes the decision on a slice back: not a handler that loaded it
\* before it was decided, nor a restart.
THEOREM DecisionsStand == Spec => NeverUndecidedAgain
<1> DEFINE Stands == \A s \in LiveSlices : status[s] \in {"ACTIVE", "REJECTED"}
                       => status'[s] \in {"ACTIVE", "REJECTED"}
<1>1. TypeInv /\ [Next]_vars => [Stands]_vars
  <2> SUFFICES ASSUME TypeInv, Next PROVE Stands
    OBVIOUS
  <2>T. status \in [Slices -> Statuses]
    BY DEF TypeInv, TypeOK
  <2> USE <2>T DEF LiveSlices
  <2>1. ASSUME NEW s \in Slices, Create(s) PROVE Stands
    BY <2>1 DEF Create
  <2>2. ASSUME NEW r \in Requests, NEW op \in Ops, NEW s \in Slices, Load(r, op, s) PROVE Stands
    BY <2>2 DEF Load, rows
  <2>3. ASSUME NEW r \in Requests, Handler(r) PROVE Stands
    <3>1. CASE ActivateOpenStack(r)
      BY <3>1 DEF ActivateOpenStack
    <3>2. CASE CreateTasks(r) \/ Update(r) \/ Erase(r)
      BY <3>2 DEF CreateTasks, Update, Erase
    <3>3. CASE Refresh(r)
      BY <3>3 DEF Refresh, rows
    <3>4. CASE Finalize(r)
      BY <3>4 DEF Finalize
    <3>5. CASE Reject(r)
      BY <3>5 DEF Reject
    <3> QED
      BY <2>3, <3>1, <3>2, <3>3, <3>4, <3>5 DEF Handler
  <2>4. CASE Crash
    BY <2>4 DEF Crash, rows
  <2> QED
    BY <2>1, <2>2, <2>3, <2>4 DEF Next
<1> QED
  BY <1>1, TypeInit, TypeNext, PTL DEF Spec, NeverUndecidedAgain
-----------------------------------------------------------------------------
(***************************************************************************)
(* The contract.  While the requests for a slice come one after another    *)
(* and slice-manager does not restart (Calm), the one handler under way    *)
(* knows how far the slice has come (Stage), and a slice no handler works  *)
(* on has no tasks as long as it is undecided (Stands).                    *)
(***************************************************************************)
Undecided  == {"DRAFT", "PENDING_APPROVAL"}
Calm(s)    == crashes = 0 /\ overlap[s] = "alone"
Each(s, n) == vms[s] # {} /\ \A b \in vms[s] : tasks[b] = n
Busy(s)    == \E r \in Requests : pc[r] # "idle" /\ on[r] = s
Stands(s)  == phase[s] = "live" /\ Calm(s) =>
                /\ vms[s] # {} /\ \A b \in vms[s] : tasks[b] <= 1
                /\ status[s] \in Undecided /\ ~Busy(s) => Each(s, 0)
Stage(r)   ==
  Live(r) /\ Calm(on[r]) =>
    /\ pc[r] \in {"openstack", "tasks"} => status[on[r]] \in Undecided /\ Each(on[r], 0)
    /\ pc[r] \in {"placement", "final"} => status[on[r]] \in Undecided /\ Each(on[r], 1)
    /\ pc[r] = "final" => basis[r].status \in Undecided
    /\ pc[r] = "reject" => status[on[r]] = "PENDING_APPROVAL" /\ Each(on[r], 0)
    /\ pc[r] = "update" => status[on[r]] = "DRAFT" /\ Each(on[r], 0)

StagedInv ==
  /\ TaskInv
  /\ \A s \in Slices : Stands(s)
  /\ \A r \in Requests : Stage(r)

LEMMA StagedInit == Init => StagedInv
BY TaskInit DEF Init, StagedInv, Stands, Stage, Live

\* What a step leaves of a slice it does not work on.
Kept(s) ==
  /\ phase'[s] = phase[s] /\ status'[s] = status[s] /\ vms'[s] = vms[s]
  /\ \A b \in vms[s] : tasks'[b] = tasks[b]

\* A handler works on its own slice and answers for itself.
Local(r) ==
  /\ pc[r] # "idle" /\ on' = on
  /\ \A q \in Requests : q # r => pc'[q] = pc[q] /\ basis'[q] = basis[q]
  /\ \A s \in Slices : s # on[r] => Kept(s)
  /\ \A s \in Slices : Calm(s)' => Calm(s)

\* Tasks added by a handler go to its own slice, one for each of its VMs.
LEMMA AddOnce ==
  ASSUME TaskInv, NEW r \in Requests, pc[r] # "idle", AddTasks(r), UNCHANGED <<vms, on>>
  PROVE  /\ \A s \in Slices : s # on[r] => \A b \in vms[s] : tasks'[b] = tasks[b]
         /\ Live(r) /\ Calm(on[r]) /\ Each(on[r], 0) => Each(on[r], 1)'
<1>1. on[r] \in Slices /\ vms \in [Slices -> SUBSET Builds] /\ tasks \in [Builds -> Nat]
  BY DEF TaskInv, TypeInv, TypeOK
<1>2. ASSUME NEW s \in Slices, s # on[r], NEW b \in vms[s] PROVE tasks'[b] = tasks[b]
  <2>1. b \notin basis[r].vms /\ b \in Builds
    BY <1>1, <1>2 DEF TaskInv, Own
  <2> QED
    BY <2>1 DEF AddTasks
<1>3. ASSUME Live(r), Calm(on[r]), Each(on[r], 0) PROVE Each(on[r], 1)'
  <2>1. basis[r].vms = vms[on[r]]
    BY <1>1, <1>3 DEF TaskInv, Steady, Whole, Calm
  <2>2. \A b \in vms[on[r]] : b \in Builds /\ tasks'[b] = 1
    BY <1>1, <1>3, <2>1 DEF AddTasks, Each
  <2> QED
    BY <1>3, <2>2 DEF Each
<1> QED
  BY <1>2, <1>3

LEMMA HandlerLocal ==
  ASSUME TaskInv, NEW r \in Requests, Handler(r)
  PROVE  Local(r)
<1>T. /\ on[r] \in Slices /\ status \in [Slices -> Statuses] /\ pc \in [Requests -> Points]
      /\ phase \in [Slices -> {"none", "live", "deleted"}] /\ vms \in [Slices -> SUBSET Builds]
      /\ tasks \in [Builds -> Nat] /\ overlap \in [Slices -> {"alone", "beside", "edited"}]
      /\ basis = [q \in Requests |-> basis[q]]
  BY DEF TaskInv, TypeInv, TypeOK, Held
<1> USE <1>T
<1>1. CASE ActivateOpenStack(r)
  <2>1. pc[r] # "idle" /\ UNCHANGED <<phase, vms, overlap, on, crashes>>
    BY <1>1 DEF ActivateOpenStack, Return
  <2>2. \A s \in Slices : s # on[r] => \A b \in vms[s] : tasks'[b] = tasks[b]
    BY <1>1, <2>1, AddOnce DEF ActivateOpenStack
  <2>3. \A s \in Slices : s # on[r] => status'[s] = status[s]
    BY <1>1 DEF ActivateOpenStack
  <2> QED
    BY <1>1, <2>1, <2>2, <2>3 DEF ActivateOpenStack, Return, Local, Kept, Calm
<1>2. CASE CreateTasks(r)
  <2>1. pc[r] # "idle" /\ UNCHANGED <<phase, status, vms, overlap, on, crashes>>
    BY <1>2 DEF CreateTasks, Return, Goto
  <2>2. \A s \in Slices : s # on[r] => \A b \in vms[s] : tasks'[b] = tasks[b]
    BY <1>2, <2>1, AddOnce DEF CreateTasks
  <2> QED
    BY <1>2, <2>1, <2>2 DEF CreateTasks, Return, Goto, Local, Kept, Calm
<1>3. CASE Refresh(r)
  BY <1>3 DEF Refresh, Return, rows, Local, Kept, Calm
<1>4. CASE Finalize(r)
  BY <1>4 DEF Finalize, Return, Local, Kept, Calm
<1>5. CASE Reject(r)
  BY <1>5 DEF Reject, Return, Local, Kept, Calm
<1>6. CASE Update(r)
  <2>1. pc[r] # "idle" /\ UNCHANGED <<phase, status, on, crashes>>
        /\ \A q \in Requests : q # r => pc'[q] = pc[q] /\ basis'[q] = basis[q]
    BY <1>6 DEF Update, Return
  <2>2. CASE UNCHANGED <<vms, builds, target, tasks, overlap>>
    BY <2>1, <2>2 DEF Local, Kept, Calm
  <2>3. CASE Rebuild(r, basis[r].vms)
    <3>1. ASSUME NEW s \in Slices, s # on[r], NEW b \in vms[s] PROVE tasks'[b] = tasks[b]
      <4>1. b \notin basis[r].vms /\ b \in Builds
        BY <2>1, <3>1 DEF TaskInv, Own
      <4> QED
        BY <2>3, <4>1 DEF Rebuild
    <3>2. /\ \A s \in Slices : s # on[r] => vms'[s] = vms[s]
          /\ \A s \in Slices : overlap'[s] = "alone" => overlap[s] = "alone"
      BY <2>3 DEF Rebuild
    <3> QED
      BY <2>1, <3>1, <3>2 DEF Local, Kept, Calm
  <2> QED
    BY <1>6, <2>2, <2>3 DEF Update
<1>7. CASE Erase(r)
  <2>1. ASSUME NEW s \in Slices, s # on[r], NEW b \in vms[s] PROVE tasks'[b] = tasks[b]
    <3>1. b \notin vms[on[r]] /\ b \in Builds
      BY <2>1 DEF TaskInv, Apart
    <3> QED
      BY <1>7, <3>1 DEF Erase
  <2> QED
    BY <1>7, <2>1 DEF Erase, Return, Local, Kept, Calm
<1> QED
  BY <1>1, <1>2, <1>3, <1>4, <1>5, <1>6, <1>7 DEF Handler

\* A handler has to keep its own slice and its own stage only: in a calm slice
\* no other handler is under way.
LEMMA StagedLocal ==
  ASSUME StagedInv, TaskInv', NEW r \in Requests, Local(r), Stands(on[r])', Stage(r)'
  PROVE  StagedInv'
<1>1. ASSUME NEW s \in Slices, s # on[r] PROVE Stands(s)'
  <2>1. Kept(s) /\ Stands(s) /\ (Calm(s)' => Calm(s)) /\ vms'[s] = vms[s]
    BY <1>1 DEF Local, StagedInv, Kept
  <2>2. Busy(s)' <=> Busy(s)
    BY <1>1 DEF Local, Busy
  <2> QED
    BY <2>1, <2>2 DEF Stands, Kept, Each
<1>2. ASSUME NEW q \in Requests, q # r PROVE Stage(q)'
  <2>1. on[q] \in Slices /\ on'[q] = on[q] /\ pc'[q] = pc[q] /\ basis'[q] = basis[q]
        /\ (Calm(on[q])' => Calm(on[q]))
    BY <1>2 DEF Local, StagedInv, TaskInv, TypeInv, TypeOK, Calm
  <2>2. CASE on[q] # on[r]
    BY <1>2, <2>1, <2>2 DEF Local, StagedInv, Stage, Live, Kept, Each
  <2>3. CASE on[q] = on[r] /\ pc[q] # "idle"
    <3>1. ~Calm(on[q])
      BY <1>2, <2>3 DEF Local, StagedInv, TaskInv, Alone, Calm
    <3> QED
      BY <2>1, <3>1 DEF Stage
  <2>4. CASE pc[q] = "idle"
    BY <2>1, <2>4 DEF Stage
  <2> QED
    BY <2>2, <2>3, <2>4
<1>3. on[r] \in Slices /\ on' = on
  BY DEF Local, StagedInv, TaskInv, TypeInv, TypeOK
<1> QED
  BY <1>1, <1>2, <1>3 DEF StagedInv

\* A handler leaves its slice at a stage of the contract, and with its last
\* step either decided or without tasks, or gone.
LEMMA HandlerStaged ==
  ASSUME StagedInv, TaskInv', NEW r \in Requests, Handler(r)
  PROVE  Stands(on[r])' /\ Stage(r)'
<1>T. /\ on[r] \in Slices /\ status \in [Slices -> Statuses] /\ pc \in [Requests -> Points]
      /\ phase \in [Slices -> {"none", "live", "deleted"}] /\ vms \in [Slices -> SUBSET Builds]
      /\ tasks \in [Builds -> Nat] /\ basis = [q \in Requests |-> basis[q]]
  BY DEF StagedInv, TaskInv, TypeInv, TypeOK, Held
<1>L. Local(r) /\ TaskInv /\ Stands(on[r]) /\ Stage(r)
  BY HandlerLocal, <1>T DEF StagedInv
<1>O. on' = on /\ pc[r] # "idle" /\ (Calm(on[r])' => Calm(on[r]))
  BY <1>L, <1>T DEF Local
<1>N. Live(r) /\ Calm(on[r]) => vms[on[r]] # {} /\ \A b \in vms[on[r]] : tasks[b] <= 1
  BY <1>L DEF Stands, Live
<1>B. pc'[r] # "idle" => Busy(on[r])'
  BY <1>O DEF Busy
<1>V. Live(r) /\ Calm(on[r]) => basis[r].vms = vms[on[r]] /\ CanAdd(r)
  BY <1>O, <1>L, <1>T DEF TaskInv, Steady, Whole, Calm, CanAdd
<1> SUFFICES ASSUME Calm(on[r]), Live(r)', Calm(on[r])'
             PROVE  /\ (vms[on[r]] # {} /\ \A b \in vms[on[r]] : tasks[b] <= 1)'
                    /\ (status[on[r]] \in Undecided /\ ~Busy(on[r]) => Each(on[r], 0))'
                    /\ Stage(r)'
  BY <1>O DEF Stands, Stage, Live
<1>1. CASE ActivateOpenStack(r)
  <2>1. Live(r) /\ UNCHANGED vms /\ pc'[r] = "idle"
    BY <1>1, <1>O, <1>T DEF ActivateOpenStack, Return, Live
  <2>2. status'[on[r]] = "ACTIVE"
    BY <1>1, <2>1, <1>V, <1>T DEF ActivateOpenStack
  <2>3. pc[r] = "openstack" /\ AddTasks(r)
    BY <1>1, <2>1, <1>V DEF ActivateOpenStack
  <2>4. Each(on[r], 0)
    BY <1>L, <2>1, <2>3 DEF Stage
  <2>5. Each(on[r], 1)'
    BY AddOnce, <1>L, <1>O, <2>1, <2>3, <2>4
  <2> QED
    BY <2>1, <2>2, <2>5, <1>N, <1>O DEF Stage, Undecided, Each
<1>2. CASE CreateTasks(r)
  <2>1. Live(r) /\ UNCHANGED <<vms, status>> /\ pc[r] = "tasks"
    BY <1>2, <1>O DEF CreateTasks, Live
  <2>2. AddTasks(r) /\ pc'[r] = "placement"
    BY <1>2, <2>1, <1>V, <1>T DEF CreateTasks, Goto
  <2>3. status[on[r]] \in Undecided /\ Each(on[r], 0)
    BY <1>L, <2>1 DEF Stage
  <2>4. Each(on[r], 1)'
    BY AddOnce, <1>L, <1>O, <2>1, <2>2, <2>3
  <2>5. Stage(r)'
    BY <1>O, <2>1, <2>2, <2>3, <2>4 DEF Stage
  <2> QED
    BY <1>B, <1>N, <1>O, <2>1, <2>2, <2>4, <2>5 DEF Each
<1>3. CASE Refresh(r)
  <2>1. Live(r) /\ UNCHANGED <<vms, status, tasks>> /\ pc[r] = "placement"
    BY <1>3, <1>O DEF Refresh, Live, rows
  <2>2. pc'[r] = "final" /\ basis'[r].status = status[on[r]]
    BY <1>3, <2>1, <1>T DEF Refresh, Row
  <2>3. status[on[r]] \in Undecided /\ Each(on[r], 1)
    BY <1>L, <2>1 DEF Stage
  <2>4. Stage(r)'
    BY <1>O, <2>1, <2>2, <2>3 DEF Stage, Each
  <2> QED
    BY <1>B, <1>N, <1>O, <2>1, <2>2, <2>4
<1>4. CASE Finalize(r)
  <2>1. Live(r) /\ UNCHANGED <<vms, tasks>> /\ pc[r] = "final" /\ pc'[r] = "idle"
    BY <1>4, <1>O, <1>T DEF Finalize, Return, Live
  <2>2. basis[r].status \in Undecided
    BY <1>L, <2>1 DEF Stage
  <2>3. status'[on[r]] = "ACTIVE"
    BY <1>4, <2>1, <2>2, <1>V, <1>T DEF Finalize, Undecided
  <2> QED
    BY <2>1, <2>3, <1>N, <1>O DEF Stage, Undecided
<1>5. CASE Reject(r)
  <2>1. Live(r) /\ UNCHANGED <<vms, tasks>> /\ pc'[r] = "idle"
    BY <1>5, <1>O, <1>T DEF Reject, Return, Live
  <2>2. status'[on[r]] = "REJECTED"
    BY <1>5, <2>1, <1>T DEF Reject
  <2> QED
    BY <2>1, <2>2, <1>N, <1>O DEF Stage, Undecided
<1>6. CASE Update(r)
  <2>1. Live(r) /\ pc[r] = "update" /\ pc'[r] = "idle" /\ UNCHANGED status
    BY <1>6, <1>O, <1>T DEF Update, Return, Live
  <2>2. Each(on[r], 0)
    BY <1>L, <2>1 DEF Stage
  <2>3. Each(on[r], 0)'
    <3>1. CASE UNCHANGED <<vms, tasks>>
      BY <2>2, <3>1, <1>O DEF Each
    <3>2. CASE Rebuild(r, basis[r].vms)
      <4>1. vms'[on[r]] = {builds + 1}
        BY <3>2, <1>V, <1>T, <2>1 DEF Rebuild
      <4>2. builds + 1 \in Builds /\ \A s \in Slices : builds + 1 \notin vms[s]
        BY <3>2, <1>L, SliceAssumption DEF Rebuild, Builds, TaskInv, Apart, TypeInv, TypeOK
      <4>3. tasks[builds + 1] = 0
        BY <4>2, <1>L DEF TaskInv, TypeInv, TypeOK
      <4>4. tasks'[builds + 1] = 0
        BY <3>2, <4>2, <4>3 DEF Rebuild
      <4> QED
        BY <4>1, <4>4, <1>O DEF Each
    <3> QED
      BY <1>6, <3>1, <3>2 DEF Update
  <2> QED
    BY <2>1, <2>3, <1>O DEF Stage, Each
<1>7. CASE Erase(r)
  BY <1>7, <1>O, <1>T DEF Erase, Live
<1> QED
  BY <1>1, <1>2, <1>3, <1>4, <1>5, <1>6, <1>7 DEF Handler

LEMMA StagedNext == StagedInv /\ [Next]_vars => StagedInv'
<1> SUFFICES ASSUME StagedInv, [Next]_vars PROVE StagedInv'
  OBVIOUS
<1>0. TaskInv' /\ TaskInv
  BY TaskNext DEF StagedInv
<1>T. /\ on \in [Requests -> Slices] /\ status \in [Slices -> Statuses]
      /\ phase \in [Slices -> {"none", "live", "deleted"}] /\ vms \in [Slices -> SUBSET Builds]
      /\ tasks \in [Builds -> Nat] /\ pc \in [Requests -> Points]
      /\ overlap \in [Slices -> {"alone", "beside", "edited"}]
      /\ basis = [r \in Requests |-> basis[r]] /\ builds \in Nat
  BY <1>0, SliceAssumption DEF TaskInv, TypeInv, TypeOK, Held
<1>1. ASSUME NEW s \in Slices, Create(s) PROVE StagedInv'
  <2>1. \A r \in Requests : pc[r] # "idle" => on[r] # s
    BY <1>1, <1>0 DEF Create, TaskInv, Created
  <2>2. /\ \A t \in Slices : t # s => vms'[t] = vms[t] /\ status'[t] = status[t] /\ phase'[t] = phase[t]
        /\ UNCHANGED <<tasks, pc, on, basis, overlap, crashes>>
    BY <1>1 DEF Create, control
  <2>3. vms'[s] = {builds + 1} /\ tasks[builds + 1] = 0
    <3>1. builds + 1 \in Builds /\ \A t \in Slices : builds + 1 \notin vms[t]
      BY <1>1, <1>0, <1>T, SliceAssumption DEF Create, Builds, TaskInv, Apart, TypeInv, TypeOK
    <3> QED
      BY <1>1, <1>0, <1>T, <3>1 DEF Create, TaskInv, TypeInv, TypeOK
  <2>4. \A t \in Slices : Stands(t)'
    BY <2>2, <2>3 DEF StagedInv, Stands, Calm, Busy, Each
  <2>5. \A r \in Requests : Stage(r)'
    BY <1>T, <2>1, <2>2 DEF StagedInv, Stage, Live, Calm, Each
  <2> QED
    BY <1>0, <2>4, <2>5 DEF StagedInv
<1>2. ASSUME NEW r \in Requests, NEW op \in Ops, NEW s \in Slices, Load(r, op, s) PROVE StagedInv'
  <2>1. /\ UNCHANGED <<rows, crashes>> /\ phase[s] = "live" /\ pc[r] = "idle"
        /\ on'[r] = s /\ pc'[r] \in Points \ {"idle", "placement", "final"}
        /\ pc'[r] \in {"openstack", "tasks"} => status[s] \in Undecided
        /\ pc'[r] = "reject" => status[s] = "PENDING_APPROVAL"
        /\ pc'[r] = "update" => status[s] = "DRAFT"
    BY <1>2, <1>T, SliceAssumption DEF Load, Admits, Undecided, Points
  <2>2. \A q \in Requests : q # r => pc'[q] = pc[q] /\ on'[q] = on[q] /\ basis'[q] = basis[q]
    BY <1>2, <1>T DEF Load
  <2>3. /\ \A t \in Slices : Calm(t)' => Calm(t)
        /\ Calm(s)' => ~Busy(s)
    BY <1>2, <1>T DEF Load, Calm, Busy
  <2>4. ASSUME NEW t \in Slices PROVE Stands(t)'
    <3>1. Busy(t) => Busy(t)'
      BY <2>1, <2>2 DEF Busy
    <3> QED
      BY <2>1, <2>3, <3>1 DEF rows, StagedInv, Stands, Each
  <2>5. Stage(r)'
    <3>1. Calm(s)' /\ status[s] \in Undecided => Each(s, 0)
      BY <2>1, <2>3 DEF StagedInv, Stands
    <3>2. Each(s, 0)' <=> Each(s, 0)
      BY <2>1 DEF rows, Each
    <3>3. pc'[r] \notin {"placement", "final"}
      BY <2>1
    <3> DEFINE E == Each(s, 0)'
    <3>4. Calm(s)' /\ status[s] \in Undecided => E
      BY <3>1, <3>2
    <3>5. Calm(on[r])' <=> Calm(s)'
      BY <2>1 DEF Calm
    <3>6. Each(on[r], 0)' <=> E
      BY <2>1 DEF Each
    <3> HIDE DEF E
    <3>7. status'[on'[r]] = status[s]
      BY <2>1 DEF rows
    <3> QED
      BY <2>1, <3>3, <3>4, <3>5, <3>6, <3>7 DEF Stage, Undecided
  <2>6. ASSUME NEW q \in Requests, q # r PROVE Stage(q)'
    BY <1>T, <2>1, <2>2, <2>3, <2>6 DEF rows, StagedInv, Stage, Live, Each, Calm
  <2> QED
    BY <1>0, <2>4, <2>5, <2>6 DEF StagedInv
<1>3. ASSUME NEW r \in Requests, Handler(r) PROVE StagedInv'
  BY <1>0, <1>3, HandlerLocal, HandlerStaged, StagedLocal
<1>4. CASE Crash
  <2>1. crashes' # 0
    BY <1>4, <1>0 DEF Crash, TaskInv, TypeInv, TypeOK
  <2> QED
    BY <1>0, <2>1 DEF StagedInv, Stands, Stage, Calm
<1>5. CASE UNCHANGED vars
  BY <1>0, <1>5 DEF vars, rows, control, StagedInv, Stands, Stage, Calm, Live, Busy, Each
<1> QED
  BY <1>1, <1>2, <1>3, <1>4, <1>5 DEF Next
-----------------------------------------------------------------------------
(***************************************************************************)
(* The refinement.  A step that works on one slice moves that slice in the *)
(* contract or leaves it where it is, and is read off its stage.           *)
(***************************************************************************)

\* How a slice is shown to the contract.
Shown(s) == IF phase[s] = "live" THEN status[s] ELSE phase[s]
Counts(s) == {tasks[b] : b \in vms[s]}

Frame(s) == \A t \in Slices : t # s => Kept(t)

LEMMA ShownNow ==
  /\ PhaseNow = [s \in Slices |-> Shown(s)] /\ HandedNow = [s \in Slices |-> Counts(s)]
  /\ PhaseNow' = [s \in Slices |-> Shown(s)'] /\ HandedNow' = [s \in Slices |-> Counts(s)']
BY DEF PhaseNow, HandedNow, Shown, Counts

LEMMA Elsewhere ==
  ASSUME NEW s \in Slices, Frame(s), NEW t \in Slices, t # s
  PROVE  Shown(t)' = Shown(t) /\ Counts(t)' = Counts(t)
BY DEF Frame, Kept, Shown, Counts

\* Only one slice moves ...
LEMMA Moves ==
  ASSUME NEW s \in Slices, Frame(s), NEW p, NEW h, Shown(s)' = p, Counts(s)' = h
  PROVE  Contract!Move(s, p, h)
<1>1. PhaseNow' = [PhaseNow EXCEPT ![s] = p]
  BY ShownNow, Elsewhere
<1>2. HandedNow' = [HandedNow EXCEPT ![s] = h]
  BY ShownNow, Elsewhere
<1> QED
  BY <1>1, <1>2 DEF Contract!Move

\* ... or none does.
LEMMA Stutters ==
  ASSUME NEW s \in Slices, Frame(s), Shown(s)' = Shown(s), Counts(s)' = Counts(s)
  PROVE  UNCHANGED <<PhaseNow, HandedNow>>
<1>1. \A t \in Slices : Shown(t)' = Shown(t) /\ Counts(t)' = Counts(t)
  BY Elsewhere
<1>2. PhaseNow' = PhaseNow
  BY <1>1, ShownNow
<1>3. HandedNow' = HandedNow
  BY <1>1, ShownNow
<1> QED
  BY <1>2, <1>3

LEMMA EachCounts ==
  ASSUME NEW s, NEW n, Each(s, n)
  PROVE  Counts(s) = {n}
BY DEF Each, Counts

\* What a move of the contract needs, said of the rows.
LEMMA At ==
  ASSUME NEW s \in Slices
  PROVE  PhaseNow[s] = Shown(s) /\ HandedNow[s] = Counts(s)
BY ShownNow

Goes == Contract!Next \/ UNCHANGED <<PhaseNow, HandedNow>>

LEMMA HandlerGoes ==
  ASSUME StagedInv, StagedInv', NEW r \in Requests, Handler(r), ~Disturbed',
         NEW s \in Slices, on[r] = s
  PROVE  Goes
<1>I. TaskInv /\ Stands(s) /\ Stage(r) /\ Stands(s)' /\ Stage(r)' /\ Local(r)
  <2>1. TaskInv /\ Local(r)
    BY HandlerLocal DEF StagedInv
  <2> QED
    BY <2>1 DEF StagedInv
<1>T. /\ s \in Slices /\ status \in [Slices -> Statuses] /\ pc \in [Requests -> Points]
      /\ phase \in [Slices -> {"none", "live", "deleted"}] /\ vms \in [Slices -> SUBSET Builds]
      /\ tasks \in [Builds -> Nat] /\ basis = [q \in Requests |-> basis[q]]
      /\ crashes' \in Nat /\ \A t \in Slices : phase[t] # "live" => vms[t] = {}
  BY SliceAssumption DEF StagedInv, TaskInv, TypeInv, TypeOK, Held
<1>F. Frame(s) /\ on' = on /\ pc[r] # "idle"
  BY <1>I DEF Local, Frame
<1>C. Calm(s) /\ Calm(s)'
  <2>1. Calm(s)'
    BY <1>T, SliceAssumption DEF Disturbed, Calm, StagedInv, TaskInv, TypeInv, TypeOK
  <2> QED
    BY <2>1, <1>I, <1>T DEF Local
<1>V. Live(r) => basis[r].vms = vms[s] /\ CanAdd(r)
  BY <1>F, <1>I, <1>C, <1>T DEF TaskInv, Steady, Whole, Calm, CanAdd
<1>S. Shown(s) = PhaseNow[s] /\ Counts(s) = HandedNow[s]
  BY <1>T, At
<1>G. ASSUME NEW p, NEW h, Shown(s)' = p, Counts(s)' = h PROVE Contract!Move(s, p, h)
  BY <1>G, <1>T, <1>F, Moves
<1>K. Shown(s)' = Shown(s) /\ Counts(s)' = Counts(s) => Goes
  BY <1>T, <1>F, Stutters DEF Goes
<1>A. (\/ Contract!HandOver(s) \/ Contract!Activate(s) \/ Contract!Reject(s) \/ Contract!Remove(s)) => Goes
  BY <1>T DEF Goes, Contract!Next
<1>1. CASE ActivateOpenStack(r) /\ Live(r)
  <2>1. pc[r] = "openstack" /\ UNCHANGED <<phase, vms>> /\ AddTasks(r) /\ status'[s] = "ACTIVE"
    BY <1>1, <1>V, <1>T DEF ActivateOpenStack
  <2>2. status[s] \in Undecided /\ Each(s, 0) /\ phase[s] = "live"
    BY <1>1, <1>I, <1>C, <2>1 DEF Stage, Live
  <2>3. Each(s, 1)'
    BY <1>1, <1>C, <1>F, <1>I, <2>1, <2>2, AddOnce
  <2>4. Shown(s) \in Undecided /\ Counts(s) = {0} /\ Shown(s)' = "ACTIVE" /\ Counts(s)' = {1}
    BY <2>1, <2>2, <2>3, EachCounts DEF Shown, Each, Counts
  <2>5. Contract!Move(s, "ACTIVE", {1})
    BY <2>4, <1>G
  <2>6. Contract!HandOver(s)
    BY <2>4, <2>5, <1>S DEF Contract!HandOver, Contract!Undecided, Undecided
  <2> QED
    BY <2>6, <1>A
<1>2. CASE CreateTasks(r) /\ Live(r)
  <2>1. pc[r] = "tasks" /\ UNCHANGED <<phase, vms, status>> /\ AddTasks(r)
    BY <1>2, <1>V, <1>T DEF CreateTasks
  <2>2. status[s] \in Undecided /\ Each(s, 0) /\ phase[s] = "live"
    BY <1>2, <1>I, <1>C, <2>1 DEF Stage, Live
  <2>3. Each(s, 1)'
    BY <1>2, <1>C, <1>F, <1>I, <2>1, <2>2, AddOnce
  <2>4. Shown(s) \in Undecided /\ Counts(s) = {0} /\ Shown(s)' = Shown(s) /\ Counts(s)' = {1}
    BY <2>1, <2>2, <2>3, EachCounts DEF Shown, Each, Counts
  <2>5. Contract!Move(s, PhaseNow[s], {1})
    BY <2>4, <1>G, <1>S
  <2>6. Contract!HandOver(s)
    BY <2>4, <2>5, <1>S DEF Contract!HandOver, Contract!Undecided, Undecided
  <2> QED
    BY <2>6, <1>A
<1>3. CASE Refresh(r)
  BY <1>3, <1>K DEF Refresh, rows, Shown, Counts
<1>4. CASE Finalize(r) /\ Live(r)
  <2>1. pc[r] = "final" /\ UNCHANGED <<phase, vms, tasks>>
    BY <1>4 DEF Finalize
  <2>2. status[s] \in Undecided /\ Each(s, 1) /\ phase[s] = "live" /\ basis[r].status \in Undecided
    BY <1>4, <1>I, <1>C, <2>1 DEF Stage, Live
  <2>3. status'[s] = "ACTIVE"
    BY <1>4, <1>V, <1>T, <2>2 DEF Finalize, Undecided
  <2>4. Shown(s) \in Undecided /\ Counts(s) = {1} /\ Shown(s)' = "ACTIVE" /\ Counts(s)' = {1}
    BY <2>1, <2>2, <2>3, EachCounts DEF Shown, Each, Counts
  <2>5. Contract!Move(s, "ACTIVE", {1})
    BY <2>4, <1>G
  <2>6. Contract!Activate(s)
    BY <2>4, <2>5, <1>S DEF Contract!Activate, Contract!Undecided, Undecided
  <2> QED
    BY <2>6, <1>A
<1>5. CASE Reject(r) /\ Live(r)
  <2>1. pc[r] = "reject" /\ UNCHANGED <<phase, vms, tasks>> /\ status'[s] = "REJECTED"
    BY <1>5, <1>T DEF Reject
  <2>2. status[s] = "PENDING_APPROVAL" /\ Each(s, 0) /\ phase[s] = "live"
    BY <1>5, <1>I, <1>C, <2>1 DEF Stage, Live
  <2>3. Shown(s) = "PENDING_APPROVAL" /\ Counts(s) = {0} /\ Shown(s)' = "REJECTED" /\ Counts(s)' = {0}
    BY <2>1, <2>2, EachCounts DEF Shown, Each, Counts
  <2>4. Contract!Move(s, "REJECTED", {0})
    BY <2>3, <1>G
  <2>5. Contract!Reject(s)
    BY <2>3, <2>4, <1>S DEF Contract!Reject
  <2> QED
    BY <2>5, <1>A
<1>6. CASE Update(r)
  <2>1. pc[r] = "update" /\ UNCHANGED <<phase, status>>
    BY <1>6 DEF Update
  <2>2. CASE UNCHANGED <<vms, tasks>>
    BY <1>K, <2>1, <2>2 DEF Shown, Counts
  <2>3. CASE Live(r) /\ Rebuild(r, basis[r].vms)
    <3>1. status[s] = "DRAFT" /\ Each(s, 0) /\ phase[s] = "live"
      BY <1>I, <1>C, <2>1, <2>3 DEF Stage, Live
    <3>2. pc'[r] = "idle" /\ \A q \in Requests : q # r /\ pc'[q] # "idle" => on[q] # s
      BY <1>6, <1>I, <1>T, <1>C, <1>F, ZenonT(60) DEF Update, Return, Local, TaskInv, Alone, Calm
    <3>3. Each(s, 0)'
      BY <1>I, <1>C, <1>F, <2>1, <3>1, <3>2 DEF Stands, Busy, Undecided
    <3>4. Counts(s) = {0} /\ Counts(s)' = {0}
      BY <3>1, <3>3, EachCounts DEF Each, Counts
    <3> QED
      BY <1>K, <2>1, <3>4 DEF Shown
  <2> QED
    BY <1>6, <2>2, <2>3 DEF Update
<1>7. CASE Erase(r)
  <2>1. phase'[s] = "deleted" /\ vms'[s] = {}
    BY <1>7, <1>T DEF Erase
  <2>2. Shown(s)' = "deleted" /\ Counts(s)' = {}
    BY <2>1 DEF Shown, Counts
  <2>3. CASE phase[s] = "live"
    <3>1. Shown(s) \notin {"none", "deleted"}
      BY <2>3, <1>T DEF Shown, Statuses
    <3>2. Contract!Remove(s)
      BY <2>2, <3>1, <1>G, <1>S DEF Contract!Remove
    <3> QED
      BY <3>2, <1>A
  <2>4. CASE phase[s] # "live"
    <3>1. phase[s] = "deleted" /\ vms[s] = {}
      BY <1>I, <1>F, <1>T, <2>4 DEF TaskInv, Created
    <3> QED
      BY <1>K, <2>2, <3>1 DEF Shown, Counts
  <2> QED
    BY <2>3, <2>4
<1>8. CASE ~Live(r) /\ (ActivateOpenStack(r) \/ CreateTasks(r) \/ Finalize(r) \/ Reject(r))
  <2>1. UNCHANGED <<phase, vms, tasks, status>>
    BY <1>8 DEF ActivateOpenStack, CreateTasks, Finalize, Reject, CanAdd
  <2> QED
    BY <1>K, <2>1 DEF Shown, Counts
<1> QED
  BY <1>1, <1>2, <1>3, <1>4, <1>5, <1>6, <1>7, <1>8 DEF Handler

LEMMA ContractInit == Init => Contract!Init
BY DEF Init, Contract!Init, PhaseNow, HandedNow

LEMMA ContractStep ==
  StagedInv /\ [Next]_vars => [Contract!Next \/ Disturbed']_<<PhaseNow, HandedNow>>
<1> SUFFICES ASSUME StagedInv, [Next]_vars, ~Disturbed' PROVE Goes
  BY DEF Goes
<1>0. StagedInv'
  BY StagedNext
<1>1. ASSUME NEW s \in Slices, Create(s) PROVE Goes
  <2>T. /\ phase \in [Slices -> {"none", "live", "deleted"}] /\ status \in [Slices -> Statuses]
        /\ vms \in [Slices -> SUBSET Builds] /\ builds \in Nat
    BY SliceAssumption DEF StagedInv, TaskInv, TypeInv, TypeOK
  <2>1. PICK p \in {"DRAFT", "PENDING_APPROVAL"} : status' = [status EXCEPT ![s] = p]
    BY <1>1 DEF Create
  <2>2. phase[s] = "none" /\ phase'[s] = "live" /\ vms'[s] = {builds + 1} /\ UNCHANGED tasks
    BY <1>1, <2>T DEF Create
  <2>3. Frame(s)
    BY <1>1, <2>T DEF Create, Frame, Kept
  <2>4. tasks[builds + 1] = 0
    <3>1. builds + 1 \in Builds /\ \A t \in Slices : builds + 1 \notin vms[t]
      BY <1>1, <2>T, SliceAssumption DEF Create, Builds, StagedInv, TaskInv, Apart
    <3> QED
      BY <3>1 DEF StagedInv, TaskInv, TypeInv, TypeOK
  <2>5. Shown(s) = "none" /\ Shown(s)' = p /\ Counts(s)' = {0}
    BY <2>1, <2>2, <2>4, <2>T DEF Shown, Counts
  <2>6. Contract!Move(s, p, {0})
    BY <2>3, <2>5, Moves
  <2>7. Contract!Create(s)
    BY <2>5, <2>6, At DEF Contract!Create, Contract!Undecided
  <2> QED
    BY <2>7 DEF Goes, Contract!Next
<1>2. ASSUME NEW r \in Requests, NEW op \in Ops, NEW s \in Slices, Load(r, op, s) PROVE Goes
  BY <1>2 DEF Load, rows, Goes, PhaseNow, HandedNow
<1>3. ASSUME NEW r \in Requests, Handler(r) PROVE Goes
  <2>1. PICK s \in Slices : on[r] = s
    BY DEF StagedInv, TaskInv, TypeInv, TypeOK
  <2> QED
    BY <1>0, <1>3, <2>1, HandlerGoes
<1>4. CASE Crash
  BY <1>4 DEF Crash, rows, Goes, PhaseNow, HandedNow
<1>5. CASE UNCHANGED vars
  BY <1>5 DEF vars, rows, Goes, PhaseNow, HandedNow
<1> QED
  BY <1>1, <1>2, <1>3, <1>4, <1>5 DEF Next

\* Until requests overlap on a slice or slice-manager restarts, every step of
\* the handlers is a step of the contract or none: a slice is edited only as
\* a draft, decided once, and its VMs are handed over once, by the decision
\* that makes it ACTIVE.
THEOREM KeepsContract == Spec => ImplementsSliceContract
BY StagedInit, StagedNext, ContractInit, ContractStep, PTL DEF Spec, ImplementsSliceContract

\* "Slice already processed" (slices.py:799) holds as long as the requests for
\* every slice come one after another and slice-manager does not restart: no
\* VM gets a second task.  Two approvals side by side break it.
THEOREM OneByOneProcessedOnce == Spec => [](~Disturbed => ProcessedOnce)
<1>1. StagedInv => (~Disturbed => ProcessedOnce)
  <2> SUFFICES ASSUME StagedInv, ~Disturbed, NEW s \in LiveSlices, NEW b \in vms[s]
               PROVE  tasks[b] <= 1
    BY DEF ProcessedOnce
  <2>1. Calm(s) /\ phase[s] = "live" /\ s \in Slices
    BY SliceAssumption DEF Calm, Disturbed, LiveSlices, StagedInv, TaskInv, TypeInv, TypeOK
  <2> QED
    BY <2>1 DEF StagedInv, Stands
<1> QED
  BY <1>1, StagedInit, StagedNext, PTL DEF Spec
=============================================================================
