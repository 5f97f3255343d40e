-------------------------- MODULE Dispatcher_proofs --------------------------
(***************************************************************************)
(* Proofs about Dispatcher, for every set of tasks, slices and cycles.     *)
(***************************************************************************)
EXTENDS Dispatcher, TLAPS

\* Writing one value into a set of entries keeps a function's range.
LEMMA SetToType ==
  ASSUME NEW D, NEW R, NEW f \in [D -> R], NEW S, NEW val \in R
  PROVE  SetTo(f, S, val) \in [D -> R]
  BY DEF SetTo

\* The rows a request speaks for are rows of the tables.
LEMMA ScopeType ==
  ASSUME NEW t \in Tasks
  PROVE  /\ SliceOf(t) \in Slices
         /\ VmScope(t) \subseteq VMs
         /\ TaskScope(t) \subseteq Tasks
  BY ParamsAssumption DEF SliceOf, VmScope, TaskScope, SliceVms, SliceTasks

\* The control of a cycle: past the lock it holds a task, and only a cycle
\* that waits for a driver has a request out.
ControlOK ==
  \A c \in Cycles :
    /\ pc[c] \in {"load", "mark", "allocate", "enrich", "call", "wait", "report"} => cur[c] \in Tasks
    /\ job[c] # "none" => pc[c] = "wait"

TypeInv == TypeOK /\ ControlOK

LEMMA TypeInit == Init => TypeInv
  BY ParamsAssumption DEF Init, TypeInv, TypeOK, ControlOK, TaskStatus, VmStatus, Points

LEMMA TypeNext == TypeInv /\ [Next]_vars => TypeInv'
  <1> SUFFICES ASSUME TypeInv, [Next]_vars PROVE TypeInv'
    OBVIOUS
  <1> USE DEF TypeInv, TypeOK, ControlOK, rows, control, hosts, Goto, Return, Abort
  <1>1. ASSUME NEW c \in Cycles, SelectStale(c) PROVE TypeInv'
    BY <1>1 DEF SelectStale, Stale, Points
  <1>2. ASSUME NEW c \in Cycles, RecoverStale(c) PROVE TypeInv'
    <2>1. SetTo(status, todo[c], "PLACEMENT_READY") \in [Tasks -> TaskStatus]
      BY SetToType DEF TaskStatus
    <2>2. QED
      BY <1>2, <2>1 DEF RecoverStale, Points
  <1>3. ASSUME NEW c \in Cycles, ListTasks(c) PROVE TypeInv'
    BY <1>3 DEF ListTasks, Points
  <1>4. ASSUME NEW c \in Cycles, EndCycle(c) PROVE TypeInv'
    BY <1>4 DEF EndCycle, Points
  <1>5. ASSUME NEW c \in Cycles, Lock(c) PROVE TypeInv'
    BY <1>5 DEF Lock, Points, TaskStatus
  <1>6. ASSUME NEW c \in Cycles, LoadEntities(c) PROVE TypeInv'
    <2>1. NextPoint(cur[c]) \in {"mark", "call", "allocate", "enrich"}
      BY DEF NextPoint
    <2>2. QED
      BY <1>6, <2>1 DEF LoadEntities, Points
  <1>7. ASSUME NEW c \in Cycles, AlreadyReady(c) PROVE TypeInv'
    BY <1>7 DEF AlreadyReady, Points, TaskStatus
  <1>8. ASSUME NEW c \in Cycles, Allocate(c) PROVE TypeInv'
    BY <1>8, ScopeType DEF Allocate, Points
  <1>9. ASSUME NEW c \in Cycles, Enrich(c) PROVE TypeInv'
    BY <1>9 DEF Enrich, Points
  <1>10. ASSUME NEW c \in Cycles, CallDriver(c) PROVE TypeInv'
    BY <1>10 DEF CallDriver, Points
  <1>11. ASSUME NEW c \in Cycles, HandleSuccess(c) PROVE TypeInv'
    <2>1. SetTo(status, TaskScope(cur[c]), "READY") \in [Tasks -> TaskStatus]
      BY SetToType DEF TaskStatus
    <2>2. SetTo(vmStatus, VmScope(cur[c]), "READY") \in [VMs -> VmStatus]
      BY SetToType DEF VmStatus
    <2>3. QED
      BY <1>11, <2>1, <2>2 DEF HandleSuccess, Answered, Points
  <1>12. ASSUME NEW c \in Cycles, HandleFailure(c) PROVE TypeInv'
    <2>1. SetTo(status, TaskScope(cur[c]) \ failedBy[c], "FAILED") \in [Tasks -> TaskStatus]
      BY SetToType DEF TaskStatus
    <2>2. SetTo(vmStatus, VmScope(cur[c]), "FAILED") \in [VMs -> VmStatus]
      BY SetToType DEF VmStatus
    <2>3. cur[c] \in Tasks /\ TaskScope(cur[c]) \subseteq Tasks
      BY <1>12, ScopeType DEF HandleFailure
    <2>4. [status EXCEPT ![cur[c]] = "FAILED"] \in [Tasks -> TaskStatus]
      BY DEF TaskStatus
    <2>5. failedBy' \in [Cycles -> SUBSET Tasks]
      BY <1>12, <2>3 DEF HandleFailure
    <2>6. CASE Abort(c)
      BY <1>12, <2>6 DEF HandleFailure, Points
    <2>7. CASE Live(cur[c]) /\ SliceOf(cur[c]) \notin OpenStack
      BY <1>12, <2>4, <2>5, <2>7 DEF HandleFailure, Points
    <2>8. CASE SliceOf(cur[c]) \in OpenStack
      <3>1. CASE Live(cur[c])
        <4>1. /\ pc' = [pc EXCEPT ![c] = "report"] /\ job' = [job EXCEPT ![c] = "none"]
              /\ status' = SetTo(status, TaskScope(cur[c]) \ failedBy[c], "FAILED")
              /\ vmStatus' = SetTo(vmStatus, VmScope(cur[c]), "FAILED") /\ old' = old \ TaskScope(cur[c])
              /\ UNCHANGED <<slices, wired, vlan, todo, cur, hosts, again, netFailed, crashes>>
          BY ONLY <1>12, <2>8, <3>1 DEF HandleFailure, Goto
        <4>2. QED
          BY <1>12, <2>1, <2>2, <2>3, <2>5, <4>1 DEF HandleFailure, Points
      <3>2. CASE ~Live(cur[c])
        BY <1>12, <2>3, <2>5, <2>8, <3>2 DEF HandleFailure, Points
      <3>3. QED
        BY <3>1, <3>2
    <2>9. QED
      BY <1>12, <2>6, <2>7, <2>8 DEF HandleFailure
  <1>13. ASSUME NEW c \in Cycles, ReportFailure(c) \/ RequestBreaks(c) PROVE TypeInv'
    BY <1>13 DEF ReportFailure, RequestBreaks, Points, TaskStatus
  <1>14. ASSUME NEW c \in Cycles, DriverEnds(c) PROVE TypeInv'
    BY <1>14, ScopeType DEF DriverEnds
  <1>15. ASSUME NEW t \in Tasks, OrphanEnds(t) \/ Age(t) \/ PlaceTask(t) PROVE TypeInv'
    BY <1>15, ScopeType DEF OrphanEnds, Age, PlaceTask, TaskStatus
  <1>16. CASE Crash
    <2>1. \A c \in Cycles : job[c] = "running" => cur[c] \in Tasks
      OBVIOUS
    <2>2. orphans' \subseteq Tasks
      BY <1>16, <2>1 DEF Crash
    <2>3. crashes' \in 0..MaxCrashes
      BY <1>16, ParamsAssumption DEF Crash
    <2>4. QED
      BY <1>16, <2>2, <2>3 DEF Crash, Points
  <1>17. ASSUME NEW s \in Slices, DeleteSlice(s) PROVE TypeInv'
    BY <1>17 DEF DeleteSlice
  <1>18. CASE UNCHANGED vars
    BY <1>18 DEF vars
  <1>19. QED
    BY <1>1, <1>2, <1>3, <1>4, <1>5, <1>6, <1>7, <1>8, <1>9, <1>10, <1>11, <1>12,
       <1>13, <1>14, <1>15, <1>16, <1>17, <1>18 DEF Next, Cycle

\* Every reachable state is well typed, and the control of each cycle is in order.
LEMMA TypeInvariant == Spec => []TypeInv
  BY TypeInit, TypeNext, PTL DEF Spec

\* The rows, the cycles and the driver jobs keep their types however cycles,
\* crashes and deletions interleave.
THEOREM TypeCorrect == Spec => []TypeOK
  <1>1. TypeInv => TypeOK
    BY DEF TypeInv
  <1>2. QED
    BY <1>1, TypeInvariant, PTL
-----------------------------------------------------------------------------
\* A cycle that has heard "ok" knows that the VMs of its request are built.
OkMeansBuilt ==
  \A c \in Cycles : job[c] = "ok" => VmScope(cur[c]) \subseteq built

BuiltInv == ReadyVmWasBuilt /\ OkMeansBuilt

LEMMA BuiltInit == Init => BuiltInv
  BY ParamsAssumption DEF Init, BuiltInv, ReadyVmWasBuilt, OkMeansBuilt

LEMMA BuiltNext == TypeInv /\ BuiltInv /\ [Next]_vars => BuiltInv'
  <1> SUFFICES ASSUME TypeInv, BuiltInv, [Next]_vars PROVE BuiltInv'
    OBVIOUS
  <1> USE DEF BuiltInv, ReadyVmWasBuilt, OkMeansBuilt, VmScope, SliceOf, SliceVms
  <1>1. ASSUME NEW c \in Cycles, HandleSuccess(c) PROVE BuiltInv'
    <2>1. VmScope(cur[c]) \subseteq built
      BY <1>1 DEF HandleSuccess, Answered
    <2>2. \A v \in VMs : vmStatus'[v] = "READY" => vmStatus[v] = "READY" \/ v \in VmScope(cur[c])
      BY <1>1 DEF HandleSuccess, SetTo, rows, Abort, Return, TypeInv, TypeOK
    <2>3. \A d \in Cycles : job'[d] = "ok" => job[d] = "ok" /\ cur'[d] = cur[d]
      BY <1>1 DEF HandleSuccess, Return, Abort, TypeInv, TypeOK
    <2>4. slices' = slices /\ built' = built
      BY <1>1 DEF HandleSuccess, Abort, rows, hosts
    <2>5. QED
      BY <2>1, <2>2, <2>3, <2>4
  <1>2. ASSUME NEW c \in Cycles, HandleFailure(c) PROVE BuiltInv'
    <2>1. \A v \in VMs : vmStatus'[v] = "READY" => vmStatus[v] = "READY"
      BY <1>2 DEF HandleFailure, SetTo, rows, Abort, Return, TypeInv, TypeOK
    <2>2. \A d \in Cycles : job'[d] = "ok" => job[d] = "ok" /\ cur'[d] = cur[d]
      BY <1>2 DEF HandleFailure, Return, Abort, TypeInv, TypeOK
    <2>3. slices' = slices /\ built' = built
      BY <1>2 DEF HandleFailure, Abort, rows, hosts
    <2>4. QED
      BY <2>1, <2>2, <2>3
  <1>3. ASSUME NEW c \in Cycles, DriverEnds(c) PROVE BuiltInv'
    BY <1>3 DEF DriverEnds, rows, TypeInv, TypeOK
  <1>4. ASSUME NEW c \in Cycles,
               \/ SelectStale(c) \/ RecoverStale(c) \/ ListTasks(c) \/ EndCycle(c)
               \/ LoadEntities(c) \/ AlreadyReady(c) \/ Allocate(c) \/ Enrich(c)
               \/ ReportFailure(c)
        PROVE  BuiltInv'
    <2>1. vmStatus' = vmStatus /\ slices' = slices /\ built' = built
      BY <1>4 DEF SelectStale, RecoverStale, ListTasks, EndCycle, LoadEntities,
           AlreadyReady, Allocate, Enrich, ReportFailure, Abort, Return, rows, hosts
    <2>2. \A d \in Cycles : job'[d] = "ok" => job[d] = "ok" /\ cur'[d] = cur[d]
      BY <1>4 DEF SelectStale, RecoverStale, ListTasks, EndCycle, LoadEntities,
           AlreadyReady, Allocate, Enrich, ReportFailure, Abort, Return, TypeInv, TypeOK, ControlOK
    <2>3. QED
      BY <2>1, <2>2
  <1>5. ASSUME NEW c \in Cycles, Lock(c) \/ CallDriver(c) \/ RequestBreaks(c)
        PROVE  BuiltInv'
    <2>1. vmStatus' = vmStatus /\ slices' = slices /\ built' = built
      BY <1>5 DEF Lock, CallDriver, RequestBreaks, Abort, Return, rows, hosts
    <2>2. \A d \in Cycles : job'[d] = "ok" => job[d] = "ok" /\ cur'[d] = cur[d]
      BY <1>5 DEF Lock, CallDriver, RequestBreaks, Abort, Return, TypeInv, TypeOK, ControlOK
    <2>3. QED
      BY <2>1, <2>2
  <1>6. ASSUME NEW t \in Tasks, OrphanEnds(t) \/ Age(t) \/ PlaceTask(t) PROVE BuiltInv'
    BY <1>6 DEF OrphanEnds, Age, PlaceTask, rows, control, hosts
  <1>7. CASE Crash
    BY <1>7 DEF Crash, rows
  <1>8. ASSUME NEW s \in Slices, DeleteSlice(s) PROVE BuiltInv'
    BY <1>8 DEF DeleteSlice, control, hosts
  <1>9. CASE UNCHANGED vars
    BY <1>9 DEF vars, rows, control, hosts
  <1>10. QED
    BY <1>1, <1>2, <1>3, <1>4, <1>5, <1>6, <1>7, <1>8, <1>9 DEF Next, Cycle

\* However many cycles run side by side, and whatever times out, crashes or
\* is retried, the database calls a VM READY only after a driver built it.
THEOREM ReadyIsBuilt == Spec => []ReadyVmWasBuilt
  <1>1. BuiltInv => ReadyVmWasBuilt
    BY DEF BuiltInv
  <1>2. QED
    BY <1>1, TypeInvariant, BuiltInit, BuiltNext, PTL DEF Spec
-----------------------------------------------------------------------------
(***************************************************************************)
(* The polling loop alone implements VmContract.  What has to be known: an *)
(* OpenStack slice has one status for all its VMs, and a cycle that is     *)
(* about to provision one has seen it not READY.                           *)
(***************************************************************************)
OneCycle == \A c, d \in Cycles : c = d

Uniform ==
  \A v, w \in VMs : VmSlice[v] = VmSlice[w] /\ VmSlice[v] \in OpenStack
                      => vmStatus[v] = vmStatus[w]

NotYetReady ==
  \A c \in Cycles :
    pc[c] \in {"call", "wait"} /\ SliceOf(cur[c]) \in OpenStack
      => vmStatus[TaskVm[cur[c]]] # "READY"

EnrichIsLinux ==
  \A c \in Cycles : pc[c] \in {"allocate", "enrich"} => SliceOf(cur[c]) \notin OpenStack

LoopInv == Uniform /\ NotYetReady /\ EnrichIsLinux

LEMMA LoopInit == Init => LoopInv
  BY ParamsAssumption DEF Init, LoopInv, Uniform, NotYetReady, EnrichIsLinux

LEMMA LoopNext == OneCycle /\ TypeInv /\ LoopInv /\ [Next]_vars => LoopInv'
  <1> SUFFICES ASSUME OneCycle, TypeInv, LoopInv, [Next]_vars PROVE LoopInv'
    OBVIOUS
  <1> USE DEF LoopInv, Uniform, NotYetReady, EnrichIsLinux, SliceOf, OneCycle
  <1>1. ASSUME NEW c \in Cycles, HandleSuccess(c) \/ HandleFailure(c) PROVE LoopInv'
    <2>1. \A d \in Cycles : pc'[d] \notin {"call", "wait", "allocate", "enrich"}
      BY <1>1 DEF HandleSuccess, HandleFailure, Return, Abort, Goto, TypeInv, TypeOK
    <2>2. cur[c] \in Tasks
      BY <1>1 DEF HandleSuccess, HandleFailure, Answered, TypeInv, ControlOK
    <2>3. CASE vmStatus' = vmStatus
      BY <2>1, <2>3
    <2>4. CASE \E x \in VmStatus : vmStatus' = SetTo(vmStatus, VmScope(cur[c]), x)
      <3>1. Uniform'
        BY <2>2, <2>4, ParamsAssumption
           DEF SetTo, VmScope, SliceVms, TypeInv, TypeOK
      <3>2. QED
        BY <2>1, <3>1
    <2>5. QED
      BY <1>1, <2>3, <2>4 DEF HandleSuccess, HandleFailure, Return, Abort, rows, VmStatus
  <1>2. ASSUME NEW c \in Cycles, LoadEntities(c) PROVE LoopInv'
    <2>1. \/ vmStatus' = vmStatus /\ cur' = cur
          \/ Abort(c)
      BY <1>2 DEF LoadEntities, rows
    <2>2. CASE Abort(c)
      BY <2>2 DEF Abort, Goto, rows, TypeInv, TypeOK
    <2>3. CASE pc' = [pc EXCEPT ![c] = NextPoint(cur[c])] /\ vmStatus' = vmStatus /\ cur' = cur
      BY <2>3 DEF NextPoint, TypeInv, TypeOK
    <2>4. QED
      BY <1>2, <2>1, <2>2, <2>3 DEF LoadEntities, Goto, rows
  <1>3. ASSUME NEW c \in Cycles,
               \/ SelectStale(c) \/ RecoverStale(c) \/ ListTasks(c) \/ EndCycle(c)
               \/ Lock(c) \/ AlreadyReady(c) \/ ReportFailure(c) \/ RequestBreaks(c)
        PROVE  LoopInv'
    <2>1. vmStatus' = vmStatus
      BY <1>3 DEF SelectStale, RecoverStale, ListTasks, EndCycle, Lock, AlreadyReady,
           ReportFailure, RequestBreaks, Abort, Return, rows
    <2>2. \A d \in Cycles : pc'[d] \notin {"call", "wait", "allocate", "enrich"}
      BY <1>3 DEF SelectStale, RecoverStale, ListTasks, EndCycle, Lock, AlreadyReady,
           ReportFailure, RequestBreaks, Abort, Return, Goto, TypeInv, TypeOK
    <2>3. QED
      BY <2>1, <2>2
  <1>4. ASSUME NEW c \in Cycles, Allocate(c) \/ Enrich(c) PROVE LoopInv'
    <2>1. vmStatus' = vmStatus /\ SliceOf(cur[c]) \notin OpenStack
      BY <1>4 DEF Allocate, Enrich, Abort, rows
    <2>2. \A d \in Cycles :
            \/ pc'[d] = "idle"
            \/ pc'[d] \in {"enrich", "call"} /\ cur'[d] = cur[c]
      BY <1>4 DEF Allocate, Enrich, Abort, Goto, TypeInv, TypeOK
    <2>3. QED
      BY <2>1, <2>2
  <1>5. ASSUME NEW c \in Cycles, CallDriver(c) \/ DriverEnds(c) PROVE LoopInv'
    BY <1>5 DEF CallDriver, DriverEnds, Goto, rows, TypeInv, TypeOK
  <1>6. ASSUME NEW t \in Tasks, OrphanEnds(t) \/ Age(t) \/ PlaceTask(t) PROVE LoopInv'
    BY <1>6 DEF OrphanEnds, Age, PlaceTask, rows, control
  <1>7. CASE Crash
    BY <1>7 DEF Crash, rows
  <1>8. ASSUME NEW s \in Slices, DeleteSlice(s) PROVE LoopInv'
    BY <1>8 DEF DeleteSlice, control
  <1>9. CASE UNCHANGED vars
    BY <1>9 DEF vars, rows, control
  <1>10. QED
    BY <1>1, <1>2, <1>3, <1>4, <1>5, <1>6, <1>7, <1>8, <1>9 DEF Next, Cycle

\* Every step of the loop is a step of the contract, or changes nothing in it.
LEMMA LoopStep ==
  OneCycle /\ TypeInv /\ BuiltInv /\ LoopInv /\ [Next]_vars
    => [Contract!Next]_<<[v \in VMs |-> IF VmSlice[v] \in slices THEN vmStatus[v] ELSE "GONE"], built>>
  <1> DEFINE out == [v \in VMs |-> IF VmSlice[v] \in slices THEN vmStatus[v] ELSE "GONE"]
  <1> SUFFICES ASSUME OneCycle, TypeInv, BuiltInv, LoopInv, [Next]_vars
               PROVE  Contract!Next \/ (out' = out /\ built' = built)
    OBVIOUS
  <1> USE DEF Contract!Next, Contract!Become
  <1>1. ASSUME NEW c \in Cycles, HandleSuccess(c)
        PROVE  Contract!Next \/ (out' = out /\ built' = built)
    <2>1. cur[c] \in Tasks /\ VmScope(cur[c]) \subseteq built /\ built' = built
      BY <1>1 DEF HandleSuccess, Answered, TypeInv, ControlOK, BuiltInv, OkMeansBuilt, hosts
    <2>2. CASE Live(cur[c])
      <3>1. /\ slices' = slices
            /\ vmStatus' = SetTo(vmStatus, VmScope(cur[c]), "READY")
        BY <1>1, <2>2 DEF HandleSuccess, Abort
      <3>2. \A v \in VmScope(cur[c]) : v \in VMs /\ VmSlice[v] \in slices
        BY <2>1, <2>2, ScopeType DEF Live, VmScope, SliceVms, SliceOf
      <3>3. Contract!Publish(VmScope(cur[c]))
        BY <2>1, <3>1, <3>2 DEF Contract!Publish, SetTo, TypeInv, TypeOK, VmStatus
      <3>4. VmScope(cur[c]) \in SUBSET VMs
        BY <2>1, ScopeType
      <3>5. QED
        BY <3>3, <3>4 DEF Contract!Publish
    <2>3. CASE ~Live(cur[c])
      BY <1>1, <2>1, <2>3 DEF HandleSuccess, Abort, rows
    <2>4. QED
      BY <2>2, <2>3
  <1>2. ASSUME NEW c \in Cycles, HandleFailure(c)
        PROVE  Contract!Next \/ (out' = out /\ built' = built)
    <2>1. cur[c] \in Tasks /\ built' = built /\ pc[c] = "wait"
      BY <1>2 DEF HandleFailure, TypeInv, ControlOK, hosts
    <2>2. CASE Live(cur[c]) /\ SliceOf(cur[c]) \in OpenStack
      <3>1. /\ slices' = slices
            /\ vmStatus' = SetTo(vmStatus, VmScope(cur[c]), "FAILED")
        BY <1>2, <2>2 DEF HandleFailure, Abort
      <3>2. \A v \in VmScope(cur[c]) :
              v \in VMs /\ VmSlice[v] \in slices /\ VmSlice[v] = SliceOf(cur[c])
        BY <2>1, <2>2, ScopeType DEF Live, VmScope, SliceVms
      <3>3. \A v \in VmScope(cur[c]) : vmStatus[v] # "READY"
        BY <2>1, <2>2, <3>2, ParamsAssumption
           DEF LoopInv, Uniform, NotYetReady, SliceOf
      <3>4. Contract!Fail(VmScope(cur[c]))
        BY <2>1, <3>1, <3>2, <3>3 DEF Contract!Fail, SetTo, TypeInv, TypeOK, VmStatus
      <3>5. VmScope(cur[c]) \in SUBSET VMs
        BY <2>1, ScopeType
      <3>6. QED
        BY <3>4, <3>5 DEF Contract!Fail
    <2>3. CASE ~(Live(cur[c]) /\ SliceOf(cur[c]) \in OpenStack)
      BY <1>2, <2>1, <2>3 DEF HandleFailure, Abort, rows
    <2>4. QED
      BY <2>2, <2>3
  <1>3. ASSUME NEW c \in Cycles, DriverEnds(c)
        PROVE  Contract!Next \/ (out' = out /\ built' = built)
    <2>1. cur[c] \in Tasks /\ out' = out
      BY <1>3 DEF DriverEnds, TypeInv, ControlOK, rows
    <2>2. built' = built \/ built' = built \cup VmScope(cur[c])
      BY <1>3 DEF DriverEnds
    <2>3. QED
      BY <2>1, <2>2, ScopeType DEF Contract!Build
  <1>4. ASSUME NEW c \in Cycles, Cycle(c), ~HandleSuccess(c), ~HandleFailure(c)
        PROVE  out' = out /\ built' = built
    BY <1>4 DEF Cycle, SelectStale, RecoverStale, ListTasks, EndCycle, Lock, LoadEntities,
         AlreadyReady, Allocate, Enrich, CallDriver, ReportFailure, RequestBreaks, Abort, rows, hosts
  <1>5. ASSUME NEW t \in Tasks, OrphanEnds(t)
        PROVE  Contract!Next \/ (out' = out /\ built' = built)
    <2>1. out' = out
      BY <1>5 DEF OrphanEnds, rows
    <2>2. built' = built \/ built' = built \cup VmScope(t)
      BY <1>5 DEF OrphanEnds
    <2>3. QED
      BY <2>1, <2>2, ScopeType DEF Contract!Build
  <1>6. ASSUME NEW t \in Tasks, Age(t) \/ PlaceTask(t)
        PROVE  out' = out /\ built' = built
    BY <1>6 DEF Age, PlaceTask, hosts
  <1>7. ASSUME Crash
        PROVE  out' = out /\ built' = built
    BY <1>7 DEF Crash, rows
  <1>8. ASSUME NEW s \in Slices, DeleteSlice(s)
        PROVE  Contract!Next \/ (out' = out /\ built' = built)
    <2>1. slices' = slices \ {s} /\ vmStatus' = vmStatus /\ built' = built
      BY <1>8 DEF DeleteSlice, hosts
    <2>2. out' = [v \in VMs |-> IF v \in SliceVms(s) THEN "GONE" ELSE out[v]]
      BY <2>1 DEF SliceVms
    <2>3. Contract!Remove(SliceVms(s))
      BY <2>1, <2>2 DEF Contract!Remove
    <2>4. QED
      BY <2>3 DEF SliceVms
  <1>9. CASE UNCHANGED vars
    BY <1>9 DEF vars, rows, hosts
  <1>10. QED
    BY <1>1, <1>2, <1>3, <1>4, <1>5, <1>6, <1>7, <1>8, <1>9 DEF Next

\* With one cycle at a time (the polling loop, nobody calling the trigger
\* endpoint), no crash, timeout, stale recovery or second task of a slice
\* takes a READY VM back, and none is published before it is built.
THEOREM LoopImplementsContract ==
  ASSUME OneCycle
  PROVE  Spec => ImplementsVmContract
  <1> DEFINE out == [v \in VMs |-> IF VmSlice[v] \in slices THEN vmStatus[v] ELSE "GONE"]
  <1>1. Init => Contract!Init
    BY ParamsAssumption DEF Init, Contract!Init
  <1>2. OneCycle
    OBVIOUS
  <1>3. LoopInv /\ TypeInv /\ [Next]_vars => LoopInv'
    BY <1>2, LoopNext
  <1>4. TypeInv /\ BuiltInv /\ LoopInv /\ [Next]_vars => [Contract!Next]_<<out, built>>
    BY <1>2, LoopStep
  <1>5. QED
    BY <1>1, <1>3, <1>4, LoopInit, BuiltInit, BuiltNext, TypeInit, TypeNext, PTL
       DEF Spec, ImplementsVmContract, Contract!Spec
-----------------------------------------------------------------------------
(***************************************************************************)
(* Interfaces.  A Linux task of a slice with links passes the enrichment   *)
(* with its interfaces, or after a failure of Networking.                  *)
(***************************************************************************)
Enriched(t) == SliceOf(t) \in Linked \ OpenStack => t \in wired \/ SliceOf(t) \in netFailed

WiringInv ==
  \A c \in Cycles :
    /\ pc[c] = "mark" => SliceOf(cur[c]) \in OpenStack
    /\ pc[c] = "enrich" /\ SliceOf(cur[c]) \in Linked => SliceOf(cur[c]) \in vlan \cup netFailed
    /\ pc[c] \in {"call", "wait"} => Enriched(cur[c])

\* Interfaces, labels and failures are only added.
LEMMA WiringGrows ==
  ASSUME [Next]_vars
  PROVE  wired \subseteq wired' /\ vlan \subseteq vlan' /\ netFailed \subseteq netFailed'
  <1>1. ASSUME NEW c \in Cycles, Cycle(c) PROVE wired \subseteq wired' /\ vlan \subseteq vlan' /\ netFailed \subseteq netFailed'
    BY <1>1 DEF Cycle, SelectStale, RecoverStale, ListTasks, EndCycle, Lock, LoadEntities, AlreadyReady,
         Allocate, Enrich, CallDriver, HandleSuccess, HandleFailure, ReportFailure, RequestBreaks, Abort, rows
  <1>2. QED
    BY <1>1 DEF Next, DriverEnds, OrphanEnds, Age, PlaceTask, Crash, DeleteSlice, vars, rows

LEMMA WiringNext == TypeInv /\ WiringInv /\ [Next]_vars => WiringInv'
  <1> SUFFICES ASSUME TypeInv, WiringInv, [Next]_vars PROVE WiringInv'
    OBVIOUS
  <1> USE WiringGrows DEF WiringInv, Enriched
  <1>1. ASSUME NEW c \in Cycles, LoadEntities(c) PROVE WiringInv'
    <2>1. CASE Abort(c)
      BY <2>1 DEF Abort, Goto, TypeInv, TypeOK
    <2>2. CASE pc' = [pc EXCEPT ![c] = NextPoint(cur[c])] /\ cur' = cur
      BY <2>2 DEF NextPoint, TypeInv, TypeOK
    <2>3. QED
      BY <1>1, <2>1, <2>2 DEF LoadEntities, Goto
  <1>2. ASSUME NEW c \in Cycles, Allocate(c) PROVE WiringInv'
    <2>1. CASE Abort(c)
      BY <2>1 DEF Abort, Goto, TypeInv, TypeOK
    <2>2. CASE /\ pc' = [pc EXCEPT ![c] = "enrich"] /\ cur' = cur
               /\ SliceOf(cur[c]) \in vlan' \cup netFailed'
      BY <2>2 DEF TypeInv, TypeOK
    <2>3. QED
      BY <1>2, <2>1, <2>2 DEF Allocate, Goto
  <1>3. ASSUME NEW c \in Cycles, Enrich(c) PROVE WiringInv'
    <2>1. CASE Abort(c)
      BY <2>1 DEF Abort, Goto, TypeInv, TypeOK
    <2>2. CASE /\ pc' = [pc EXCEPT ![c] = "call"] /\ cur' = cur /\ pc[c] = "enrich"
               /\ SliceOf(cur[c]) \in vlan => cur[c] \in wired'
      BY <2>2 DEF TypeInv, TypeOK
    <2>3. QED
      BY <1>3, <2>1, <2>2 DEF Enrich, Goto
  <1>4. ASSUME NEW c \in Cycles, CallDriver(c) \/ DriverEnds(c) PROVE WiringInv'
    BY <1>4 DEF CallDriver, DriverEnds, Goto, TypeInv, TypeOK
  <1>5. ASSUME NEW c \in Cycles,
               \/ SelectStale(c) \/ RecoverStale(c) \/ ListTasks(c) \/ EndCycle(c) \/ Lock(c)
               \/ AlreadyReady(c) \/ HandleSuccess(c) \/ HandleFailure(c) \/ ReportFailure(c)
               \/ RequestBreaks(c)
        PROVE  WiringInv'
    <2>1. /\ pc'[c] \notin {"mark", "enrich", "call", "wait"}
          /\ \A d \in Cycles \ {c} : pc'[d] = pc[d] /\ cur'[d] = cur[d]
      BY <1>5 DEF SelectStale, RecoverStale, ListTasks, EndCycle, Lock, AlreadyReady, HandleSuccess,
           HandleFailure, ReportFailure, RequestBreaks, Abort, Return, Goto, TypeInv, TypeOK
    <2>2. QED
      BY <2>1
  <1>6. CASE Crash
    BY <1>6 DEF Crash
  <1>7. ASSUME UNCHANGED control PROVE WiringInv'
    BY <1>7 DEF control
  <1>8. QED
    BY <1>1, <1>2, <1>3, <1>4, <1>5, <1>6, <1>7 DEF Next, Cycle, OrphanEnds, Age, PlaceTask, DeleteSlice, vars

\* Only a Linux outcome, or OpenStack's own, makes a task READY.
LEMMA UnwiredNext ==
  TypeInv /\ WiringInv /\ UnwiredOnlyIfNetworkingFailed /\ [Next]_vars => UnwiredOnlyIfNetworkingFailed'
  <1> SUFFICES ASSUME TypeInv, WiringInv, UnwiredOnlyIfNetworkingFailed, [Next]_vars, NEW t \in Tasks,
                      status'[t] = "READY", SliceOf(t) \in Linked \ OpenStack
               PROVE  t \in wired' \/ SliceOf(t) \in netFailed'
    BY DEF UnwiredOnlyIfNetworkingFailed, SliceOf
  <1> USE DEF SliceOf
  <1>1. CASE status[t] = "READY"
    BY <1>1, WiringGrows DEF UnwiredOnlyIfNetworkingFailed
  <1>2. CASE status[t] # "READY"
    <2>1. ASSUME NEW c \in Cycles, HandleSuccess(c)
          PROVE  t = cur[c] /\ pc[c] = "wait"
      BY <1>2, <2>1 DEF HandleSuccess, Answered, TaskScope, SliceTasks, SetTo, Abort, rows, TypeInv, TypeOK
    <2>2. ASSUME NEW c \in Cycles, AlreadyReady(c)
          PROVE  FALSE
      BY <1>2, <2>2 DEF AlreadyReady, WiringInv, Abort, rows, TypeInv, TypeOK
    <2>3. ASSUME NEW c \in Cycles, Cycle(c), ~HandleSuccess(c), ~AlreadyReady(c)
          PROVE  FALSE
      BY <1>2, <2>3 DEF Cycle, SelectStale, RecoverStale, ListTasks, EndCycle, Lock, LoadEntities,
           Allocate, Enrich, CallDriver, HandleFailure, ReportFailure, RequestBreaks, Abort, SetTo, rows, TypeInv, TypeOK
    <2>4. PICK c \in Cycles : HandleSuccess(c)
      BY <1>2, <2>2, <2>3 DEF Next, DriverEnds, OrphanEnds, Age, PlaceTask, Crash, DeleteSlice, vars, rows, TypeInv, TypeOK
    <2>5. QED
      BY <2>1, <2>4, WiringGrows DEF WiringInv, Enriched
  <1>3. QED
    BY <1>1, <1>2

\* However cycles, crashes and retries interleave, a Linux VM of a slice with links
\* comes up without its interfaces only after Networking has failed for the slice.
THEOREM UnwiredIsExcused == Spec => []UnwiredOnlyIfNetworkingFailed
  <1>1. Init => WiringInv /\ UnwiredOnlyIfNetworkingFailed
    BY DEF Init, WiringInv, UnwiredOnlyIfNetworkingFailed
  <1>2. QED
    BY <1>1, TypeInit, TypeNext, WiringNext, UnwiredNext, PTL DEF Spec
-----------------------------------------------------------------------------
(***************************************************************************)
(* Outcomes.  With one cycle, a Linux VM is READY only with its task, so a  *)
(* task that is listed, recovered or dispatched has no READY Linux VM,     *)
(* unless an overlapping placement trigger has released it again.          *)
(***************************************************************************)
\* One activation gives each VM one CREATE_VM task (slices.py, _activate_linux_slice).
OneTaskEach == \A t, u \in Tasks : TaskVm[t] = TaskVm[u] => t = u

Linux(t) == SliceOf(t) \notin OpenStack

Dispatching == {"load", "mark", "allocate", "enrich", "call", "wait"}

StoryInv ==
  /\ \A c \in Cycles :
       /\ pc[c] \in Dispatching /\ cur[c] \notin again => status[cur[c]] = "IN_PROGRESS"
       /\ pc[c] = "mark" => ~Linux(cur[c]) /\ vmStatus[TaskVm[cur[c]]] = "READY"
       /\ pc[c] = "recover" => \A t \in todo[c] \ again : status[t] = "IN_PROGRESS"
       /\ pc[c] \in Dispatching \cup {"next", "report"} =>
            \A t \in todo[c] \ again : Linux(t) => status[t] = "PLACEMENT_READY"
  /\ \A t \in Tasks \ again : Linux(t) /\ vmStatus[TaskVm[t]] = "READY" => status[t] = "READY"
  /\ OutcomesAgree

LEMMA ScopesMatch ==
  ASSUME OneTaskEach, NEW u \in Tasks
  PROVE  \A t \in Tasks : t \in TaskScope(u) <=> TaskVm[t] \in VmScope(u)
  <1>1. CASE SliceOf(u) \in OpenStack
    BY <1>1, ParamsAssumption DEF TaskScope, VmScope, SliceTasks, SliceVms, SliceOf
  <1>2. CASE SliceOf(u) \notin OpenStack
    BY <1>2 DEF TaskScope, VmScope, OneTaskEach
  <1>3. QED
    BY <1>1, <1>2

LEMMA StoryNext ==
  ASSUME OneCycle, OneTaskEach
  PROVE  TypeInv /\ LoopInv /\ StoryInv /\ [Next]_vars => StoryInv'
  <1> SUFFICES ASSUME TypeInv, LoopInv, StoryInv, [Next]_vars PROVE StoryInv'
    OBVIOUS
  <1> USE DEF StoryInv, OutcomesAgree, Live, Linux, SliceOf, Dispatching, TypeInv, TypeOK, ControlOK, OneCycle
  <1>1. ASSUME NEW c \in Cycles, HandleSuccess(c) PROVE StoryInv'
    <2>1. cur[c] \in Tasks /\ slices' = slices /\ again' = again /\ pc[c] = "wait"
      BY <1>1 DEF HandleSuccess, Answered, Abort, rows
    <2>2. CASE /\ Live(cur[c]) /\ Return(c)
               /\ status' = SetTo(status, TaskScope(cur[c]), "READY")
               /\ vmStatus' = SetTo(vmStatus, VmScope(cur[c]), "READY")
      <3>1. \A t \in Tasks : t \in TaskScope(cur[c]) <=> TaskVm[t] \in VmScope(cur[c])
        BY <2>1, ScopesMatch
      <3>2. \A t \in Tasks : /\ status'[t] = (IF t \in TaskScope(cur[c]) THEN "READY" ELSE status[t])
                              /\ vmStatus'[TaskVm[t]] = (IF t \in TaskScope(cur[c]) THEN "READY" ELSE vmStatus[TaskVm[t]])
        BY <2>2, <3>1, ParamsAssumption DEF SetTo
      <3>3. pc' = [pc EXCEPT ![c] = "next"] /\ todo' = todo
        BY <2>2 DEF Return, Goto
      <3>4. \A t \in todo[c] \ again : Linux(t) => status'[t] = "PLACEMENT_READY"
        BY <2>1, <3>2, <3>3 DEF TaskScope, SliceTasks
      <3>5. QED
        BY <2>1, <3>2, <3>3, <3>4
    <2>3. CASE UNCHANGED rows /\ (Return(c) \/ Abort(c))
      BY <2>1, <2>3 DEF Return, Abort, Goto, rows
    <2>4. QED
      BY <1>1, <2>2, <2>3 DEF HandleSuccess, Abort
  <1>2. ASSUME NEW c \in Cycles, HandleFailure(c) PROVE StoryInv'
    <2>1. cur[c] \in Tasks /\ slices' = slices /\ again' = again /\ pc[c] = "wait"
      BY <1>2 DEF HandleFailure, Abort, rows
    <2>2. CASE /\ Live(cur[c]) /\ Goto(c, "report") /\ ~Linux(cur[c]) /\ UNCHANGED <<todo, cur>>
               /\ status' = SetTo(status, TaskScope(cur[c]) \ failedBy[c], "FAILED")
               /\ vmStatus' = SetTo(vmStatus, VmScope(cur[c]), "FAILED")
      <3>1. \A t \in Tasks : t \in TaskScope(cur[c]) <=> TaskVm[t] \in VmScope(cur[c])
        BY <2>1, ScopesMatch
      <3>2. \A t \in TaskScope(cur[c]) : t \in Tasks /\ Live(t) /\ vmStatus[TaskVm[t]] # "READY"
        <4>1. \A t \in TaskScope(cur[c]) : t \in Tasks /\ SliceOf(t) = SliceOf(cur[c])
          BY <2>1, <2>2 DEF TaskScope, SliceTasks
        <4>2. vmStatus[TaskVm[cur[c]]] # "READY"
          BY <2>1, <2>2 DEF LoopInv, NotYetReady
        <4>3. ASSUME NEW t \in TaskScope(cur[c])
              PROVE  vmStatus[TaskVm[t]] = vmStatus[TaskVm[cur[c]]]
          <5>1. TaskVm[t] \in VMs /\ TaskVm[cur[c]] \in VMs /\ VmSlice[TaskVm[t]] = VmSlice[TaskVm[cur[c]]]
            <6>1. t \in Tasks /\ cur[c] \in Tasks /\ SliceOf(t) = SliceOf(cur[c])
              BY <2>1, <4>1
            <6>2. QED
              BY ONLY <6>1, ParamsAssumption DEF SliceOf
          <5>2. VmSlice[TaskVm[cur[c]]] \in OpenStack
            BY <2>2
          <5>3. Uniform
            BY DEF LoopInv
          <5>4. QED
            BY ONLY <5>1, <5>2, <5>3 DEF Uniform
        <4>4. QED
          BY <2>2, <4>1, <4>2, <4>3
      <3>3. \A t \in TaskScope(cur[c]) : status[t] # "READY"
        BY <3>2
      <3>4. /\ \A t \in TaskScope(cur[c]) : status'[t] # "READY" /\ vmStatus'[TaskVm[t]] = "FAILED"
            /\ \A t \in Tasks \ TaskScope(cur[c]) :
                 status'[t] = status[t] /\ vmStatus'[TaskVm[t]] = vmStatus[TaskVm[t]]
        <4>1. \A t \in Tasks : TaskVm[t] \in VMs
          BY ParamsAssumption
        <4>2. \A t \in Tasks : status'[t] = (IF t \in TaskScope(cur[c]) \ failedBy[c] THEN "FAILED" ELSE status[t])
          BY <2>2 DEF SetTo
        <4>3. \A v \in VMs : vmStatus'[v] = (IF v \in VmScope(cur[c]) THEN "FAILED" ELSE vmStatus[v])
          BY <2>2 DEF SetTo
        <4>4. QED
          BY ONLY <3>1, <3>2, <3>3, <4>1, <4>2, <4>3
      <3>5. pc' = [pc EXCEPT ![c] = "report"]
        BY <2>2 DEF Goto
      <3>6. \A t \in Tasks : Linux(t) => t \notin TaskScope(cur[c])
        BY <2>1, <2>2 DEF TaskScope, SliceTasks
      <3>7. OutcomesAgree'
        <4>1. SUFFICES ASSUME NEW t \in Tasks, Live(t)'
                       PROVE  /\ status'[t] = "READY" => vmStatus'[TaskVm[t]] = "READY"
                              /\ status'[t] = "FAILED" /\ (t \in again' => SliceOf(t) \in OpenStack)
                                   => vmStatus'[TaskVm[t]] # "READY"
          OBVIOUS
        <4>2. Live(t) /\ again' = again
          BY <2>1, <4>1
        <4>3. CASE t \in TaskScope(cur[c])
          BY <3>4, <4>3
        <4>4. CASE t \notin TaskScope(cur[c])
          <5>1. status'[t] = status[t] /\ vmStatus'[TaskVm[t]] = vmStatus[TaskVm[t]]
            BY <3>4, <4>4
          <5>2. QED
            BY <4>2, <5>1
        <4>5. QED
          BY <4>3, <4>4
      <3>8. pc'[c] = "report" /\ todo' = todo /\ cur' = cur /\ \A d \in Cycles : d = c
        BY <2>1, <2>2, <3>5
      <3>9. \A t \in Tasks : Linux(t) => status'[t] = status[t] /\ vmStatus'[TaskVm[t]] = vmStatus[TaskVm[t]]
        BY <3>4, <3>6
      <3>10. todo[c] \subseteq Tasks
        OBVIOUS
      <3>11. \A t \in todo[c] \ again : Linux(t) => status'[t] = "PLACEMENT_READY"
        BY <2>1, <3>9, <3>10
      <3>12. \A t \in Tasks \ again : Linux(t) /\ vmStatus'[TaskVm[t]] = "READY" => status'[t] = "READY"
        BY <3>9
      <3>13. QED
        BY ONLY <2>1, <3>7, <3>8, <3>11, <3>12 DEF StoryInv, Linux, SliceOf, Dispatching
    <2>3. CASE /\ Return(c) /\ Linux(cur[c]) /\ UNCHANGED <<slices, vmStatus>>
               /\ status' = [status EXCEPT ![cur[c]] = "FAILED"]
      BY <2>1, <2>3 DEF Return, Goto
    <2>4. CASE Abort(c)
      BY <2>1, <2>4 DEF Abort, Goto, rows
    <2>5. CASE Goto(c, "report") /\ UNCHANGED <<rows, todo, cur>>
      BY <2>1, <2>5 DEF Goto, rows
    <2>6. QED
      BY <1>2, <2>2, <2>3, <2>4, <2>5 DEF HandleFailure
  <1>3. ASSUME NEW c \in Cycles, RequestBreaks(c) PROVE StoryInv'
    <2>1. /\ cur[c] \in Tasks /\ slices' = slices /\ vmStatus' = vmStatus /\ again' = again /\ pc[c] = "wait"
          /\ (cur[c] \in again => ~Linux(cur[c])) => vmStatus[TaskVm[cur[c]]] # "READY"
      BY <1>3 DEF RequestBreaks, LoopInv, NotYetReady, Abort, rows
    <2>2. CASE Return(c) /\ status' = [status EXCEPT ![cur[c]] = "FAILED"]
      BY <2>1, <2>2 DEF Return, Goto
    <2>3. CASE Abort(c)
      BY <2>1, <2>3 DEF Abort, Goto, rows
    <2>4. QED
      BY <1>3, <2>2, <2>3 DEF RequestBreaks
  <1>20. ASSUME NEW c \in Cycles, ReportFailure(c) PROVE StoryInv'
    <2>1. CASE Abort(c)
      BY <1>20, <2>1 DEF ReportFailure, Abort, Goto, rows
    <2>2. CASE Return(c) /\ UNCHANGED <<slices, status, vmStatus>>
      BY <1>20, <2>2 DEF ReportFailure, Return, Goto
    <2>3. QED
      BY <1>20, <2>1, <2>2 DEF ReportFailure
  <1>4. ASSUME NEW c \in Cycles, Lock(c) PROVE StoryInv'
    <2>0. again' = again
      BY <1>4 DEF Lock
    <2>1. CASE Abort(c)
      BY <2>0, <2>1 DEF Abort, Goto, rows
    <2>2. PICK t \in todo[c] : Abort(c) \/ /\ status' = [status EXCEPT ![t] = "IN_PROGRESS"]
                                           /\ cur' = [cur EXCEPT ![c] = t]
                                           /\ todo' = [todo EXCEPT ![c] = @ \ {t}]
                                           /\ Goto(c, "load") /\ UNCHANGED <<slices, vmStatus>>
      BY <1>4 DEF Lock
    <2>3. t \in Tasks /\ pc[c] = "next"
      BY <1>4 DEF Lock
    <2>4. QED
      BY <2>0, <2>1, <2>2, <2>3 DEF Goto
  <1>5. ASSUME NEW c \in Cycles, RecoverStale(c) PROVE StoryInv'
    <2>0. again' = again
      BY <1>5 DEF RecoverStale
    <2>1. CASE Abort(c)
      BY <2>0, <2>1 DEF Abort, Goto, rows
    <2>2. CASE /\ status' = SetTo(status, todo[c], "PLACEMENT_READY") /\ Goto(c, "list")
               /\ UNCHANGED <<slices, vmStatus>>
      BY <1>5, <2>0, <2>2 DEF RecoverStale, SetTo, Goto
    <2>3. QED
      BY <1>5, <2>1, <2>2 DEF RecoverStale
  <1>6. ASSUME NEW c \in Cycles, AlreadyReady(c) PROVE StoryInv'
    <2>0. again' = again /\ pc[c] = "mark"
      BY <1>6 DEF AlreadyReady
    <2>1. CASE Abort(c)
      BY <2>0, <2>1 DEF Abort, Goto, rows
    <2>2. CASE /\ status' = [status EXCEPT ![cur[c]] = "READY"] /\ Return(c)
               /\ UNCHANGED <<slices, vmStatus>>
      <3>1. cur[c] \in Tasks /\ ~Linux(cur[c]) /\ vmStatus[TaskVm[cur[c]]] = "READY"
        BY <2>0
      <3>2. \A t \in Tasks : status'[t] = (IF t = cur[c] THEN "READY" ELSE status[t])
        BY <2>2
      <3>3. pc'[c] = "next" /\ todo' = todo /\ vmStatus' = vmStatus /\ slices' = slices /\ \A d \in Cycles : d = c
        BY <2>2 DEF Return, Goto
      <3>4. \A t \in todo[c] \ again : Linux(t) => status[t] = "PLACEMENT_READY"
        BY <2>0
      <3>5. OutcomesAgree'
        BY <2>0, <3>1, <3>2, <3>3
      <3>6. \A t \in Tasks \ again' : Linux(t) /\ vmStatus'[TaskVm[t]] = "READY" => status'[t] = "READY"
        BY <2>0, <3>2, <3>3
      <3>7. \A t \in todo'[c] \ again' : Linux(t) => status'[t] = "PLACEMENT_READY"
        BY <2>0, <3>1, <3>2, <3>3, <3>4
      <3>8. QED
        BY ONLY <3>3, <3>5, <3>6, <3>7 DEF StoryInv, Dispatching
    <2>3. QED
      BY <1>6, <2>1, <2>2 DEF AlreadyReady
  <1>7. ASSUME NEW c \in Cycles, LoadEntities(c) PROVE StoryInv'
    <2>0. again' = again
      BY <1>7 DEF LoadEntities
    <2>1. CASE Abort(c)
      BY <2>0, <2>1 DEF Abort, Goto, rows
    <2>2. CASE /\ pc' = [pc EXCEPT ![c] = NextPoint(cur[c])] /\ UNCHANGED <<rows, todo, cur>>
      <3>1. pc[c] = "load" /\ cur[c] \in Tasks
        BY <1>7 DEF LoadEntities
      <3>2. /\ NextPoint(cur[c]) \in Dispatching
            /\ NextPoint(cur[c]) = "mark" => ~Linux(cur[c]) /\ vmStatus[TaskVm[cur[c]]] = "READY"
        BY ONLY DEF NextPoint, Dispatching, Linux
      <3>3. pc'[c] = NextPoint(cur[c]) /\ \A d \in Cycles : d = c
        BY <2>2
      <3>4. QED
        BY <2>0, <2>2, <3>1, <3>2, <3>3 DEF rows
    <2>3. QED
      <3>1. \/ Abort(c)
            \/ Goto(c, NextPoint(cur[c])) /\ UNCHANGED <<rows, todo, cur, job, failedBy>>
        BY ONLY <1>7 DEF LoadEntities
      <3>2. QED
        BY ONLY <2>1, <2>2, <3>1 DEF Goto
  <1>8. ASSUME NEW c \in Cycles, SelectStale(c) \/ ListTasks(c) PROVE StoryInv'
    BY <1>8 DEF SelectStale, Stale, ListTasks, Goto, rows
  <1>9. ASSUME NEW c \in Cycles, EndCycle(c) \/ CallDriver(c) \/ DriverEnds(c) PROVE StoryInv'
    BY <1>9 DEF EndCycle, CallDriver, DriverEnds, Goto, rows
  <1>10. ASSUME NEW c \in Cycles, Allocate(c) \/ Enrich(c) PROVE StoryInv'
    BY <1>10 DEF Allocate, Enrich, Abort, Goto, rows
  <1>11. ASSUME NEW t \in Tasks, PlaceTask(t) PROVE StoryInv'
    BY <1>11 DEF PlaceTask, control
  <1>12. ASSUME NEW t \in Tasks, OrphanEnds(t) \/ Age(t) PROVE StoryInv'
    BY <1>12 DEF OrphanEnds, Age, rows, control
  <1>13. CASE Crash
    BY <1>13 DEF Crash, rows
  <1>14. ASSUME NEW s \in Slices, DeleteSlice(s) PROVE StoryInv'
    BY <1>14 DEF DeleteSlice, control
  <1>15. CASE UNCHANGED vars
    BY <1>15 DEF vars, rows, control
  <1>16. QED
    BY <1>1, <1>2, <1>3, <1>4, <1>5, <1>6, <1>7, <1>8, <1>9, <1>10, <1>11, <1>12, <1>13, <1>14, <1>15, <1>20
       DEF Next, Cycle

\* With one cycle and one task for each VM, the outcome of a task and the state of
\* its VM tell the same story, whatever times out, crashes, is recovered or is
\* released again (but for the failure of a Linux task released again).
THEOREM OneStory == ASSUME OneCycle, OneTaskEach PROVE Spec => []OutcomesAgree
  <1>1. Init => StoryInv
    BY ParamsAssumption DEF Init, StoryInv, OutcomesAgree, Dispatching
  <1>2. LoopInv /\ TypeInv /\ [Next]_vars => LoopInv'
    BY LoopNext
  <1>3. TypeInv /\ LoopInv /\ StoryInv /\ [Next]_vars => StoryInv'
    BY StoryNext
  <1>4. StoryInv => OutcomesAgree
    BY DEF StoryInv
  <1>5. QED
    BY <1>1, <1>2, <1>3, <1>4, LoopInit, TypeInit, TypeNext, PTL DEF Spec
=============================================================================
