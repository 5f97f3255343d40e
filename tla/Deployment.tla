----------------------------- MODULE Deployment -----------------------------
(***************************************************************************)
(* The deployment of one Linux slice across the services: slice-manager    *)
(* (_activate_linux_slice), placement, networking (allocate), the loop of  *)
(* the dispatcher and the driver on each worker.  They meet in the rows of *)
(* the database and in calls that may be refused, late or unheard.         *)
(*                                                                         *)
(* An allocate adds one more set of links, a round, to the slice: it is    *)
(* the placement map it was called with, from which is_remote of each link *)
(* follows, so an interface is a pair <<round, link>>.  The inner tag of a *)
(* link is the same in every round (100, 200, ... by its place).           *)
(***************************************************************************)
EXTENDS Integers, Sequences, FiniteSets

CONSTANTS
  VMs,          \* numbered in the order of their tasks
  Links,
  Ends,         \* the VMs a link joins: two, or one and the internet
  Workers,
  Labels,       \* vlan_pool
  NoLabel, NoWorker,
  MaxCalls,     \* bound on the calls of allocate, one of them by slice-manager
  MaxFaults     \* bound on refused or unheard calls, failing commands and restarts

ASSUME DeploymentAssumption ==
  /\ VMs \subseteq Nat
  /\ Ends \in [Links -> SUBSET VMs]
  /\ NoLabel \notin Labels /\ NoWorker \notin Workers
  /\ MaxCalls \in Nat \ {0} /\ MaxFaults \in Nat

VARIABLES
  step,     \* of the activation: "tasks", "placement", "refresh", "networking", "write", "over"
  session,  \* of the activation: the slice's label as refreshed, the answer of networking
  status,   \* slices.status
  label,    \* slices.vlan_slice
  used,     \* the labels the pool counts as USED
  nets,     \* networks and vm_interfaces: the rounds of the slice
  task,     \* status of the CREATE_VM task of each VM
  payload,  \* tasks.payload of each VM: label and interfaces
  worker,   \* virtual_machines.worker_id
  calls,    \* the calls of allocate: who waits, the map sent, stage and label
  loop,     \* the dispatcher: point, VM, tasks of this cycle, their payloads, slice label
  up,       \* per VM: whether it runs, with which interfaces and label
  veth,     \* per worker: service tag of the veth pair of the slice, NoLabel without one
  faults

activation == <<step, session>>
rows       == <<status, label, used, nets, task, payload, worker>>
hosts      == <<up, veth>>
vars       == <<activation, rows, calls, loop, hosts, faults>>

NoSession == [seen |-> NoLabel, answer |-> NoLabel]
Bare == [label |-> NoLabel, ifs |-> {}]
Down == [runs |-> FALSE, label |-> NoLabel, ifs |-> {}]

Idle == [at |-> "idle", vm |-> CHOOSE v \in VMs : TRUE, left |-> {},
         held |-> [v \in VMs |-> Bare], label |-> NoLabel]

Init ==
  /\ step = "tasks" /\ session = NoSession
  /\ status = "DRAFT" /\ label = NoLabel /\ used = {} /\ nets = <<>>
  /\ task = [v \in VMs |-> "none"]
  /\ payload = [v \in VMs |-> Bare]
  /\ worker = [v \in VMs |-> NoWorker]
  /\ calls = <<>>
  /\ loop = Idle
  /\ up = [v \in VMs |-> Down]
  /\ veth = [w \in Workers |-> NoLabel]
  /\ faults = 0

Fault == faults < MaxFaults /\ faults' = faults + 1

\* The interfaces of a VM in the database, and whether one crosses workers.
Interfaces(v) == {<<n, l>> : n \in DOMAIN nets, l \in {k \in Links : v \in Ends[k]}}
IsRemote(i)   == \E a, b \in Ends[i[2]] : nets[i[1]][a] # nets[i[1]][b]
-----------------------------------------------------------------------------
\* networking: allocate, as in module Networking.

\* A call by who, with the workers of the VMs as they are now.
Send(who) == calls' = Append(calls, [by |-> who, map |-> worker, stage |-> "sent", label |-> NoLabel])
Late(who) == [i \in DOMAIN calls |-> IF calls[i].by = who THEN [calls[i] EXCEPT !.by = "nobody"] ELSE calls[i]]
Heard(who, i) == i \in DOMAIN calls /\ calls[i].by = who /\ calls[i].stage \in {"done", "refused"}

\* It reads the slice and, if that has no label, an AVAILABLE row of the pool.
AllocateRead(i) ==
  /\ calls[i].stage = "sent"
  /\ \/ /\ \E x \in IF label # NoLabel THEN {label} ELSE Labels \ used :
             calls' = [calls EXCEPT ![i].stage = IF label # NoLabel THEN "kept" ELSE "picked", ![i].label = x]
        /\ UNCHANGED faults
     \/ /\ Fault
        /\ calls' = [calls EXCEPT ![i].stage = "refused"]
  /\ UNCHANGED <<activation, rows, loop, hosts>>

\* (AllocateLabelFirst is the fault of committing the label before the links.)
AllocateLabelFirst(i) ==
  /\ calls[i].stage \in {"kept", "picked"}
  /\ IF calls[i].stage = "picked"
     THEN label' = calls[i].label /\ used' = used \cup {calls[i].label} /\ nets' = nets
          /\ calls' = [calls EXCEPT ![i].stage = "kept"]
     ELSE UNCHANGED <<label, used>> /\ nets' = Append(nets, calls[i].map)
          /\ calls' = [calls EXCEPT ![i].stage = "done"]
  /\ UNCHANGED <<activation, status, task, payload, worker, loop, hosts, faults>>

AllocateCommit(i) ==
  /\ calls[i].stage \in {"kept", "picked"}
  /\ nets' = Append(nets, calls[i].map)
  /\ IF calls[i].stage = "picked"
     THEN label' = calls[i].label /\ used' = used \cup {calls[i].label}
     ELSE UNCHANGED <<label, used>>
  /\ calls' = [calls EXCEPT ![i].stage = "done"]
  /\ UNCHANGED <<activation, status, task, payload, worker, loop, hosts, faults>>
-----------------------------------------------------------------------------
\* slice-manager and placement.

CreateTasks ==
  /\ step = "tasks" /\ step' = "placement"
  /\ task' = [v \in VMs |-> "PENDING"]
  /\ UNCHANGED <<session, status, label, used, nets, payload, worker, calls, loop, hosts, faults>>

\* A run of placement, for this activation or another: workers for the
\* PENDING tasks that find room.
\* (PlaceTasks is the fault of a commit without the VMs.)
PlaceTasks(some) ==
  /\ some \subseteq {v \in VMs : task[v] = "PENDING"}
  /\ task' = [v \in VMs |-> IF v \in some THEN "PLACEMENT_READY" ELSE task[v]]
  /\ UNCHANGED <<status, label, used, nets, payload, worker>>

Place(some) ==
  /\ some \subseteq {v \in VMs : task[v] = "PENDING"}
  /\ \E w \in [some -> Workers] : worker' = [v \in VMs |-> IF v \in some THEN w[v] ELSE worker[v]]
  /\ task' = [v \in VMs |-> IF v \in some THEN "PLACEMENT_READY" ELSE task[v]]
  /\ UNCHANGED <<status, label, used, nets, payload>>

CallPlacement ==
  /\ step = "placement" /\ step' = "refresh"
  /\ \/ (\E some \in SUBSET VMs : Place(some)) /\ UNCHANGED faults
     \/ Fault /\ UNCHANGED rows
  /\ UNCHANGED <<session, calls, loop, hosts>>

OtherActivation ==
  /\ step # "tasks"
  /\ \E some \in SUBSET VMs : some # {} /\ Place(some)
  /\ UNCHANGED <<activation, calls, loop, hosts, faults>>

\* The session is refreshed and networking is called with what it holds.
CallNetworking ==
  /\ step = "refresh" /\ step' = "networking"
  /\ session' = [session EXCEPT !.seen = label]
  /\ Send("manager")
  /\ UNCHANGED <<rows, loop, hosts, faults>>

HearNetworking ==
  /\ step = "networking" /\ step' = "write"
  /\ \/ \E i \in DOMAIN calls :
          /\ Heard("manager", i)
          /\ session' = [session EXCEPT !.answer = IF calls[i].stage = "done" THEN calls[i].label ELSE NoLabel]
          /\ calls' = Late("manager")
          /\ UNCHANGED faults
     \/ Fault /\ calls' = Late("manager") /\ UNCHANGED session
  /\ UNCHANGED <<rows, loop, hosts>>

\* The last commit: the payload of every task from the rows as they are, the
\* label if networking gave another one, and ACTIVE.
Activate ==
  /\ step = "write" /\ step' = "over" /\ session' = NoSession
  /\ payload' = [v \in VMs |-> [label |-> session.answer, ifs |-> Interfaces(v)]]
  /\ label' = IF session.answer \notin {NoLabel, session.seen} THEN session.answer ELSE label
  /\ status' = "ACTIVE"
  /\ UNCHANGED <<used, nets, task, worker, calls, loop, hosts, faults>>

ManagerCrash ==
  /\ step \notin {"tasks", "over"} /\ step' = "over" /\ session' = NoSession
  /\ Fault
  /\ calls' = Late("manager")
  /\ UNCHANGED <<rows, loop, hosts>>
-----------------------------------------------------------------------------
\* The dispatcher and the driver.

\* (ListFinished is the fault of a query that is not about the status.)
ListFinished == {v \in VMs : task[v] \in {"PLACEMENT_READY", "READY"}}
Listed       == {v \in VMs : task[v] = "PLACEMENT_READY"}

ListTasks ==
  /\ loop.at = "idle" /\ loop.left = {}
  /\ Listed # {}
  /\ loop' = [loop EXCEPT !.left = Listed,
                          !.held = [v \in VMs |-> IF v \in Listed THEN payload[v] ELSE Bare]]
  /\ UNCHANGED <<activation, rows, calls, hosts, faults>>

Enriched(p) == p.ifs # {} /\ p.label # NoLabel

\* The oldest of them is locked and the slice loaded; a payload that lacks interfaces or
\* label is enriched, and networking called if the slice has no label.
Lock(v) ==
  /\ loop.at = "idle" /\ v \in loop.left /\ \A w \in loop.left : v <= w
  /\ task' = [task EXCEPT ![v] = "IN_PROGRESS"]
  /\ loop' = [loop EXCEPT !.vm = v, !.label = label,
       !.at = IF Enriched(loop.held[v]) THEN "drive" ELSE IF label = NoLabel THEN "call" ELSE "rows"]
  /\ UNCHANGED <<activation, status, label, used, nets, payload, worker, calls, hosts, faults>>

CallFallback ==
  /\ loop.at = "call"
  /\ Len(calls) < IF step \in {"tasks", "placement", "refresh"} THEN MaxCalls - 1 ELSE MaxCalls
  /\ Send("loop")
  /\ loop' = [loop EXCEPT !.at = "await"]
  /\ UNCHANGED <<activation, rows, hosts, faults>>

\* The label of the answer is committed.
HearFallback ==
  /\ loop.at = "await"
  /\ loop' = [loop EXCEPT !.at = "refresh"]
  /\ calls' = Late("loop")
  /\ \/ /\ \E i \in DOMAIN calls :
             /\ Heard("loop", i)
             /\ label' = IF calls[i].stage = "done" THEN calls[i].label ELSE label
        /\ UNCHANGED faults
     \/ Fault /\ UNCHANGED label
  /\ UNCHANGED <<activation, status, used, nets, task, payload, worker, hosts>>

RefreshSlice ==
  /\ loop.at = "refresh"
  /\ loop' = [loop EXCEPT !.at = "rows", !.label = label]
  /\ UNCHANGED <<activation, rows, calls, hosts, faults>>

ReadRows ==
  /\ loop.at = "rows"
  /\ LET p == [label |-> loop.label, ifs |-> Interfaces(loop.vm)]
     IN  /\ payload' = [payload EXCEPT ![loop.vm] = p]
         /\ loop' = [loop EXCEPT !.at = "drive", !.held[loop.vm] = p]
  /\ UNCHANGED <<activation, status, label, used, nets, task, worker, calls, hosts, faults>>

\* What the driver is sent.
Request ==
  LET p == loop.held[loop.vm]
  IN  [runs |-> TRUE, ifs |-> p.ifs, label |-> IF p.label # NoLabel THEN p.label ELSE loop.label]

Doubled(ifs) == \E i, j \in ifs : i # j /\ i[2] = j[2]
\* (WireAlways is the fault of a veth pair for every slice with a label, WireAll
\* that of one only if each interface is remote.)
WireAlways(req) == req.label # NoLabel
WireAll(req)    == req.label # NoLabel /\ \A i \in req.ifs : IsRemote(i)

Wired(req) == req.label # NoLabel /\ \E i \in req.ifs : IsRemote(i)
Wire(req)  == veth' = IF Wired(req) THEN [veth EXCEPT ![worker[loop.vm]] = req.label] ELSE veth

\* The driver makes the VM.  QEMU does not start with one tap twice, and the
\* disk of a running VM is locked: that creation fails at its first command,
\* and its rollback takes the ports of the running VM away.
Create(req) ==
  /\ ~up[loop.vm].runs /\ ~Doubled(req.ifs)
  /\ up' = [up EXCEPT ![loop.vm] = req]
  /\ Wire(req)

CreationFails(req) ==
  \/ Doubled(req.ifs) /\ ~up[loop.vm].runs /\ Wire(req) /\ UNCHANGED <<up, faults>>
  \/ ~up[loop.vm].runs /\ Fault /\ (Wire(req) \/ UNCHANGED veth) /\ UNCHANGED up
  \/ up[loop.vm].runs /\ up' = [up EXCEPT ![loop.vm].ifs = {}] /\ UNCHANGED <<veth, faults>>

Answer(outcome) ==
  /\ task' = [task EXCEPT ![loop.vm] = outcome]
  /\ loop' = [Idle EXCEPT !.left = loop.left \ {loop.vm}, !.held = [loop.held EXCEPT ![loop.vm] = Bare]]

CallDriver ==
  /\ loop.at = "drive"
  /\ \/ Create(Request) /\ Answer("READY") /\ UNCHANGED faults
     \/ Create(Request) /\ Answer("FAILED") /\ Fault      \* it answers after 120 seconds
     \/ CreationFails(Request) /\ Answer("FAILED")
  /\ UNCHANGED <<activation, status, label, used, nets, payload, worker, calls>>

\* The dispatcher restarts, with or without the creation under way coming to
\* its end; ten minutes later the task it had locked is released.
DispatcherCrash ==
  /\ loop.at # "idle" \/ loop.left # {}
  /\ Fault
  /\ loop' = Idle
  /\ calls' = Late("loop")
  /\ \/ loop.at = "drive" /\ Create(Request)
     \/ UNCHANGED hosts
  /\ UNCHANGED <<activation, rows>>

RecoverStale ==
  /\ loop.at = "idle" /\ loop.left = {}
  /\ \E v \in VMs : task[v] = "IN_PROGRESS"
  /\ task' = [v \in VMs |-> IF task[v] = "IN_PROGRESS" THEN "PLACEMENT_READY" ELSE task[v]]
  /\ UNCHANGED <<activation, status, label, used, nets, payload, worker, calls, loop, hosts, faults>>
-----------------------------------------------------------------------------
Networking == \E i \in DOMAIN calls : AllocateRead(i) \/ AllocateCommit(i)
Manager    == CreateTasks \/ CallPlacement \/ CallNetworking \/ HearNetworking \/ Activate
Dispatcher ==
  \/ ListTasks \/ (\E v \in VMs : Lock(v)) \/ CallFallback \/ HearFallback
  \/ RefreshSlice \/ ReadRows \/ CallDriver \/ RecoverStale

Next == Networking \/ Manager \/ Dispatcher \/ OtherActivation \/ ManagerCrash \/ DispatcherCrash

Spec == Init /\ [][Next]_vars

\* Every service goes on with its work; another activation is never promised.
FairSpec == Spec /\ WF_vars(Networking) /\ WF_vars(Manager) /\ WF_vars(Dispatcher)
-----------------------------------------------------------------------------
PayloadType == [label : Labels \cup {NoLabel}, ifs : SUBSET ((1..MaxCalls) \X Links)]

TypeOK ==
  /\ step \in {"tasks", "placement", "refresh", "networking", "write", "over"}
  /\ status \in {"DRAFT", "ACTIVE"}
  /\ label \in Labels \cup {NoLabel} /\ used \subseteq Labels
  /\ Len(nets) <= Len(calls) /\ Len(calls) <= MaxCalls
  /\ task \in [VMs -> {"none", "PENDING", "PLACEMENT_READY", "IN_PROGRESS", "READY", "FAILED"}]
  /\ payload \in [VMs -> PayloadType]
  /\ worker \in [VMs -> Workers \cup {NoWorker}]
  /\ \A v \in VMs : task[v] \notin {"none", "PENDING"} => worker[v] # NoWorker
  /\ \A v \in VMs : [label |-> up[v].label, ifs |-> up[v].ifs] \in PayloadType
  /\ veth \in [Workers -> Labels \cup {NoLabel}]
  /\ faults \in 0..MaxFaults

ReadyVMs == {v \in VMs : task[v] = "READY"}
Has(v, l) == \E i \in up[v].ifs : i[2] = l

\* Frames of a link pass between two VMs: over one bridge, or from veth to
\* veth under one service tag.
Joined(v, w, l) ==
  /\ Has(v, l) /\ Has(w, l)
  /\ \/ worker[v] = worker[w]
     \/ veth[worker[v]] # NoLabel /\ veth[worker[v]] = veth[worker[w]]

\* How a link is lost: allocated while neither end had a worker, under two
\* labels, or a VM sent without its interfaces or without the label.
Blind(l)      == \E n \in DOMAIN nets : \A v \in Ends[l] : nets[n][v] = NoWorker
Relabelled    == Cardinality(used) > 1
Unlabelled(v) == up[v].label = NoLabel \/ \E l \in Links : v \in Ends[l] /\ ~Has(v, l)

\* Two READY VMs with a link between them reach each other, on one worker or
\* on two, whichever of slice-manager and dispatcher allocated the links and
\* whichever of their payloads each VM was built from, unless the allocation
\* ran before either had a worker, gave the slice a second label, or a VM was
\* sent unwired (driver_service.py:139, api.py:88).
CutOnlyIf ==
  \A l \in Links : \A v, w \in Ends[l] \cap ReadyVMs :
    v # w => Joined(v, w, l) \/ Blind(l) \/ Relabelled \/ Unlabelled(v) \/ Unlabelled(w)

\* A READY VM is without its links or its label only if something was refused,
\* unheard or restarted: the label of a slice never shows before its links.
UnwiredOnlyAfterFault ==
  \A v \in ReadyVMs : faults = 0 => ~Unlabelled(v)

\* While nothing is refused, unheard or restarted, a creation fails only
\* because slice-manager and dispatcher both allocated the links.
FailedOnlyIfDoubled ==
  \A v \in VMs : task[v] = "FAILED" /\ faults = 0 => Len(nets) > 1

\* GET /networking/ovs/commands: the workers it gives a path to the others.
Patched(w) == \E v \in VMs : worker[v] = w /\ \E i \in Interfaces(v) : IsRemote(i)

\* If the links were allocated once, the commands that networking lists for
\* each worker of a deployed slice are those the driver ran: a path to other
\* workers where listed and nowhere else, under the label of the slice.
CommandsMatchHosts ==
  ReadyVMs = VMs /\ Len(nets) = 1 /\ (\A v \in VMs : ~Unlabelled(v))
    => \A w \in Workers : veth[w] = IF Patched(w) THEN label ELSE NoLabel

\* The activation has gone on without an answer of placement: no VM has been
\* placed, so nothing else can have failed.
Unanswered == step = "refresh" /\ faults > 0 /\ \A v \in VMs : task[v] = "PENDING"

\* slices.py:74: "Si Placement no responde, las tareas quedan en PENDING para
\* el loop", so that the loop takes them up in the end.
LoopPlaces == \A v \in VMs : Unanswered ~> task[v] # "PENDING"
=============================================================================
