-------------------------- MODULE Deployment_proofs --------------------------
(***************************************************************************)
(* Slice-manager, networking and dispatcher write the label, the rounds    *)
(* and the payloads of one slice beside each other.  What each of them     *)
(* holds is never ahead of the rows: a label that is seen anywhere has its *)
(* links, one allocation gives one label, and a VM keeps the worker that   *)
(* its rounds were computed from.                                          *)
(***************************************************************************)
EXTENDS Deployment, FiniteSetTheorems, SequenceTheorems, TLAPS

Tags    == Labels \cup {NoLabel}
Hosts   == Workers \cup {NoWorker}
Map     == [VMs -> Hosts]
Sets    == SUBSET (Nat \X Links)
Payload == [label : Tags, ifs : Sets]
Call    == [by : {"manager", "loop", "nobody"}, map : Map,
            stage : {"sent", "refused", "kept", "picked", "done"}, label : Tags]
Loop    == [at : {"idle", "call", "await", "refresh", "rows", "drive"}, vm : VMs \cup {Idle.vm},
            left : SUBSET VMs, held : [VMs -> Payload], label : Tags]

TypeInv ==
  /\ step \in {"tasks", "placement", "refresh", "networking", "write", "over"}
  /\ session \in [seen : Tags, answer : Tags]
  /\ status \in {"DRAFT", "ACTIVE"}
  /\ label \in Tags /\ used \in SUBSET Labels /\ IsFiniteSet(used)
  /\ nets \in Seq(Map) /\ calls \in Seq(Call)
  /\ task \in [VMs -> {"none", "PENDING", "PLACEMENT_READY", "IN_PROGRESS", "READY", "FAILED"}]
  /\ payload \in [VMs -> Payload]
  /\ worker \in Map
  /\ loop \in Loop
  /\ up \in [VMs -> [runs : BOOLEAN, label : Tags, ifs : Sets]]
  /\ veth \in [Workers -> Tags]
  /\ faults \in 0..MaxFaults

\* A VM has its worker, for good, from the run of placement that took its task
\* on; the dispatcher holds tasks that no one else moves; and an allocate that has
\* read the slice has a label.
Control ==
  /\ step = "tasks" => loop.left = {} /\ \A v \in VMs : task[v] = "none"
  /\ \A v \in VMs : worker[v] = NoWorker <=> task[v] \in {"none", "PENDING"}
  /\ \A v \in loop.left : task[v] = IF loop.at # "idle" /\ v = loop.vm THEN "IN_PROGRESS" ELSE "PLACEMENT_READY"
  /\ loop.at # "idle" => loop.vm \in loop.left
  /\ \A v \in VMs : worker[v] = NoWorker => up[v] = Down
  /\ \A i \in DOMAIN calls : calls[i].stage \in {"kept", "picked", "done"} => calls[i].label \in Labels

\* Each allocate that came to its end is one round.
Done == {i \in DOMAIN calls : calls[i].stage = "done"}

Counting ==
  /\ Len(nets) = Cardinality(Done)
  /\ Len(calls) <= MaxCalls
  /\ step \in {"tasks", "placement", "refresh"} => Len(calls) < MaxCalls

\* Every place where a label of the slice shows.
Known == {i \in DOMAIN calls : calls[i].stage \in {"kept", "done"}}

Shown ==
  {label, session.seen, session.answer, loop.label} \cup {calls[i].label : i \in Known}
    \cup {payload[v].label : v \in VMs} \cup {loop.held[v].label : v \in VMs}
    \cup {up[v].label : v \in VMs} \cup {veth[w] : w \in Workers}

\* A label shows after the pool counts it as USED and after its links; while there
\* is one round, it is the label of the slice that shows.
LabelsShown ==
  /\ Shown \subseteq used \cup {NoLabel}
  /\ nets = <<>> => Shown \subseteq {NoLabel}
  /\ Len(nets) <= 1 => Shown \subseteq {label, NoLabel}

\* The interfaces of a VM are those of rounds there are, and a label comes with
\* an interface for each of its links.
Wires(v, p) ==
  /\ p.ifs \subseteq Interfaces(v)
  /\ p.label # NoLabel => \A l \in Links : v \in Ends[l] => \E i \in p.ifs : i[2] = l

Wiring ==
  \A v \in VMs :
    /\ Wires(v, payload[v]) /\ Wires(v, loop.held[v])
    /\ up[v].ifs \subseteq Interfaces(v)

\* A map that networking was sent says of each VM its worker, or not yet.
Maps == \A v \in VMs :
  /\ \A n \in DOMAIN nets : nets[n][v] \in {NoWorker, worker[v]}
  /\ \A i \in DOMAIN calls : calls[i].map[v] \in {NoWorker, worker[v]}

\* The veth pairs are those that the VMs made call for.
Crossing ==
  /\ \A v \in VMs : up[v].label # NoLabel /\ (\E i \in up[v].ifs : IsRemote(i)) => veth[worker[v]] # NoLabel
  /\ \A w \in Workers : veth[w] # NoLabel => Patched(w)

\* While nothing is refused, unheard or restarted, the dispatcher goes to the
\* driver with the label, and only a doubled link makes a creation fail.
Quiet ==
  /\ \A i \in DOMAIN calls : calls[i].stage # "refused"
  /\ loop.at = "refresh" => label # NoLabel
  /\ loop.at = "rows" => loop.label # NoLabel
  /\ loop.at = "drive" => loop.held[loop.vm].label # NoLabel
  /\ \A v \in VMs : up[v].runs => task[v] = "READY"
  /\ \A v \in VMs : task[v] = "READY" => ~Unlabelled(v)
  /\ \A v \in VMs : task[v] = "FAILED" => Len(nets) > 1

Calm == faults = 0 => Quiet
-----------------------------------------------------------------------------
(***************************************************************************)
(* The calls of allocate as sequences of records, and typing.              *)
(***************************************************************************)
LEMMA IsSeq ==
  ASSUME NEW S, NEW n \in Nat, NEW f \in [1..n -> S]
  PROVE  f \in Seq(S) /\ Len(f) = n
OBVIOUS

LEMMA CallsAre ==
  ASSUME TypeInv
  PROVE  /\ calls \in [1..Len(calls) -> Call] /\ DOMAIN calls = 1..Len(calls) /\ Len(calls) \in Nat
         /\ nets \in [1..Len(nets) -> Map] /\ DOMAIN nets = 1..Len(nets) /\ Len(nets) \in Nat
BY DEF TypeInv

\* A new call is the last one, sent with the workers as they are.
LEMMA SendAdds ==
  ASSUME TypeInv, NEW who \in {"manager", "loop"}, Send(who)
  PROVE  /\ calls' \in Seq(Call) /\ Len(calls') = Len(calls) + 1
         /\ \A i \in DOMAIN calls : i \in DOMAIN calls' /\ calls'[i] = calls[i]
         /\ \A i \in DOMAIN calls' : i \notin DOMAIN calls =>
              calls'[i] = [by |-> who, map |-> worker, stage |-> "sent", label |-> NoLabel]
<1> DEFINE new == [by |-> who, map |-> worker, stage |-> "sent", label |-> NoLabel]
<1>1. new \in Call
  BY DEF TypeInv, Call, Tags
<1>2. calls \in Seq(Call)
  BY DEF TypeInv
<1>3. calls' = Append(calls, new)
  BY DEF Send
<1> HIDE DEF new
<1>4. /\ calls' \in Seq(Call) /\ Len(calls') = Len(calls) + 1
      /\ \A i \in 1..Len(calls) : calls'[i] = calls[i]
      /\ calls'[Len(calls) + 1] = new
  BY <1>1, <1>2, <1>3
<1>5. DOMAIN calls' = 1..(Len(calls) + 1) /\ DOMAIN calls = 1..Len(calls) /\ Len(calls) \in Nat
  BY <1>2, <1>4
<1> QED
  BY <1>4, <1>5 DEF new

\* A caller that does not wait any more changes nothing else of its calls.
LEMMA LateKeeps ==
  ASSUME TypeInv, NEW who \in {"manager", "loop"}
  PROVE  /\ Late(who) \in Seq(Call) /\ Len(Late(who)) = Len(calls) /\ DOMAIN Late(who) = DOMAIN calls
         /\ \A i \in DOMAIN calls : /\ Late(who)[i].map = calls[i].map
                                    /\ Late(who)[i].stage = calls[i].stage
                                    /\ Late(who)[i].label = calls[i].label
<1>1. calls \in [1..Len(calls) -> Call] /\ DOMAIN calls = 1..Len(calls) /\ Len(calls) \in Nat
  BY CallsAre
<1>2. DOMAIN Late(who) = 1..Len(calls)
  BY <1>1 DEF Late
<1>3. ASSUME NEW i \in 1..Len(calls)
      PROVE  /\ Late(who)[i] \in Call /\ Late(who)[i].map = calls[i].map
             /\ Late(who)[i].stage = calls[i].stage /\ Late(who)[i].label = calls[i].label
  <2>1. calls[i] \in Call
    BY <1>1
  <2>2. Late(who)[i] = IF calls[i].by = who THEN [calls[i] EXCEPT !.by = "nobody"] ELSE calls[i]
    BY <1>1 DEF Late
  <2> QED
    BY <2>1, <2>2 DEF Call
<1>4. Late(who) = [i \in 1..Len(calls) |-> Late(who)[i]]
  BY <1>1 DEF Late
<1>5. Late(who) \in Seq(Call) /\ Len(Late(who)) = Len(calls)
  BY <1>1, <1>3, <1>4
<1> QED
  BY <1>1, <1>2, <1>3, <1>5

\* What allocate does to its own call.
LEMMA StageKeeps ==
  ASSUME TypeInv, NEW i \in DOMAIN calls,
         NEW s \in {"sent", "refused", "kept", "picked", "done"}, NEW x \in Tags,
         calls' = [calls EXCEPT ![i].stage = s, ![i].label = x]
  PROVE  /\ calls' \in Seq(Call) /\ Len(calls') = Len(calls) /\ DOMAIN calls' = DOMAIN calls
         /\ \A j \in DOMAIN calls : j # i => calls'[j] = calls[j]
         /\ calls'[i].map = calls[i].map /\ calls'[i].stage = s /\ calls'[i].label = x
<1>1. calls \in [1..Len(calls) -> Call] /\ DOMAIN calls = 1..Len(calls) /\ Len(calls) \in Nat
  BY CallsAre
<1>2. calls[i] \in Call
  BY <1>1
<1>3. [calls[i] EXCEPT !.stage = s, !.label = x] \in Call
  BY <1>2 DEF Call
<1>4. calls' = [calls EXCEPT ![i] = [calls[i] EXCEPT !.stage = s, !.label = x]]
  BY <1>1, <1>2 DEF Call
<1>5. calls' \in [1..Len(calls) -> Call]
  BY <1>1, <1>3, <1>4
<1>6. calls' \in Seq(Call) /\ Len(calls') = Len(calls)
  BY <1>1, <1>5, IsSeq
<1>7. calls'[i] = [calls[i] EXCEPT !.stage = s, !.label = x] /\ \A j \in DOMAIN calls : j # i => calls'[j] = calls[j]
  BY <1>1, <1>4
<1> QED
  BY <1>1, <1>2, <1>5, <1>6, <1>7 DEF Call

\* AllocateRead and AllocateCommit, call by call.
LEMMA AllocateReads ==
  ASSUME TypeInv, NEW i \in DOMAIN calls, AllocateRead(i)
  PROVE  /\ calls' \in Seq(Call) /\ Len(calls') = Len(calls) /\ DOMAIN calls' = DOMAIN calls
         /\ \A j \in DOMAIN calls : calls'[j].map = calls[j].map
         /\ \A j \in DOMAIN calls : j # i => calls'[j] = calls[j]
         /\ calls[i].stage = "sent"
         /\ \/ faults' = faults /\ calls'[i].stage = "kept" /\ calls'[i].label = label /\ label # NoLabel
            \/ faults' = faults /\ calls'[i].stage = "picked" /\ calls'[i].label \in Labels
            \/ Fault /\ calls'[i].stage = "refused"
<1>1. CASE \E x \in IF label # NoLabel THEN {label} ELSE Labels \ used :
             calls' = [calls EXCEPT ![i].stage = IF label # NoLabel THEN "kept" ELSE "picked", ![i].label = x]
  <2>1. PICK x \in IF label # NoLabel THEN {label} ELSE Labels \ used :
             calls' = [calls EXCEPT ![i].stage = IF label # NoLabel THEN "kept" ELSE "picked", ![i].label = x]
    BY <1>1
  <2>2. x \in Tags
    BY <2>1 DEF TypeInv, Tags
  <2> DEFINE s == IF label # NoLabel THEN "kept" ELSE "picked"
  <2>3. s \in {"sent", "refused", "kept", "picked", "done"}
    OBVIOUS
  <2>4. calls' = [calls EXCEPT ![i].stage = s, ![i].label = x]
    BY <2>1
  <2>5. /\ calls' \in Seq(Call) /\ Len(calls') = Len(calls) /\ DOMAIN calls' = DOMAIN calls
        /\ \A j \in DOMAIN calls : j # i => calls'[j] = calls[j]
        /\ calls'[i].map = calls[i].map /\ calls'[i].stage = s /\ calls'[i].label = x
    <3> HIDE DEF s
    <3> QED BY <2>2, <2>3, <2>4, StageKeeps, ZenonT(60)
  <2>6. calls[i].stage = "sent" /\ (faults' = faults \/ Fault)
    BY DEF AllocateRead
  <2>7. faults' = faults \/ calls' = [calls EXCEPT ![i].stage = "refused"]
    BY DEF AllocateRead
  <2>8. ASSUME calls' = [calls EXCEPT ![i].stage = "refused"] PROVE FALSE
    <3>1. calls'[i].stage = "refused"
      BY <2>8, CallsAre DEF Call
    <3> QED
      BY <3>1, <2>5
  <2> QED
    BY <2>1, <2>5, <2>6, <2>7, <2>8
<1>2. CASE Fault /\ calls' = [calls EXCEPT ![i].stage = "refused"]
  <2> DEFINE x == calls[i].label
  <2>1. x \in Tags
    BY CallsAre DEF Call
  <2>2. calls' = [calls EXCEPT ![i].stage = "refused", ![i].label = x]
    BY <1>2, CallsAre DEF Call
  <2> HIDE DEF x
  <2> QED
    BY <1>2, <2>1, <2>2, StageKeeps DEF AllocateRead
<1> QED
  BY <1>1, <1>2 DEF AllocateRead

LEMMA AllocateCommits ==
  ASSUME TypeInv, NEW i \in DOMAIN calls, AllocateCommit(i)
  PROVE  /\ calls' \in Seq(Call) /\ Len(calls') = Len(calls) /\ DOMAIN calls' = DOMAIN calls
         /\ \A j \in DOMAIN calls : j # i => calls'[j] = calls[j]
         /\ calls'[i].map = calls[i].map /\ calls'[i].label = calls[i].label
         /\ calls[i].stage \in {"kept", "picked"} /\ calls'[i].stage = "done"
         /\ calls[i].map \in Map /\ calls[i].label \in Tags
         /\ nets' \in Seq(Map) /\ Len(nets') = Len(nets) + 1 /\ nets' = Append(nets, calls[i].map)
         /\ \A n \in DOMAIN nets : n \in DOMAIN nets' /\ nets'[n] = nets[n]
         /\ \A n \in DOMAIN nets' : n \notin DOMAIN nets => nets'[n] = calls[i].map
<1> DEFINE x == calls[i].label
<1>1. x \in Tags /\ calls[i].map \in Map
  BY CallsAre DEF Call
<1>2. calls' = [calls EXCEPT ![i].stage = "done", ![i].label = x]
  BY CallsAre DEF Call, AllocateCommit
<1>3. nets' = Append(nets, calls[i].map) /\ nets \in Seq(Map)
  BY DEF AllocateCommit, TypeInv
<1>4. /\ nets' \in Seq(Map) /\ Len(nets') = Len(nets) + 1
      /\ \A n \in 1..Len(nets) : nets'[n] = nets[n]
      /\ nets'[Len(nets) + 1] = calls[i].map
      /\ DOMAIN nets' = 1..(Len(nets) + 1) /\ DOMAIN nets = 1..Len(nets) /\ Len(nets) \in Nat
  BY <1>1, <1>3
<1> HIDE DEF x
<1>5. /\ calls' \in Seq(Call) /\ Len(calls') = Len(calls) /\ DOMAIN calls' = DOMAIN calls
      /\ \A j \in DOMAIN calls : j # i => calls'[j] = calls[j]
      /\ calls'[i].map = calls[i].map /\ calls'[i].stage = "done" /\ calls'[i].label = x
  BY <1>1, <1>2, StageKeeps
<1> QED
  BY <1>1, <1>3, <1>4, <1>5 DEF AllocateCommit, x
-----------------------------------------------------------------------------
Base == TypeInv /\ Control

LEMMA InterfacesType ==
  ASSUME TypeInv
  PROVE  \A v \in VMs : Interfaces(v) \in Sets
BY CallsAre DEF Interfaces, Sets

LEMMA LoopIs ==
  ASSUME Base
  PROVE  /\ loop.at # "idle" => loop.vm \in VMs /\ task[loop.vm] = "IN_PROGRESS" /\ worker[loop.vm] \in Workers
         /\ \A v \in loop.left : v \in VMs /\ worker[v] \in Workers
         /\ loop.left \in SUBSET VMs /\ loop.held \in [VMs -> Payload] /\ loop.label \in Tags
BY ZenonT(60) DEF Base, TypeInv, Control, Loop, Map, Hosts

\* What the driver is sent, what it makes of it, and what it answers.
LEMMA RequestType ==
  ASSUME Base, loop.at = "drive"
  PROVE  Request \in [runs : BOOLEAN, label : Tags, ifs : Sets] /\ Request.ifs = loop.held[loop.vm].ifs /\ Request.runs
         /\ Request.label = (IF loop.held[loop.vm].label # NoLabel THEN loop.held[loop.vm].label ELSE loop.label)
<1>1. loop.vm \in VMs /\ loop.held[loop.vm] \in Payload /\ loop.label \in Tags
  BY LoopIs
<1> QED
  BY <1>1 DEF Request, Payload

LEMMA WireType ==
  ASSUME Base, loop.at = "drive", Wire(Request) \/ UNCHANGED veth
  PROVE  /\ veth' \in [Workers -> Tags]
         /\ \A w \in Workers : veth'[w] = IF Wire(Request) /\ Wired(Request) /\ w = worker[loop.vm]
                                          THEN Request.label ELSE veth[w]
<1>1. Request.label \in Tags /\ worker[loop.vm] \in Workers /\ veth \in [Workers -> Tags]
  BY RequestType, LoopIs DEF Base, TypeInv
<1>2. Wired(Request) \in BOOLEAN
  BY DEF Wired
<1> QED
  BY <1>1, <1>2 DEF Wire, Wired

LEMMA Answers ==
  ASSUME Base, loop.at = "drive", NEW outcome \in {"READY", "FAILED"}, Answer(outcome)
  PROVE  /\ task' = [task EXCEPT ![loop.vm] = outcome]
         /\ loop' \in Loop /\ loop'.at = "idle" /\ loop'.left = loop.left \ {loop.vm} /\ loop'.label = NoLabel
         /\ loop'.held = [loop.held EXCEPT ![loop.vm] = Bare]
<1>1. Bare \in Payload /\ NoLabel \in Tags
  BY DEF Bare, Payload, Tags, Sets
<1>2. loop.left \in SUBSET VMs /\ loop.held \in [VMs -> Payload]
  BY LoopIs
<1>3. [loop.held EXCEPT ![loop.vm] = Bare] \in [VMs -> Payload]
  BY <1>1, <1>2
<1>4. loop' = [at |-> "idle", vm |-> Idle.vm, left |-> loop.left \ {loop.vm},
               held |-> [loop.held EXCEPT ![loop.vm] = Bare], label |-> NoLabel]
  BY DEF Answer, Idle
<1>5. ASSUME NEW s \in SUBSET VMs, NEW h \in [VMs -> Payload]
      PROVE  [at |-> "idle", vm |-> Idle.vm, left |-> s, held |-> h, label |-> NoLabel] \in Loop
  BY <1>1 DEF Loop
<1>6. loop' \in Loop
  BY <1>2, <1>3, <1>4, <1>5
<1>7. task' = [task EXCEPT ![loop.vm] = outcome]
  BY DEF Answer
<1> QED
  BY <1>4, <1>6, <1>7

LEMMA UpType ==
  ASSUME Base, loop.at = "drive", Create(Request) \/ CreationFails(Request)
  PROVE  /\ up' \in [VMs -> [runs : BOOLEAN, label : Tags, ifs : Sets]]
         /\ \A v \in VMs : v # loop.vm => up'[v] = up[v]
         /\ \/ Create(Request) /\ up'[loop.vm] = Request
            \/ up' = up
            \/ up[loop.vm].runs /\ up'[loop.vm] = [up[loop.vm] EXCEPT !.ifs = {}] /\ UNCHANGED <<veth, faults>>
<1>1. Request \in [runs : BOOLEAN, label : Tags, ifs : Sets] /\ loop.vm \in VMs
  BY RequestType, LoopIs
<1>2. up \in [VMs -> [runs : BOOLEAN, label : Tags, ifs : Sets]]
  BY DEF Base, TypeInv
<1>3. CASE Create(Request)
  BY <1>1, <1>2, <1>3 DEF Create
<1>4. CASE up' = up
  BY <1>2, <1>4
<1>5. CASE up[loop.vm].runs /\ up' = [up EXCEPT ![loop.vm].ifs = {}] /\ UNCHANGED <<veth, faults>>
  <2>1. {} \in Sets
    BY DEF Sets
  <2> QED
    BY <1>1, <1>2, <1>5, <2>1
<1> QED
  BY <1>3, <1>4, <1>5 DEF CreationFails

\* Placement gives workers to VMs that had none, and leaves the others alone.
LEMMA Places ==
  ASSUME Base, NEW some, Place(some)
  PROVE  /\ task' \in [VMs -> {"none", "PENDING", "PLACEMENT_READY", "IN_PROGRESS", "READY", "FAILED"}]
         /\ worker' \in Map
         /\ \A v \in VMs : IF v \in some THEN /\ task[v] = "PENDING" /\ task'[v] = "PLACEMENT_READY"
                                              /\ worker[v] = NoWorker /\ worker'[v] \in Workers
                                         ELSE task'[v] = task[v] /\ worker'[v] = worker[v]
<1>1. some \subseteq {v \in VMs : task[v] = "PENDING"}
  BY DEF Place
<1>2. PICK w \in [some -> Workers] : worker' = [v \in VMs |-> IF v \in some THEN w[v] ELSE worker[v]]
  BY DEF Place
<1>3. task' = [v \in VMs |-> IF v \in some THEN "PLACEMENT_READY" ELSE task[v]]
  BY DEF Place
<1>4. \A v \in some : w[v] \in Workers
  BY <1>2
<1>5. worker' \in Map
  BY <1>2, <1>4 DEF Base, TypeInv, Map, Hosts
<1>6. \A v \in some : worker[v] = NoWorker
  BY <1>1 DEF Base, Control
<1> QED
  BY <1>1, <1>2, <1>3, <1>4, <1>5, <1>6 DEF Base, TypeInv

LEMMA BaseInit == Init => Base
<1> SUFFICES ASSUME Init PROVE Base
  OBVIOUS
<1> USE DeploymentAssumption
<1>1. Bare \in Payload /\ NoLabel \in Tags /\ {} \in Sets
  BY DEF Bare, Payload, Tags, Sets
<1>2. Down \in [runs : BOOLEAN, label : Tags, ifs : Sets]
  BY <1>1 DEF Down
<1>3. loop = [at |-> "idle", vm |-> Idle.vm, left |-> {}, held |-> [v \in VMs |-> Bare], label |-> NoLabel]
  BY DEF Init, Idle
<1>4. loop \in Loop
  BY <1>1, <1>3 DEF Loop
<1>5. session \in [seen : Tags, answer : Tags]
  BY <1>1 DEF Init, NoSession
<1>6. nets \in Seq(Map) /\ calls \in Seq(Call) /\ IsFiniteSet(used)
  BY FS_EmptySet DEF Init
<1>7. worker \in Map
  BY DEF Init, Map, Hosts
<1>8. TypeInv
  BY <1>1, <1>2, <1>4, <1>5, <1>6, <1>7 DEF Init, TypeInv
<1>9. Control
  BY <1>3 DEF Init, Control
<1> QED
  BY <1>8, <1>9 DEF Base

\* The dispatcher starts again with nothing in its hands.
LEMMA IdleType ==
  /\ Idle \in Loop /\ Idle.at = "idle" /\ Idle.left = {} /\ Idle.label = NoLabel
  /\ Idle.held = [v \in VMs |-> Bare]
<1>1. Bare \in Payload /\ NoLabel \in Tags
  BY DEF Bare, Payload, Tags, Sets
<1>2. Idle = [at |-> "idle", vm |-> Idle.vm, left |-> {}, held |-> [v \in VMs |-> Bare], label |-> NoLabel]
  BY DEF Idle
<1>3. ASSUME NEW x \in VMs \cup {Idle.vm}
      PROVE  [at |-> "idle", vm |-> x, left |-> {}, held |-> [v \in VMs |-> Bare], label |-> NoLabel] \in Loop
  BY <1>1 DEF Loop
<1>4. Idle \in Loop
  BY <1>2, <1>3
<1> QED
  BY <1>4 DEF Idle

LEMMA TypeNetworking ==
  ASSUME Base, Networking
  PROVE  Base'
<1> USE DEF activation, rows, hosts
<1>1. ASSUME NEW i \in DOMAIN calls, AllocateRead(i) PROVE Base'
  <2>1. calls' \in Seq(Call) /\ (faults' = faults \/ Fault)
    BY <1>1, AllocateReads DEF Base
  <2>2. faults' \in 0..MaxFaults
    BY <2>1, DeploymentAssumption DEF Base, TypeInv, Fault
  <2>3. TypeInv'
    BY <1>1, <2>1, <2>2 DEF AllocateRead, Base, TypeInv
  <2>4. Control'
    <3>1. \A j \in DOMAIN calls' : calls'[j].stage \in {"kept", "picked", "done"} => calls'[j].label \in Labels
      BY <1>1, AllocateReads, ZenonT(60) DEF Base, Control, TypeInv, Tags
    <3> QED
      BY <1>1, <3>1 DEF AllocateRead, Base, Control
  <2> QED
    BY <2>3, <2>4 DEF Base
<1>2. ASSUME NEW i \in DOMAIN calls, AllocateCommit(i) PROVE Base'
  <2>1. calls' \in Seq(Call) /\ nets' \in Seq(Map) /\ calls[i].label \in Tags
    BY <1>2, AllocateCommits DEF Base
  <2>2. label' \in Tags /\ used' \in SUBSET Labels /\ IsFiniteSet(used')
    <3>1. CASE calls[i].stage = "picked"
      \* The label of a call that picked one is in the pool.
      <4>1. label' = calls[i].label /\ used' = used \cup {calls[i].label}
        BY <1>2, <3>1 DEF AllocateCommit
      <4>2. calls[i].label \in Labels
        BY <3>1 DEF Base, Control
      <4> QED
        BY <4>1, <4>2, FS_AddElement, ZenonT(60) DEF Base, TypeInv, Tags
    <3>2. CASE calls[i].stage # "picked"
      BY <1>2, <3>2 DEF AllocateCommit, Base, TypeInv
    <3> QED
      BY <3>1, <3>2
  <2>3. TypeInv'
    BY <1>2, <2>1, <2>2 DEF AllocateCommit, Base, TypeInv
  <2>4. Control'
    <3>1. \A j \in DOMAIN calls' : calls'[j].stage \in {"kept", "picked", "done"} => calls'[j].label \in Labels
      BY <1>2, AllocateCommits DEF Base, Control
    <3> QED
      BY <1>2, <3>1 DEF AllocateCommit, Base, Control
  <2> QED
    BY <2>3, <2>4 DEF Base
<1> QED
  BY <1>1, <1>2 DEF Networking

\* A call more, or an answer that no one waits for any more, adds no label.
LEMMA CallsNamed ==
  ASSUME Base, NEW who \in {"manager", "loop"}, Send(who) \/ calls' = Late(who) \/ UNCHANGED calls
  PROVE  /\ calls' \in Seq(Call)
         /\ \A j \in DOMAIN calls' : calls'[j].stage \in {"kept", "picked", "done"} => calls'[j].label \in Labels
<1>1. CASE Send(who)
  BY <1>1, SendAdds DEF Base, Control
<1>2. CASE calls' = Late(who)
  BY <1>2, LateKeeps, SMTT(20) DEF Base, Control
<1>3. CASE UNCHANGED calls
  BY <1>3 DEF Base, Control, TypeInv
<1> QED
  BY <1>1, <1>2, <1>3

LEMMA FaultType == ASSUME Base, Fault \/ UNCHANGED faults PROVE faults' \in 0..MaxFaults
BY DeploymentAssumption DEF Base, TypeInv, Fault

LEMMA TypeManager ==
  ASSUME Base, Manager \/ OtherActivation \/ ManagerCrash
  PROVE  Base'
<1> USE DEF activation, rows, hosts
<1>1. CASE CreateTasks
  <2>1. TypeInv'
    BY <1>1 DEF CreateTasks, Base, TypeInv
  <2>2. Control'
    BY <1>1 DEF CreateTasks, Base, Control, TypeInv
  <2> QED
    BY <2>1, <2>2 DEF Base
<1>2. ASSUME NEW some, Place(some), step # "tasks", step' # "tasks",
             step' \in {"tasks", "placement", "refresh", "networking", "write", "over"},
             UNCHANGED <<session, calls, loop, up, veth>>, Fault \/ UNCHANGED faults
      PROVE  Base'
  <2>1. /\ task' \in [VMs -> {"none", "PENDING", "PLACEMENT_READY", "IN_PROGRESS", "READY", "FAILED"}]
        /\ worker' \in Map
    BY <1>2, Places
  <2>2. \A v \in VMs : IF v \in some THEN /\ task[v] = "PENDING" /\ task'[v] = "PLACEMENT_READY"
                                          /\ worker[v] = NoWorker /\ worker'[v] \in Workers
                                     ELSE task'[v] = task[v] /\ worker'[v] = worker[v]
    BY <1>2, Places
  <2>3. UNCHANGED <<status, label, used, nets, payload>>
    BY <1>2 DEF Place
  <2>4. faults' \in 0..MaxFaults
    BY <1>2, FaultType
  <2>5. TypeInv'
    BY <1>2, <2>1, <2>3, <2>4 DEF Base, TypeInv
  <2>6. \A v \in VMs : worker'[v] = NoWorker <=> task'[v] \in {"none", "PENDING"}
    BY <2>2, DeploymentAssumption DEF Base, Control
  <2>7. \A v \in loop.left : task'[v] = task[v]
    BY <2>2, LoopIs DEF Base, Control
  <2>8. \A v \in VMs : worker'[v] = NoWorker => worker[v] = NoWorker
    BY <2>2
  <2>9. Control'
    BY <1>2, <2>6, <2>7, <2>8 DEF Base, Control
  <2> QED
    BY <2>5, <2>9 DEF Base
<1>3. CASE CallPlacement
  <2>1. CASE \E some \in SUBSET VMs : Place(some)
    BY <1>2, <1>3, <2>1 DEF CallPlacement
  <2>2. CASE Fault /\ UNCHANGED rows
    <3>1. TypeInv'
      BY <1>3, <2>2, FaultType DEF CallPlacement, Base, TypeInv
    <3>2. Control'
      BY <1>3, <2>2 DEF CallPlacement, Base, Control
    <3> QED
      BY <3>1, <3>2 DEF Base
  <2> QED
    BY <1>3, <2>1, <2>2 DEF CallPlacement
<1>4. CASE OtherActivation
  BY <1>2, <1>4 DEF OtherActivation, Base, TypeInv
<1>5. CASE CallNetworking
  <2>1. session' \in [seen : Tags, answer : Tags]
    BY <1>5 DEF CallNetworking, Base, TypeInv
  <2>2. TypeInv'
    BY <1>5, <2>1, CallsNamed DEF CallNetworking, Base, TypeInv
  <2>3. Control'
    BY <1>5, CallsNamed DEF CallNetworking, Base, Control
  <2> QED
    BY <2>2, <2>3 DEF Base
<1>6. CASE HearNetworking
  <2>1. session' \in [seen : Tags, answer : Tags]
    <3>1. \A i \in DOMAIN calls : calls[i].label \in Tags
      BY CallsAre DEF Base, Call
    <3>2. NoLabel \in Tags
      BY DEF Tags
    <3>3. session' = session \/ \E x \in Tags : session' = [session EXCEPT !.answer = x]
      BY <1>6, <3>1, <3>2 DEF HearNetworking, Heard
    <3> QED
      BY <3>3 DEF Base, TypeInv
  <2>2. calls' = Late("manager") /\ (Fault \/ UNCHANGED faults)
    BY <1>6 DEF HearNetworking
  <2>3. TypeInv'
    BY <1>6, <2>1, <2>2, CallsNamed, FaultType DEF HearNetworking, Base, TypeInv
  <2>4. Control'
    BY <1>6, <2>2, CallsNamed DEF HearNetworking, Base, Control
  <2> QED
    BY <2>3, <2>4 DEF Base
<1>7. CASE Activate
  <2>1. payload' \in [VMs -> Payload]
    BY <1>7, InterfacesType DEF Activate, Base, TypeInv, Payload
  <2>2. label' \in Tags /\ NoSession \in [seen : Tags, answer : Tags]
    BY <1>7 DEF Activate, Base, TypeInv, NoSession, Tags
  <2>3. TypeInv'
    BY <1>7, <2>1, <2>2 DEF Activate, Base, TypeInv
  <2>4. Control'
    BY <1>7 DEF Activate, Base, Control
  <2> QED
    BY <2>3, <2>4 DEF Base
<1>8. CASE ManagerCrash
  <2>1. NoSession \in [seen : Tags, answer : Tags]
    BY DEF NoSession, Tags
  <2>2. TypeInv'
    BY <1>8, <2>1, CallsNamed, FaultType DEF ManagerCrash, Base, TypeInv
  <2>3. Control'
    BY <1>8, CallsNamed DEF ManagerCrash, Base, Control
  <2> QED
    BY <2>2, <2>3 DEF Base
<1> QED
  BY <1>1, <1>3, <1>4, <1>5, <1>6, <1>7, <1>8 DEF Manager

LEMMA TypeLoop ==
  ASSUME Base, ListTasks \/ (\E v \in VMs : Lock(v)) \/ CallFallback \/ HearFallback \/ RefreshSlice \/ ReadRows
  PROVE  Base'
<1> USE DEF activation, rows, hosts
<1>0. loop \in Loop /\ label \in Tags /\ payload \in [VMs -> Payload]
  BY DEF Base, TypeInv
<1>1. CASE ListTasks
  <2> DEFINE h == [v \in VMs |-> IF v \in Listed THEN payload[v] ELSE Bare]
  <2>1. h \in [VMs -> Payload] /\ Listed \in SUBSET VMs
    BY <1>0 DEF Bare, Payload, Tags, Sets, Listed
  <2>2. loop' = [loop EXCEPT !.at = "idle", !.vm = loop.vm, !.left = Listed, !.held = h, !.label = loop.label]
    BY <1>0, <1>1 DEF ListTasks, Loop
  <2>3. loop.vm \in VMs \cup {Idle.vm} /\ loop.label \in Tags
    BY <1>0 DEF Loop
  <2> HIDE DEF h
  <2>4. loop' \in Loop /\ loop'.at = "idle" /\ loop'.left = Listed
    BY <1>0, <2>1, <2>2, <2>3 DEF Loop
  <2>5. TypeInv'
    BY <1>1, <2>4 DEF ListTasks, Base, TypeInv
  <2>6. \A v \in Listed : task[v] = "PLACEMENT_READY"
    BY DEF Listed
  <2>7. step # "tasks"
    BY <1>1, <2>6 DEF ListTasks, Listed, Base, Control
  <2>8. Control'
    BY <1>1, <2>4, <2>6, <2>7 DEF ListTasks, Base, Control
  <2> QED
    BY <2>5, <2>8 DEF Base
<1>2. ASSUME NEW v \in VMs, Lock(v) PROVE Base'
  <2> DEFINE a == IF Enriched(loop.held[v]) THEN "drive" ELSE IF label = NoLabel THEN "call" ELSE "rows"
  <2>1. loop' = [loop EXCEPT !.at = a, !.vm = v, !.left = loop.left, !.held = loop.held, !.label = label]
    BY <1>0, <1>2 DEF Lock, Loop
  <2>2. a \in {"drive", "call", "rows"}
    OBVIOUS
  <2>3. loop.left \in SUBSET VMs /\ loop.held \in [VMs -> Payload]
    BY LoopIs
  <2> HIDE DEF a
  <2>4. loop' \in Loop /\ loop'.at = a /\ loop'.vm = v /\ loop'.left = loop.left
    BY <1>0, <2>1, <2>2, <2>3 DEF Loop
  <2>5. TypeInv'
    BY <1>2, <2>4 DEF Lock, Base, TypeInv
  <2>6. v \in loop.left /\ loop.at = "idle" /\ task' = [task EXCEPT ![v] = "IN_PROGRESS"]
    BY <1>2 DEF Lock
  <2>7. task[v] = "PLACEMENT_READY" /\ loop'.at # "idle"
    BY <2>2, <2>4, <2>6 DEF Base, Control
  <2>8. step # "tasks"
    BY <2>6 DEF Base, Control
  <2>9. UNCHANGED <<step, worker, up, calls>>
    BY <1>2 DEF Lock
  <2>10. \A u \in VMs : worker'[u] = NoWorker <=> task'[u] \in {"none", "PENDING"}
    BY <2>6, <2>7, <2>9 DEF Base, Control, TypeInv
  <2>11. \A u \in loop'.left : task'[u] = IF loop'.at # "idle" /\ u = loop'.vm THEN "IN_PROGRESS" ELSE "PLACEMENT_READY"
    BY <2>3, <2>4, <2>6, <2>7 DEF Base, Control, TypeInv
  <2>12. Control'
    BY <2>4, <2>6, <2>8, <2>9, <2>10, <2>11 DEF Base, Control
  <2> QED
    BY <2>5, <2>12 DEF Base
<1>3. CASE CallFallback
  <2>1. loop' \in Loop /\ loop'.at = "await" /\ loop'.vm = loop.vm /\ loop'.left = loop.left
    BY <1>0, <1>3 DEF CallFallback, Loop
  <2>2. TypeInv'
    BY <1>3, <2>1, CallsNamed DEF CallFallback, Base, TypeInv
  <2>3. Control'
    BY <1>3, <2>1, CallsNamed DEF CallFallback, Base, Control
  <2> QED
    BY <2>2, <2>3 DEF Base
<1>4. CASE HearFallback
  <2>1. loop' \in Loop /\ loop'.at = "refresh" /\ loop'.vm = loop.vm /\ loop'.left = loop.left /\ loop.at # "idle"
    BY <1>0, <1>4 DEF HearFallback, Loop
  <2>2. label' \in Tags /\ (Fault \/ UNCHANGED faults) /\ calls' = Late("loop")
    BY <1>4, CallsAre DEF HearFallback, Heard, Call, Base, TypeInv
  <2>3. TypeInv'
    BY <1>4, <2>1, <2>2, CallsNamed, FaultType DEF HearFallback, Base, TypeInv
  <2>4. Control'
    BY <1>4, <2>1, <2>2, CallsNamed DEF HearFallback, Base, Control
  <2> QED
    BY <2>3, <2>4 DEF Base
<1>5. CASE RefreshSlice
  <2>1. loop' \in Loop /\ loop'.at = "rows" /\ loop'.vm = loop.vm /\ loop'.left = loop.left /\ loop.at # "idle"
    BY <1>0, <1>5 DEF RefreshSlice, Loop
  <2>2. TypeInv'
    BY <1>5, <2>1 DEF RefreshSlice, Base, TypeInv
  <2>3. Control'
    BY <1>5, <2>1 DEF RefreshSlice, Base, Control
  <2> QED
    BY <2>2, <2>3 DEF Base
<1>6. CASE ReadRows
  <2> DEFINE p == [label |-> loop.label, ifs |-> Interfaces(loop.vm)]
             h == [loop.held EXCEPT ![loop.vm] = p]
  <2>1. loop.vm \in VMs /\ loop.at = "rows"
    BY <1>6, LoopIs DEF ReadRows
  <2>2. p \in Payload
    BY <1>0, <2>1, InterfacesType DEF Payload, Loop, Base
  <2>3. payload' = [payload EXCEPT ![loop.vm] = p] /\ loop' = [loop EXCEPT !.at = "drive", !.held[loop.vm] = p]
    BY <1>6 DEF ReadRows
  <2> HIDE DEF p
  <2>4. h \in [VMs -> Payload]
    BY <2>2, LoopIs
  <2>5. loop' = [loop EXCEPT !.at = "drive", !.vm = loop.vm, !.left = loop.left, !.held = h, !.label = loop.label]
    BY <1>0, <2>3 DEF Loop
  <2> HIDE DEF h
  <2>6. loop' \in Loop /\ loop'.at = "drive" /\ loop'.vm = loop.vm /\ loop'.left = loop.left
    BY <1>0, <2>4, <2>5 DEF Loop
  <2>7. payload' \in [VMs -> Payload]
    BY <1>0, <2>2, <2>3
  <2>8. TypeInv'
    BY <1>6, <2>6, <2>7 DEF ReadRows, Base, TypeInv
  <2>9. Control'
    BY <1>6, <2>1, <2>6 DEF ReadRows, Base, Control
  <2> QED
    BY <2>8, <2>9 DEF Base
<1> QED
  BY <1>1, <1>2, <1>3, <1>4, <1>5, <1>6

LEMMA TypeDriver ==
  ASSUME Base, CallDriver \/ RecoverStale \/ DispatcherCrash
  PROVE  Base'
<1> USE DEF activation, rows, hosts
<1>1. CASE CallDriver
  <2>1. loop.at = "drive" /\ UNCHANGED <<step, session, status, label, used, nets, payload, worker, calls>>
    BY <1>1 DEF CallDriver
  <2>2. PICK outcome \in {"READY", "FAILED"} : Answer(outcome)
    BY <1>1 DEF CallDriver
  <2>3. /\ task' = [task EXCEPT ![loop.vm] = outcome]
        /\ loop' \in Loop /\ loop'.at = "idle" /\ loop'.left = loop.left \ {loop.vm}
    BY <2>1, <2>2, Answers
  <2>4. Fault \/ UNCHANGED faults
    BY <1>1 DEF CallDriver, CreationFails
  <2>5. (Create(Request) \/ CreationFails(Request)) /\ (Wire(Request) \/ UNCHANGED veth)
    BY <1>1 DEF CallDriver, CreationFails, Create
  <2>6. /\ up' \in [VMs -> [runs : BOOLEAN, label : Tags, ifs : Sets]]
        /\ \A v \in VMs : v # loop.vm => up'[v] = up[v]
    BY <2>1, <2>5, UpType
  <2>7. veth' \in [Workers -> Tags] /\ faults' \in 0..MaxFaults
    BY <2>1, <2>4, <2>5, WireType, FaultType
  <2>8. TypeInv'
    BY <2>1, <2>3, <2>6, <2>7 DEF Base, TypeInv
  <2>9. loop.vm \in VMs /\ task[loop.vm] = "IN_PROGRESS" /\ worker[loop.vm] # NoWorker /\ loop.vm \in loop.left
    BY <2>1, LoopIs, DeploymentAssumption DEF Base, Control
  <2>10. task \in [VMs -> {"none", "PENDING", "PLACEMENT_READY", "IN_PROGRESS", "READY", "FAILED"}]
    BY DEF Base, TypeInv
  <2>11. step # "tasks"
    BY <2>9 DEF Base, Control
  <2>12. Control'
    BY <2>1, <2>3, <2>6, <2>9, <2>10, <2>11 DEF Base, Control
  <2> QED
    BY <2>8, <2>12 DEF Base
<1>2. CASE RecoverStale
  <2>1. TypeInv'
    BY <1>2 DEF RecoverStale, Base, TypeInv
  <2>2. Control'
    BY <1>2 DEF RecoverStale, Base, Control, TypeInv
  <2> QED
    BY <2>1, <2>2 DEF Base
<1>3. CASE DispatcherCrash
  <2>1. Idle \in Loop /\ Idle.at = "idle" /\ Idle.left = {}
    BY IdleType
  <2>2. CASE loop.at = "drive" /\ Create(Request)
    <3>1. /\ up' \in [VMs -> [runs : BOOLEAN, label : Tags, ifs : Sets]]
          /\ \A v \in VMs : v # loop.vm => up'[v] = up[v]
      BY <2>2, UpType
    <3>2. veth' \in [Workers -> Tags]
      BY <2>2, WireType DEF Create
    <3>3. TypeInv'
      BY <1>3, <2>1, <3>1, <3>2, CallsNamed, FaultType DEF DispatcherCrash, Base, TypeInv
    <3>4. worker[loop.vm] # NoWorker
      BY <2>2, LoopIs, DeploymentAssumption
    <3>5. Control'
      BY <1>3, <2>1, <3>1, <3>4, CallsNamed DEF DispatcherCrash, Base, Control
    <3> QED
      BY <3>3, <3>5 DEF Base
  <2>3. CASE UNCHANGED hosts
    <3>1. TypeInv'
      BY <1>3, <2>1, <2>3, CallsNamed, FaultType DEF DispatcherCrash, Base, TypeInv
    <3>2. Control'
      BY <1>3, <2>1, <2>3, CallsNamed DEF DispatcherCrash, Base, Control
    <3> QED
      BY <3>1, <3>2 DEF Base
  <2> QED
    BY <1>3, <2>2, <2>3 DEF DispatcherCrash
<1> QED
  BY <1>1, <1>2, <1>3

LEMMA BaseNext == Base /\ [Next]_vars => Base'
<1> SUFFICES ASSUME Base, [Next]_vars PROVE Base'
  OBVIOUS
<1>1. CASE Next
  BY <1>1, TypeNetworking, TypeManager, TypeLoop, TypeDriver DEF Next, Dispatcher
<1>2. CASE UNCHANGED vars
  BY <1>2 DEF vars, activation, rows, hosts, Base, TypeInv, Control
<1> QED
  BY <1>1, <1>2
-----------------------------------------------------------------------------
(***************************************************************************)
(* What the steps do to the calls and to the rounds, once for all of the   *)
(* invariants about them.                                                  *)
(***************************************************************************)
Early == step \in {"tasks", "placement", "refresh"}

\* Every step but an allocate leaves the rounds and the USED labels alone; of the
\* calls it may add one, or stop waiting.
Apart ==
  /\ UNCHANGED <<nets, used>>
  /\ \/ UNCHANGED calls
     \/ \E who \in {"manager", "loop"} : calls' = Late(who)
     \/ Send("manager") /\ step = "refresh" /\ step' = "networking"
     \/ Send("loop") /\ UNCHANGED step /\ Len(calls) < IF Early THEN MaxCalls - 1 ELSE MaxCalls
  /\ Early' => Early

Others ==
  Manager \/ OtherActivation \/ ManagerCrash \/ ListTasks \/ (\E v \in VMs : Lock(v)) \/ CallFallback
    \/ HearFallback \/ RefreshSlice \/ ReadRows \/ CallDriver \/ RecoverStale \/ DispatcherCrash

LEMMA OthersApart == Others => Apart
<1> SUFFICES ASSUME Others PROVE Apart
  OBVIOUS
<1> USE DEF activation, rows, hosts, Apart, Early
<1>1. CASE Manager
  <2>1. CASE CreateTasks
    BY <2>1 DEF CreateTasks
  <2>2. CASE CallPlacement
    BY <2>2 DEF CallPlacement, Place
  <2>3. CASE CallNetworking
    BY <2>3 DEF CallNetworking
  <2>4. CASE HearNetworking
    BY <2>4 DEF HearNetworking
  <2>5. CASE Activate
    BY <2>5 DEF Activate
  <2> QED
    BY <1>1, <2>1, <2>2, <2>3, <2>4, <2>5 DEF Manager
<1>2. CASE OtherActivation \/ ManagerCrash
  BY <1>2 DEF OtherActivation, Place, ManagerCrash
<1>3. CASE CallFallback
  BY <1>3 DEF CallFallback
<1>4. CASE HearFallback
  BY <1>4 DEF HearFallback
<1>5. CASE ListTasks \/ (\E v \in VMs : Lock(v)) \/ RefreshSlice \/ ReadRows
  BY <1>5 DEF ListTasks, Lock, RefreshSlice, ReadRows
<1>6. CASE CallDriver \/ RecoverStale \/ DispatcherCrash
  BY <1>6 DEF CallDriver, RecoverStale, DispatcherCrash
<1> QED
  BY <1>1, <1>2, <1>3, <1>4, <1>5, <1>6 DEF Others

LEMMA Steps == [Next]_vars => Networking \/ Others \/ UNCHANGED vars
BY DEF Next, Dispatcher, Others

\* The calls there were, after such a step.
LEMMA ApartCalls ==
  ASSUME Base, Apart
  PROVE  /\ \A i \in DOMAIN calls : /\ i \in DOMAIN calls' /\ calls'[i].map = calls[i].map
                                    /\ calls'[i].stage = calls[i].stage /\ calls'[i].label = calls[i].label
         /\ \A i \in DOMAIN calls' : i \notin DOMAIN calls =>
              calls'[i].map = worker /\ calls'[i].stage = "sent" /\ calls'[i].label = NoLabel
<1>1. CASE Send("manager") \/ Send("loop")
  BY <1>1, SendAdds DEF Base
<1>2. ASSUME NEW who \in {"manager", "loop"}, calls' = Late(who) PROVE DOMAIN calls' = DOMAIN calls
  BY <1>2, LateKeeps DEF Base
<1>3. CASE \E who \in {"manager", "loop"} : calls' = Late(who)
  BY <1>2, <1>3, LateKeeps DEF Base
<1> QED
  BY <1>1, <1>3 DEF Apart

\* Counting the calls that came to their end.
LEMMA DoneFinite == ASSUME Base PROVE IsFiniteSet(Done) /\ Cardinality(Done) <= Len(calls) /\ Cardinality(Done) \in Nat
<1>1. Len(calls) \in Nat /\ Done \subseteq 1..Len(calls)
  BY CallsAre DEF Base, Done
<1>2. IsFiniteSet(1..Len(calls)) /\ Cardinality(1..Len(calls)) = Len(calls)
  BY <1>1, FS_Interval, SMTT(20)
<1> QED
  BY <1>1, <1>2, FS_Subset, FS_CardinalityType

LEMMA CountingNext == Base /\ Counting /\ [Next]_vars => Counting'
<1> SUFFICES ASSUME Base, Counting, [Next]_vars PROVE Counting'
  OBVIOUS
<1> USE DEF activation, rows, hosts, Early
<1>0. Len(calls) \in Nat /\ Len(nets) \in Nat
  BY CallsAre DEF Base
<1>1. ASSUME NEW i \in DOMAIN calls, AllocateRead(i) PROVE Counting'
  <2>1. Done' = Done /\ Len(calls') = Len(calls)
    BY <1>1, AllocateReads DEF Base, Done
  <2> QED
    BY <1>1, <2>1 DEF Counting, AllocateRead
<1>2. ASSUME NEW i \in DOMAIN calls, AllocateCommit(i) PROVE Counting'
  <2>1. i \notin Done /\ Done' = Done \cup {i} /\ Len(calls') = Len(calls) /\ Len(nets') = Len(nets) + 1
    BY <1>2, AllocateCommits DEF Base, Done
  <2>2. Cardinality(Done') = Cardinality(Done) + 1
    BY <2>1, DoneFinite, FS_AddElement
  <2> QED
    BY <1>2, <2>1, <2>2 DEF Counting, AllocateCommit
<1>3. CASE Others
  <2>1. Apart
    BY <1>3, OthersApart
  <2>2. Done' = Done
    BY <2>1, ApartCalls DEF Done
  <2>3. /\ Len(calls') <= MaxCalls
        /\ Early' => Len(calls') < MaxCalls
    <3>1. CASE Send("manager") /\ step = "refresh" /\ step' = "networking"
      BY <1>0, <3>1, SendAdds, DeploymentAssumption DEF Base, Counting
    <3>2. CASE Send("loop") /\ UNCHANGED step /\ Len(calls) < IF Early THEN MaxCalls - 1 ELSE MaxCalls
      BY <1>0, <3>2, SendAdds, DeploymentAssumption DEF Base, Counting
    <3>3. CASE UNCHANGED calls
      BY <2>1, <3>3 DEF Apart, Counting
    <3>4. CASE \E who \in {"manager", "loop"} : calls' = Late(who)
      BY <2>1, <3>4, LateKeeps DEF Apart, Counting, Base
    <3> QED
      BY <2>1, <3>1, <3>2, <3>3, <3>4 DEF Apart
  <2> QED
    BY <2>1, <2>2, <2>3 DEF Apart, Counting
<1>4. CASE UNCHANGED vars
  BY <1>4 DEF vars, Counting, Done
<1> QED
  BY <1>1, <1>2, <1>3, <1>4, Steps DEF Networking
-----------------------------------------------------------------------------
(***************************************************************************)
(* Where labels show.                                                      *)
(***************************************************************************)
\* Read with the parts of the union apart.
LEMMA ShownIs ==
  /\ label \in Shown /\ session.seen \in Shown /\ session.answer \in Shown /\ loop.label \in Shown
  /\ \A i \in Known : calls[i].label \in Shown
  /\ \A v \in VMs : payload[v].label \in Shown /\ loop.held[v].label \in Shown /\ up[v].label \in Shown
  /\ \A w \in Workers : veth[w] \in Shown
BY DEF Shown

LEMMA ShownWithin ==
  ASSUME NEW S, label' \in S, session'.seen \in S, session'.answer \in S, loop'.label \in S,
         \A i \in Known' : calls'[i].label \in S,
         \A v \in VMs : payload'[v].label \in S /\ loop'.held[v].label \in S /\ up'[v].label \in S,
         \A w \in Workers : veth'[w] \in S
  PROVE  Shown' \subseteq S
BY DEF Shown

LEMMA KnownApart == ASSUME Base, Apart PROVE \A i \in Known' : i \in Known /\ calls'[i].label = calls[i].label
BY ApartCalls DEF Known

\* No step but a commit of allocate shows a label that did not show already.
LEMMA ShownOthers ==
  ASSUME Base, Others
  PROVE  Shown' \subseteq Shown \cup {NoLabel} /\ (label # NoLabel => label' # NoLabel)
<1> DEFINE S == Shown \cup {NoLabel}
<1> USE DEF activation, rows, hosts
<1>1. /\ label \in S /\ session.seen \in S /\ session.answer \in S /\ loop.label \in S /\ NoLabel \in S
      /\ \A i \in Known : calls[i].label \in S
      /\ \A v \in VMs : payload[v].label \in S /\ loop.held[v].label \in S /\ up[v].label \in S
      /\ \A w \in Workers : veth[w] \in S
  BY ShownIs
<1>2. \A i \in Known' : calls'[i].label \in S
  BY <1>1, KnownApart, OthersApart
<1>3. /\ NoSession.seen = NoLabel /\ NoSession.answer = NoLabel
      /\ Bare.label = NoLabel
  BY DEF NoSession, Bare
<1>4. \A i \in DOMAIN calls : calls[i].stage = "done" => calls[i].label \in S /\ calls[i].label # NoLabel
  BY <1>1, DeploymentAssumption DEF Known, Base, Control
<1>5. session \in [seen : Tags, answer : Tags] /\ loop \in Loop
  BY DEF Base, TypeInv
<1> SUFFICES Shown' \subseteq S /\ (label # NoLabel => label' # NoLabel)
  OBVIOUS
<1> HIDE DEF S
<1>6. ASSUME UNCHANGED <<label, session, loop, payload, up, veth>> PROVE Shown' \subseteq S /\ (label # NoLabel => label' # NoLabel)
  BY <1>1, <1>2, <1>6, ShownWithin
<1>7. CASE CreateTasks \/ CallPlacement \/ OtherActivation \/ RecoverStale
  BY <1>6, <1>7 DEF CreateTasks, CallPlacement, OtherActivation, Place, RecoverStale
<1>8. CASE CallNetworking
  <2>1. session'.seen = label /\ session'.answer = session.answer
    BY <1>5, <1>8 DEF CallNetworking
  <2> QED
    BY <1>1, <1>2, <1>8, <2>1, ShownWithin DEF CallNetworking
<1>9. CASE HearNetworking
  <2>1. session'.seen = session.seen /\ session'.answer \in S
    <3>1. session' = session \/ \E i \in DOMAIN calls : session' =
            [session EXCEPT !.answer = IF calls[i].stage = "done" THEN calls[i].label ELSE NoLabel]
      BY <1>9 DEF HearNetworking
    <3> QED
      BY <1>1, <1>4, <1>5, <3>1
  <2> QED
    BY <1>1, <1>2, <1>9, <2>1, ShownWithin DEF HearNetworking
<1>10. CASE Activate
  <2>1. label' \in S /\ (label # NoLabel => label' # NoLabel)
    BY <1>1, <1>10 DEF Activate
  <2>2. \A v \in VMs : payload'[v].label = session.answer
    BY <1>10 DEF Activate
  <2> QED
    BY <1>1, <1>2, <1>3, <1>10, <2>1, <2>2, ShownWithin DEF Activate
<1>11. CASE ManagerCrash
  BY <1>1, <1>2, <1>3, <1>11, ShownWithin DEF ManagerCrash
<1>12. CASE ListTasks
  <2>1. loop'.label = loop.label /\ \A v \in VMs : loop'.held[v] \in {payload[v], Bare}
    BY <1>5, <1>12 DEF ListTasks, Loop
  <2> QED
    BY <1>1, <1>2, <1>3, <1>12, <2>1, ShownWithin DEF ListTasks
<1>13. CASE \E v \in VMs : Lock(v)
  <2>1. loop'.label = label /\ loop'.held = loop.held
    BY <1>5, <1>13 DEF Lock, Loop
  <2>2. UNCHANGED <<label, session, payload, up, veth>>
    BY <1>13 DEF Lock
  <2> QED
    BY <1>1, <1>2, <2>1, <2>2, ShownWithin
<1>14. CASE CallFallback
  <2>1. loop'.label = loop.label /\ loop'.held = loop.held
    BY <1>5, <1>14 DEF CallFallback, Loop
  <2> QED
    BY <1>1, <1>2, <1>14, <2>1, ShownWithin DEF CallFallback
<1>15. CASE HearFallback
  <2>1. loop'.label = loop.label /\ loop'.held = loop.held
    BY <1>5, <1>15 DEF HearFallback, Loop
  <2>2. label' \in S /\ (label # NoLabel => label' # NoLabel)
    BY <1>1, <1>4, <1>15 DEF HearFallback, Heard
  <2> QED
    BY <1>1, <1>2, <1>15, <2>1, <2>2, ShownWithin DEF HearFallback
<1>16. CASE RefreshSlice
  <2>1. loop'.label = label /\ loop'.held = loop.held
    BY <1>5, <1>16 DEF RefreshSlice, Loop
  <2> QED
    BY <1>1, <1>2, <1>16, <2>1, ShownWithin DEF RefreshSlice
<1>17. CASE ReadRows
  <2> DEFINE p == [label |-> loop.label, ifs |-> Interfaces(loop.vm)]
  <2>1. payload' = [payload EXCEPT ![loop.vm] = p] /\ loop' = [loop EXCEPT !.at = "drive", !.held[loop.vm] = p]
    BY <1>17 DEF ReadRows
  <2>2. p.label = loop.label
    OBVIOUS
  <2>3. payload \in [VMs -> Payload] /\ loop.held \in [VMs -> Payload]
    BY LoopIs DEF Base, TypeInv
  <2> HIDE DEF p
  <2>4. loop'.label = loop.label /\ \A v \in VMs : loop'.held[v] \in {p, loop.held[v]}
    BY <1>5, <2>1, <2>3 DEF Loop
  <2>5. \A v \in VMs : payload'[v] \in {p, payload[v]}
    BY <2>1, <2>3
  <2>6. \A v \in VMs : payload'[v].label \in S /\ loop'.held[v].label \in S
    BY <1>1, <2>2, <2>4, <2>5
  <2> QED
    BY <1>1, <1>2, <1>17, <2>4, <2>6, ShownWithin DEF ReadRows
<1>18. ASSUME loop.at = "drive", Create(Request) \/ CreationFails(Request)
       PROVE  /\ \A v \in VMs : up'[v].label \in S
              /\ \A w \in Workers : veth'[w] \in S
  <2>1. loop.vm \in VMs /\ Request.label \in S
    BY <1>1, <1>18, RequestType, LoopIs
  <2>2. Wire(Request) \/ UNCHANGED veth
    BY <1>18 DEF Create, CreationFails
  <2>3. \A w \in Workers : veth'[w] \in S
    BY <1>1, <1>18, <2>1, <2>2, WireType
  <2>4. up'[loop.vm].label \in S
    <3>1. up[loop.vm].label \in S /\ up[loop.vm] \in [runs : BOOLEAN, label : Tags, ifs : Sets]
      BY <1>1, <2>1 DEF Base, TypeInv
    <3>2. [up[loop.vm] EXCEPT !.ifs = {}].label = up[loop.vm].label
      BY <3>1
    <3> QED
      BY <1>18, <2>1, <3>1, <3>2, UpType
  <2> QED
    BY <1>1, <1>18, <2>3, <2>4, UpType
<1>19. CASE CallDriver
  <2>1. loop.at = "drive" /\ UNCHANGED <<label, session, payload>> /\ (Create(Request) \/ CreationFails(Request))
    BY <1>19 DEF CallDriver
  <2>2. PICK outcome \in {"READY", "FAILED"} : Answer(outcome)
    BY <1>19 DEF CallDriver
  <2>3. loop'.label = NoLabel /\ loop'.held = [loop.held EXCEPT ![loop.vm] = Bare] /\ loop.held \in [VMs -> Payload]
    BY <2>1, <2>2, Answers, LoopIs
  <2>4. \A v \in VMs : loop'.held[v].label \in S
    BY <1>1, <1>3, <2>3
  <2> QED
    BY <1>1, <1>2, <1>18, <2>1, <2>3, <2>4, ShownWithin
<1>20. CASE DispatcherCrash
  <2>1. loop'.label = NoLabel /\ \A v \in VMs : loop'.held[v] = Bare
    BY <1>20, IdleType DEF DispatcherCrash
  <2>2. UNCHANGED <<label, session, payload>>
    BY <1>20 DEF DispatcherCrash
  <2>3. (loop.at = "drive" /\ Create(Request)) \/ UNCHANGED <<up, veth>>
    BY <1>20 DEF DispatcherCrash
  <2>4. /\ \A v \in VMs : up'[v].label \in S
        /\ \A w \in Workers : veth'[w] \in S
    BY <1>1, <1>18, <2>3
  <2> QED
    BY <1>1, <1>2, <1>3, <2>1, <2>2, <2>4, ShownWithin
<1> QED
  BY <1>7, <1>8, <1>9, <1>10, <1>11, <1>12, <1>13, <1>14, <1>15, <1>16, <1>17, <1>19, <1>20 DEF Others, Manager

LEMMA LabelsNext == Base /\ LabelsShown /\ [Next]_vars => LabelsShown'
<1> SUFFICES ASSUME Base, LabelsShown, [Next]_vars PROVE LabelsShown'
  OBVIOUS
<1> USE DEF activation, rows, hosts
<1>0. Len(nets) \in Nat /\ (nets = <<>> <=> Len(nets) = 0)
  BY CallsAre DEF Base, TypeInv
<1>1. ASSUME NEW i \in DOMAIN calls, AllocateRead(i) PROVE LabelsShown'
  <2>1. UNCHANGED <<label, session, loop, payload, up, veth, nets, used>>
    BY <1>1 DEF AllocateRead
  <2>2. \A j \in Known' : (j \in Known /\ calls'[j].label = calls[j].label) \/ calls'[j].label = label
    BY <1>1, AllocateReads DEF Known, Base
  <2>3. \A j \in Known' : calls'[j].label \in Shown
    BY <2>2, ShownIs
  <2>4. Shown' \subseteq Shown
    BY <2>1, <2>3, ShownIs, ShownWithin
  <2> QED
    BY <2>1, <2>4 DEF LabelsShown
<1>2. ASSUME NEW i \in DOMAIN calls, AllocateCommit(i) PROVE LabelsShown'
  <2> DEFINE x == calls[i].label
             S == Shown \cup {x}
  <2>1. UNCHANGED <<session, loop, payload, up, veth>>
    BY <1>2 DEF AllocateCommit
  <2>2. \A j \in Known' : calls'[j].label \in S
    BY <1>2, AllocateCommits, ShownIs DEF Known, Base
  <2>3. label' \in S
    BY <1>2, ShownIs DEF AllocateCommit
  <2>4. Shown' \subseteq S
    <3> HIDE DEF S
    <3>1. Shown \subseteq S
      BY DEF S
    <3> QED
      BY <2>1, <2>2, <2>3, <3>1, ShownIs, ShownWithin
  <2>5. Len(nets') = Len(nets) + 1 /\ nets' # <<>>
    BY <1>0, <1>2, AllocateCommits DEF Base
  <2>6. CASE calls[i].stage = "picked"
    <3>1. label' = x /\ used' = used \cup {x}
      BY <1>2, <2>6 DEF AllocateCommit
    <3>2. Len(nets') <= 1 => Shown \subseteq {NoLabel}
      BY <1>0, <2>5 DEF LabelsShown
    <3> QED
      BY <2>4, <2>5, <3>1, <3>2 DEF LabelsShown
  <2>7. CASE calls[i].stage = "kept"
    \* The label it kept is one that shows, so that there were links already.
    <3>1. UNCHANGED <<label, used>> /\ x \in Shown /\ x # NoLabel
      BY <1>2, <2>7, ShownIs, DeploymentAssumption DEF AllocateCommit, Known, Base, Control
    <3>2. nets # <<>> /\ Len(nets') > 1
      BY <1>0, <2>5, <3>1 DEF LabelsShown
    <3> QED
      BY <1>0, <2>4, <2>5, <3>1, <3>2 DEF LabelsShown
  <2> QED
    BY <1>2, <2>6, <2>7 DEF AllocateCommit
<1>3. CASE Others
  <2>1. UNCHANGED <<nets, used>> /\ Shown' \subseteq Shown \cup {NoLabel} /\ (label # NoLabel => label' # NoLabel)
    BY <1>3, OthersApart, ShownOthers DEF Apart
  <2>2. label' \in Shown'
    BY DEF Shown
  <2> QED
    BY <2>1, <2>2 DEF LabelsShown
<1>4. CASE UNCHANGED vars
  <2>1. Shown' = Shown
    BY <1>4 DEF vars, Shown, Known
  <2> QED
    BY <1>4, <2>1 DEF vars, LabelsShown
<1> QED
  BY <1>1, <1>2, <1>3, <1>4, Steps DEF Networking
-----------------------------------------------------------------------------
(***************************************************************************)
(* The rounds, the interfaces and the veth pairs they call for.            *)
(***************************************************************************)
\* Rounds are only added, and a VM with a worker keeps it: so what a round says
\* of a VM and of an interface stays as it is.
Steady ==
  /\ \A n \in DOMAIN nets : n \in DOMAIN nets' /\ nets'[n] = nets[n]
  /\ \A v \in VMs : worker[v] # NoWorker => worker'[v] = worker[v]

LEMMA StepsSteady == Base /\ [Next]_vars => Steady
<1> SUFFICES ASSUME Base, [Next]_vars PROVE Steady
  OBVIOUS
<1> USE DEF activation, rows, hosts
<1>1. ASSUME NEW i \in DOMAIN calls, AllocateRead(i) PROVE Steady
  BY <1>1 DEF AllocateRead, Steady
<1>2. ASSUME NEW i \in DOMAIN calls, AllocateCommit(i) PROVE Steady
  BY <1>2, AllocateCommits DEF AllocateCommit, Steady, Base
<1>3. CASE Others
  <2>1. UNCHANGED nets
    BY <1>3, OthersApart DEF Apart
  <2>2. UNCHANGED worker \/ \E some : Place(some)
    BY <1>3 DEF Others, Manager, CreateTasks, CallPlacement, CallNetworking, HearNetworking, Activate, OtherActivation,
         ManagerCrash, ListTasks, Lock, CallFallback, HearFallback, RefreshSlice, ReadRows, CallDriver, RecoverStale,
         DispatcherCrash
  <2>3. \A v \in VMs : worker[v] # NoWorker => worker'[v] = worker[v]
    BY <2>2, Places
  <2> QED
    BY <2>1, <2>3 DEF Steady
<1>4. CASE UNCHANGED vars
  BY <1>4 DEF vars, Steady
<1> QED
  BY <1>1, <1>2, <1>3, <1>4, Steps DEF Networking

LEMMA SteadyInterfaces ==
  ASSUME Steady
  PROVE  /\ \A v \in VMs : Interfaces(v) \subseteq Interfaces(v)'
         /\ \A v \in VMs : \A i \in Interfaces(v) : IsRemote(i)' <=> IsRemote(i)
         /\ \A w \in Workers : Patched(w) => Patched(w)'
<1>1. \A v \in VMs : Interfaces(v) \subseteq Interfaces(v)'
  BY DEF Steady, Interfaces
<1>2. ASSUME NEW v \in VMs, NEW i \in Interfaces(v) PROVE IsRemote(i)' <=> IsRemote(i)
  <2>1. i[1] \in DOMAIN nets
    BY DEF Interfaces
  <2> QED
    BY <2>1 DEF Steady, IsRemote
<1>3. ASSUME NEW w \in Workers, Patched(w) PROVE Patched(w)'
  <2>1. PICK v \in VMs : worker[v] = w /\ \E i \in Interfaces(v) : IsRemote(i)
    BY <1>3 DEF Patched
  <2>2. worker'[v] = w
    BY <2>1, DeploymentAssumption DEF Steady
  <2>3. \E i \in Interfaces(v)' : IsRemote(i)'
    BY <1>1, <1>2, <2>1
  <2> QED
    BY <2>2, <2>3 DEF Patched
<1> QED
  BY <1>1, <1>2, <1>3

LEMMA MapsNext == Base /\ Maps /\ [Next]_vars => Maps'
<1> SUFFICES ASSUME Base, Maps, [Next]_vars, NEW v \in VMs
             PROVE  /\ \A n \in DOMAIN nets' : nets'[n][v] \in {NoWorker, worker'[v]}
                    /\ \A i \in DOMAIN calls' : calls'[i].map[v] \in {NoWorker, worker'[v]}
  BY DEF Maps
<1>0. \A x \in {NoWorker, worker[v]} : x \in {NoWorker, worker'[v]}
  BY StepsSteady DEF Steady
<1>1. ASSUME NEW i \in DOMAIN calls, AllocateRead(i)
      PROVE  UNCHANGED nets /\ \A j \in DOMAIN calls' : j \in DOMAIN calls /\ calls'[j].map = calls[j].map
  BY <1>1, AllocateReads DEF AllocateRead, Base, rows
<1>2. ASSUME NEW i \in DOMAIN calls, AllocateCommit(i)
      PROVE  /\ \A n \in DOMAIN nets' : (n \in DOMAIN nets /\ nets'[n] = nets[n]) \/ nets'[n] = calls[i].map
             /\ \A j \in DOMAIN calls' : j \in DOMAIN calls /\ calls'[j].map = calls[j].map
  BY <1>2, AllocateCommits DEF Base
<1>3. ASSUME Others
      PROVE  UNCHANGED nets /\ \A j \in DOMAIN calls' : (j \in DOMAIN calls /\ calls'[j].map = calls[j].map) \/ calls'[j].map = worker
  BY <1>3, OthersApart, ApartCalls DEF Apart
<1>4. ASSUME UNCHANGED vars PROVE UNCHANGED <<nets, calls>>
  BY <1>4 DEF vars, rows
<1> QED
  BY <1>0, <1>1, <1>2, <1>3, <1>4, Steps DEF Networking, Maps

\* A payload read from the rows is whole.
LEMMA RowsWire ==
  ASSUME Base, LabelsShown, NEW x \in Shown, NEW v \in VMs
  PROVE  Wires(v, [label |-> x, ifs |-> Interfaces(v)])
<1> SUFFICES ASSUME x # NoLabel, NEW l \in Links, v \in Ends[l] PROVE \E i \in Interfaces(v) : i[2] = l
  BY DEF Wires
<1>1. 1 \in DOMAIN nets
  BY CallsAre DEF LabelsShown, Base, TypeInv
<1>2. <<1, l>> \in Interfaces(v)
  BY <1>1 DEF Interfaces
<1> QED
  BY <1>2

LEMMA BareWires == \A v \in VMs : Wires(v, Bare)
BY DEF Wires, Bare

LEMMA WiringNext == Base /\ LabelsShown /\ Wiring /\ [Next]_vars => Wiring'
<1> SUFFICES ASSUME Base, LabelsShown, Wiring, [Next]_vars PROVE Wiring'
  OBVIOUS
<1> USE DEF activation, rows, hosts
<1>1. Steady
  BY StepsSteady
<1>2. ASSUME UNCHANGED <<payload, loop, up>> PROVE Wiring'
  BY <1>1, <1>2, SteadyInterfaces DEF Wiring, Wires
<1>3. ASSUME UNCHANGED nets,
             \A v \in VMs : Wires(v, payload'[v]) /\ Wires(v, loop'.held[v]),
             \A v \in VMs : up'[v].ifs \subseteq Interfaces(v)
      PROVE  Wiring'
  BY <1>3 DEF Wiring, Wires, Interfaces
<1>4. loop \in Loop /\ payload \in [VMs -> Payload]
  BY DEF Base, TypeInv
<1>5. CASE Networking
  BY <1>2, <1>5 DEF Networking, AllocateRead, AllocateCommit
<1>6. CASE CreateTasks \/ CallPlacement \/ OtherActivation \/ CallNetworking \/ HearNetworking \/ ManagerCrash \/ RecoverStale
  BY <1>2, <1>6 DEF CreateTasks, CallPlacement, OtherActivation, Place, CallNetworking, HearNetworking, ManagerCrash, RecoverStale
<1>7. CASE Activate
  <2>1. \A v \in VMs : Wires(v, payload'[v])
    BY <1>7, RowsWire, ShownIs DEF Activate
  <2> QED
    BY <1>3, <1>7, <2>1 DEF Activate, Wiring
<1>8. CASE ListTasks
  <2>1. \A v \in VMs : loop'.held[v] \in {payload[v], Bare}
    BY <1>4, <1>8 DEF ListTasks, Loop
  <2>2. \A v \in VMs : Wires(v, loop'.held[v])
    BY <2>1, BareWires DEF Wiring
  <2> QED
    BY <1>3, <1>8, <2>2 DEF ListTasks, Wiring
<1>9. CASE (\E v \in VMs : Lock(v)) \/ CallFallback \/ HearFallback \/ RefreshSlice
  <2>1. loop'.held = loop.held /\ UNCHANGED <<nets, payload, up>>
    BY <1>4, <1>9 DEF Lock, CallFallback, HearFallback, RefreshSlice, Loop
  <2> QED
    BY <1>3, <2>1 DEF Wiring
<1>10. CASE ReadRows
  <2> DEFINE p == [label |-> loop.label, ifs |-> Interfaces(loop.vm)]
  <2>1. payload' = [payload EXCEPT ![loop.vm] = p] /\ loop' = [loop EXCEPT !.at = "drive", !.held[loop.vm] = p]
    BY <1>10 DEF ReadRows
  <2>2. loop.vm \in VMs /\ loop.held \in [VMs -> Payload]
    BY <1>10, LoopIs DEF ReadRows
  <2>3. Wires(loop.vm, p)
    BY <2>2, RowsWire, ShownIs
  <2> HIDE DEF p
  <2>4. \A v \in VMs : /\ payload'[v] = IF v = loop.vm THEN p ELSE payload[v]
                       /\ loop'.held[v] = IF v = loop.vm THEN p ELSE loop.held[v]
    BY <1>4, <2>1, <2>2 DEF Loop
  <2>5. \A v \in VMs : Wires(v, payload'[v]) /\ Wires(v, loop'.held[v])
    BY <2>3, <2>4 DEF Wiring
  <2> QED
    BY <1>3, <1>10, <2>5 DEF ReadRows, Wiring
<1>11. ASSUME loop.at = "drive", Create(Request) \/ CreationFails(Request)
       PROVE  \A v \in VMs : up'[v].ifs \subseteq Interfaces(v)
  <2>1. loop.vm \in VMs /\ Request.ifs \subseteq Interfaces(loop.vm)
    BY <1>11, RequestType, LoopIs DEF Wiring, Wires
  <2>2. up[loop.vm] \in [runs : BOOLEAN, label : Tags, ifs : Sets]
    BY <2>1 DEF Base, TypeInv
  <2>3. [up[loop.vm] EXCEPT !.ifs = {}].ifs = {}
    BY <2>2
  <2>4. up'[loop.vm].ifs \subseteq Interfaces(loop.vm)
    BY <1>11, <2>1, <2>3, UpType DEF Wiring
  <2> QED
    BY <1>11, <2>4, UpType DEF Wiring
<1>12. CASE CallDriver
  <2>1. loop.at = "drive" /\ UNCHANGED <<nets, payload>> /\ (Create(Request) \/ CreationFails(Request))
    BY <1>12 DEF CallDriver
  <2>2. PICK outcome \in {"READY", "FAILED"} : Answer(outcome)
    BY <1>12 DEF CallDriver
  <2>3. loop'.held = [loop.held EXCEPT ![loop.vm] = Bare] /\ loop.held \in [VMs -> Payload]
    BY <2>1, <2>2, Answers, LoopIs
  <2>4. \A v \in VMs : Wires(v, loop'.held[v])
    BY <2>3, BareWires DEF Wiring
  <2> QED
    BY <1>3, <1>11, <2>1, <2>4 DEF Wiring
<1>13. CASE DispatcherCrash
  <2>1. \A v \in VMs : loop'.held[v] = Bare
    BY <1>13, IdleType DEF DispatcherCrash
  <2>2. UNCHANGED <<nets, payload>> /\ ((loop.at = "drive" /\ Create(Request)) \/ UNCHANGED up)
    BY <1>13 DEF DispatcherCrash
  <2>3. \A v \in VMs : up'[v].ifs \subseteq Interfaces(v)
    BY <1>11, <2>2 DEF Wiring
  <2> QED
    BY <1>3, <2>1, <2>2, <2>3, BareWires DEF Wiring
<1>14. CASE UNCHANGED vars
  BY <1>2, <1>14 DEF vars
<1> QED
  BY <1>5, <1>6, <1>7, <1>8, <1>9, <1>10, <1>12, <1>13, <1>14, Steps DEF Others, Manager

\* What a creation, whole or not, does to the hosts.
LEMMA DriverCrosses ==
  ASSUME Base, Wiring, Crossing, loop.at = "drive", UNCHANGED <<nets, worker>>,
         Create(Request) \/ CreationFails(Request)
  PROVE  Crossing'
<1>1. /\ loop.vm \in VMs /\ worker[loop.vm] \in Workers
      /\ Request \in [runs : BOOLEAN, label : Tags, ifs : Sets] /\ Request.ifs \subseteq Interfaces(loop.vm)
  BY RequestType, LoopIs DEF Wiring, Wires
<1>2. Wire(Request) \/ UNCHANGED veth
  BY DEF Create, CreationFails
<1>3. \A w \in Workers : veth'[w] = IF Wire(Request) /\ Wired(Request) /\ w = worker[loop.vm]
                                    THEN Request.label ELSE veth[w]
  BY <1>2, WireType
<1>4. \A w \in Workers : veth[w] # NoLabel => veth'[w] # NoLabel
  BY <1>3 DEF Wired
<1>5. /\ \A i : IsRemote(i)' <=> IsRemote(i)
      /\ \A w \in Workers : Patched(w)' <=> Patched(w)
  BY DEF IsRemote, Patched, Interfaces
<1>6. ASSUME NEW w \in Workers, veth'[w] # NoLabel PROVE Patched(w)'
  <2>1. CASE Wired(Request) /\ w = worker[loop.vm]
    BY <1>1, <1>5, <2>1 DEF Wired, Patched
  <2>2. CASE veth[w] # NoLabel
    BY <1>5, <2>2 DEF Crossing
  <2> QED
    BY <1>3, <1>6, <2>1, <2>2
<1>7. ASSUME NEW v \in VMs, up'[v].label # NoLabel, NEW i \in up'[v].ifs, IsRemote(i)
      PROVE  veth'[worker[v]] # NoLabel
  <2>1. CASE up'[v] = up[v]
    <3>1. veth[worker[v]] # NoLabel /\ up[v] # Down
      BY <1>7, <2>1 DEF Crossing, Down
    <3>2. worker[v] \in Workers
      BY <3>1 DEF Base, Control, TypeInv, Map, Hosts
    <3> QED
      BY <1>4, <3>1, <3>2
  <2>2. CASE v = loop.vm /\ Create(Request) /\ up'[v] = Request
    <3>1. Wired(Request) /\ Wire(Request)
      BY <1>7, <2>2 DEF Wired, Create
    <3> QED
      BY <1>1, <1>3, <2>2, <3>1 DEF Wired
  <2>3. CASE v = loop.vm /\ up'[v] = [up[v] EXCEPT !.ifs = {}]
    <3>1. up[v] \in [runs : BOOLEAN, label : Tags, ifs : Sets]
      BY DEF Base, TypeInv
    <3> QED
      BY <1>7, <2>3, <3>1
  <2> QED
    BY <1>1, <2>1, <2>2, <2>3, UpType
<1> QED
  BY <1>5, <1>6, <1>7 DEF Crossing

LEMMA CrossingNext == Base /\ Wiring /\ Crossing /\ [Next]_vars => Crossing'
<1> SUFFICES ASSUME Base, Wiring, Crossing, [Next]_vars PROVE Crossing'
  OBVIOUS
<1> USE DEF activation, rows, hosts
<1>1. Steady
  BY StepsSteady
<1>2. ASSUME UNCHANGED hosts PROVE Crossing'
  <2>1. ASSUME NEW v \in VMs, up'[v].label # NoLabel, \E i \in up'[v].ifs : IsRemote(i)'
        PROVE  veth'[worker'[v]] # NoLabel
    <3>1. \E i \in up[v].ifs : IsRemote(i)
      BY <1>1, <1>2, <2>1, SteadyInterfaces DEF Wiring
    <3>2. veth[worker[v]] # NoLabel /\ up[v] # Down
      BY <1>2, <2>1, <3>1 DEF Crossing, Down
    <3>3. worker'[v] = worker[v]
      BY <1>1, <3>2 DEF Steady, Base, Control
    <3> QED
      BY <1>2, <3>2, <3>3
  <2>2. \A w \in Workers : veth'[w] # NoLabel => Patched(w)'
    BY <1>1, <1>2, SteadyInterfaces DEF Crossing
  <2> QED
    BY <2>1, <2>2 DEF Crossing
<1>3. CASE Networking
  BY <1>2, <1>3 DEF Networking, AllocateRead, AllocateCommit
<1>4. CASE Manager \/ OtherActivation \/ ManagerCrash
  BY <1>2, <1>4 DEF Manager, CreateTasks, CallPlacement, CallNetworking, HearNetworking, Activate, OtherActivation, ManagerCrash
<1>5. CASE ListTasks \/ (\E v \in VMs : Lock(v)) \/ CallFallback \/ HearFallback \/ RefreshSlice \/ ReadRows \/ RecoverStale
  BY <1>2, <1>5 DEF ListTasks, Lock, CallFallback, HearFallback, RefreshSlice, ReadRows, RecoverStale
<1>6. CASE CallDriver
  BY <1>6, DriverCrosses DEF CallDriver
<1>7. CASE DispatcherCrash
  BY <1>2, <1>7, DriverCrosses DEF DispatcherCrash
<1>8. CASE UNCHANGED vars
  BY <1>2, <1>8 DEF vars
<1> QED
  BY <1>3, <1>4, <1>5, <1>6, <1>7, <1>8, Steps DEF Others
-----------------------------------------------------------------------------
(***************************************************************************)
(* While nothing is refused, unheard or restarted.                         *)
(***************************************************************************)
\* Two interfaces of one link are of two rounds.
LEMMA DoubledRounds ==
  ASSUME Base, NEW v \in VMs, NEW ifs, ifs \subseteq Interfaces(v), Doubled(ifs)
  PROVE  Len(nets) > 1
<1>1. PICK i \in ifs, j \in ifs : i # j /\ i[2] = j[2]
  BY DEF Doubled
<1>2. PICK n \in DOMAIN nets, l \in Links : i = <<n, l>>
  BY <1>1 DEF Interfaces
<1>3. PICK m \in DOMAIN nets, k \in Links : j = <<m, k>>
  BY <1>1 DEF Interfaces
<1>4. n # m /\ n \in 1..Len(nets) /\ m \in 1..Len(nets) /\ Len(nets) \in Nat
  BY <1>1, <1>2, <1>3, CallsAre DEF Base
<1> QED
  BY <1>4

LEMMA CalmNext == Base /\ LabelsShown /\ Wiring /\ Calm /\ [Next]_vars => Calm'
<1> SUFFICES ASSUME Base, LabelsShown, Wiring, Calm, [Next]_vars, faults' = 0 PROVE Quiet'
  BY DEF Calm
<1> USE DEF activation, rows, hosts
<1>1. ~Fault
  BY DEF Fault, Base, TypeInv
<1>2. UNCHANGED faults
  BY <1>1 DEF Next, Networking, Manager, Dispatcher, AllocateRead, AllocateCommit, CreateTasks, CallPlacement, OtherActivation,
       CallNetworking, HearNetworking, Activate, ManagerCrash, ListTasks, Lock, CallFallback, HearFallback, RefreshSlice,
       ReadRows, CallDriver, CreationFails, DispatcherCrash, RecoverStale, vars
<1>3. Quiet
  BY <1>2 DEF Calm
<1>4. loop \in Loop /\ Len(nets) \in Nat /\ task \in [VMs -> {"none", "PENDING", "PLACEMENT_READY", "IN_PROGRESS", "READY", "FAILED"}]
  BY CallsAre DEF Base, TypeInv
<1>5. CASE Networking
  <2>1. UNCHANGED <<loop, task, up>>
    BY <1>5 DEF Networking, AllocateRead, AllocateCommit
  <2>2. (\A i \in DOMAIN calls' : calls'[i].stage # "refused") /\ (label # NoLabel => label' # NoLabel) /\ Len(nets') >= Len(nets)
    <3>1. ASSUME NEW i \in DOMAIN calls, AllocateRead(i)
          PROVE  (\A j \in DOMAIN calls' : calls'[j].stage # "refused") /\ UNCHANGED <<label, nets>>
      <4>1. calls'[i].stage # "refused" /\ \A j \in DOMAIN calls : j # i => calls'[j] = calls[j]
        BY <1>1, <3>1, AllocateReads DEF Base
      <4>2. DOMAIN calls' = DOMAIN calls /\ UNCHANGED <<label, nets>>
        BY <3>1, AllocateReads DEF AllocateRead, Base
      <4> QED
        BY <1>3, <4>1, <4>2 DEF Quiet
    <3>2. ASSUME NEW i \in DOMAIN calls, AllocateCommit(i)
          PROVE  /\ \A j \in DOMAIN calls' : calls'[j].stage # "refused"
                 /\ label # NoLabel => label' # NoLabel
                 /\ Len(nets') = Len(nets) + 1
      BY <1>3, <3>2, AllocateCommits, DeploymentAssumption DEF AllocateCommit, Base, Control, Quiet
    <3> QED
      BY <1>4, <1>5, <3>1, <3>2 DEF Networking
  <2> QED
    BY <1>3, <1>4, <2>1, <2>2 DEF Quiet, Unlabelled, Has
<1>6. ASSUME Others
      PROVE  /\ \A i \in DOMAIN calls' : calls'[i].stage # "refused"
             /\ label # NoLabel => label' # NoLabel
             /\ UNCHANGED nets
  BY <1>3, <1>6, OthersApart, ApartCalls, ShownOthers DEF Apart, Quiet
\* What is left to see of such a step: the loop, and the tasks of VMs.
<1>7. ASSUME Others, UNCHANGED up, loop'.at = "refresh" => label' # NoLabel, loop'.at = "rows" => loop'.label # NoLabel,
             loop'.at = "drive" => loop'.held[loop'.vm].label # NoLabel,
             \A v \in VMs : task'[v] = task[v] \/ (~up[v].runs /\ task'[v] \notin {"READY", "FAILED"})
      PROVE  Quiet'
  BY <1>3, <1>6, <1>7 DEF Quiet, Unlabelled, Has
<1>8. CASE CreateTasks
  <2>1. \A v \in VMs : ~up[v].runs /\ task'[v] = "PENDING"
    BY <1>8 DEF CreateTasks, Base, Control, Down
  <2> QED
    BY <1>3, <1>7, <1>8, <2>1 DEF CreateTasks, Quiet, Others, Manager
<1>9. ASSUME NEW some, Place(some), UNCHANGED <<loop, up>>, Others PROVE Quiet'
  <2>1. \A v \in VMs : task'[v] = task[v] \/ (~up[v].runs /\ task'[v] \notin {"READY", "FAILED"})
    <3>1. \A v \in VMs : worker[v] = NoWorker => ~up[v].runs
      BY DEF Base, Control, Down
    <3> QED
      BY <1>9, <3>1, Places
  <2> QED
    BY <1>3, <1>6, <1>7, <1>9, <2>1 DEF Quiet
<1>10. CASE CallPlacement \/ OtherActivation
  BY <1>1, <1>9, <1>10 DEF CallPlacement, OtherActivation, Others, Manager
<1>11. CASE CallNetworking \/ HearNetworking \/ Activate
  <2>1. UNCHANGED <<loop, up, task>> /\ Others
    BY <1>11 DEF CallNetworking, HearNetworking, Activate, Others, Manager
  <2> QED
    BY <1>3, <1>6, <1>7, <2>1 DEF Quiet
<1>12. CASE ListTasks
  <2>1. loop'.at = "idle"
    BY <1>4, <1>12 DEF ListTasks, Loop
  <2> QED
    BY <1>7, <1>12, <2>1 DEF ListTasks, Others
<1>13. ASSUME NEW v \in VMs, Lock(v) PROVE Quiet'
  <2>1. task[v] = "PLACEMENT_READY" /\ task' = [task EXCEPT ![v] = "IN_PROGRESS"] /\ UNCHANGED up
    BY <1>13 DEF Lock, Base, Control
  <2>2. /\ loop'.vm = v /\ loop'.held = loop.held /\ loop'.label = label
        /\ loop'.at = IF Enriched(loop.held[v]) THEN "drive" ELSE IF label = NoLabel THEN "call" ELSE "rows"
    BY <1>4, <1>13 DEF Lock, Loop
  <2>3. ~up[v].runs
    BY <1>3, <2>1 DEF Quiet
  <2> QED
    BY <1>4, <1>7, <1>13, <2>1, <2>2, <2>3 DEF Others, Enriched
<1>14. CASE CallFallback
  <2>1. loop'.at = "await" /\ UNCHANGED <<task, up>>
    BY <1>4, <1>14 DEF CallFallback, Loop
  <2> QED
    BY <1>7, <1>14, <2>1 DEF Others
<1>15. CASE HearFallback
  <2>1. loop'.at = "refresh" /\ UNCHANGED <<task, up>>
    BY <1>4, <1>15 DEF HearFallback, Loop
  <2>2. PICK i \in DOMAIN calls : calls[i].stage = "done" /\ label' = calls[i].label
    BY <1>1, <1>3, <1>15 DEF HearFallback, Heard, Quiet
  <2>3. label' # NoLabel
    BY <2>2, DeploymentAssumption DEF Base, Control
  <2> QED
    BY <1>7, <1>15, <2>1, <2>3 DEF Others
<1>16. CASE RefreshSlice
  <2>1. loop'.at = "rows" /\ loop'.label = label /\ label # NoLabel /\ UNCHANGED <<task, up>>
    BY <1>3, <1>4, <1>16 DEF RefreshSlice, Loop, Quiet
  <2> QED
    BY <1>7, <1>16, <2>1 DEF Others
<1>17. CASE ReadRows
  <2> DEFINE p == [label |-> loop.label, ifs |-> Interfaces(loop.vm)]
  <2>1. loop' = [loop EXCEPT !.at = "drive", !.held[loop.vm] = p] /\ UNCHANGED <<task, up>> /\ loop.at = "rows"
    BY <1>17 DEF ReadRows
  <2>2. loop.vm \in VMs /\ loop.held \in [VMs -> Payload] /\ p.label # NoLabel
    BY <1>3, <2>1, LoopIs DEF Quiet
  <2> HIDE DEF p
  <2>3. loop'.at = "drive" /\ loop'.vm = loop.vm /\ loop'.held[loop.vm] = p
    BY <1>4, <2>1, <2>2 DEF Loop
  <2> QED
    BY <1>7, <1>17, <2>1, <2>2, <2>3 DEF Others
<1>18. CASE CallDriver
  <2>1. loop.at = "drive" /\ Others
    BY <1>18 DEF CallDriver, Others
  <2>2. /\ loop.vm \in VMs /\ task[loop.vm] = "IN_PROGRESS" /\ ~up[loop.vm].runs
        /\ loop.held[loop.vm].label # NoLabel /\ Wires(loop.vm, loop.held[loop.vm])
        /\ Request.ifs = loop.held[loop.vm].ifs /\ Request.label = loop.held[loop.vm].label
    BY <1>3, <2>1, LoopIs, RequestType DEF Quiet, Wiring
  <2>3. PICK outcome \in {"READY", "FAILED"} : /\ Answer(outcome)
                                                /\ \/ outcome = "READY" /\ Create(Request)
                                                   \/ outcome = "FAILED" /\ Doubled(Request.ifs) /\ UNCHANGED up
    BY <1>1, <1>18, <2>2 DEF CallDriver, CreationFails
  <2>4. loop'.at = "idle" /\ task' = [task EXCEPT ![loop.vm] = outcome]
    BY <2>1, <2>3, Answers
  <2>5. CASE outcome = "FAILED"
    <3>1. Len(nets) > 1
      BY <2>2, <2>3, <2>5, DoubledRounds DEF Wires
    <3> QED
      BY <1>3, <1>4, <1>6, <2>1, <2>2, <2>3, <2>4, <2>5, <3>1 DEF Quiet, Unlabelled, Has
  <2>6. CASE outcome = "READY"
    <3>1. up'[loop.vm] = Request /\ \A v \in VMs : v # loop.vm => up'[v] = up[v]
      <4>1. Create(Request)
        BY <2>3, <2>6
      <4>2. up' = [up EXCEPT ![loop.vm] = Request] /\ DOMAIN up = VMs
        BY <4>1 DEF Create, Base, TypeInv
      <4> QED
        BY <2>2, <4>2
    <3>2. ASSUME NEW v \in VMs, v = loop.vm PROVE ~Unlabelled(v)'
      <4>1. up'[v].label # NoLabel
        BY <2>2, <3>1, <3>2
      <4>2. \A l \in Links : v \in Ends[l] => \E i \in up'[v].ifs : i[2] = l
        BY <2>2, <3>1, <3>2 DEF Wires
      <4> QED
        BY <4>1, <4>2 DEF Unlabelled, Has
    <3>3. \A v \in VMs : v # loop.vm => (Unlabelled(v)' <=> Unlabelled(v))
      BY <3>1 DEF Unlabelled, Has
    <3> QED
      BY <1>3, <1>4, <1>6, <2>1, <2>2, <2>4, <2>6, <3>1, <3>2, <3>3 DEF Quiet
  <2> QED
    BY <2>5, <2>6
<1>19. CASE RecoverStale
  <2>1. \A v \in VMs : task'[v] = task[v] \/ (~up[v].runs /\ task'[v] \notin {"READY", "FAILED"})
    BY <1>3, <1>19 DEF RecoverStale, Quiet
  <2>2. UNCHANGED <<loop, up, label>>
    BY <1>19 DEF RecoverStale
  <2> QED
    BY <1>3, <1>7, <1>19, <2>1, <2>2 DEF Quiet, Others
<1>20. CASE UNCHANGED vars
  BY <1>3, <1>20 DEF vars, Quiet, Unlabelled, Has
<1> QED
  BY <1>1, <1>5, <1>8, <1>10, <1>11, <1>12, <1>13, <1>14, <1>15, <1>16, <1>17, <1>18, <1>19, <1>20, Steps
     DEF Others, Manager, ManagerCrash, DispatcherCrash
-----------------------------------------------------------------------------
(***************************************************************************)
(* The invariant, and what follows from it.                                *)
(***************************************************************************)
IInv == Base /\ Counting /\ LabelsShown /\ Wiring /\ Maps /\ Crossing /\ Calm

LEMMA IInvInit == Init => IInv
<1> SUFFICES ASSUME Init PROVE IInv
  OBVIOUS
<1>1. /\ nets = <<>> /\ calls = <<>> /\ Len(nets) = 0 /\ Len(calls) = 0 /\ DOMAIN calls = {} /\ DOMAIN nets = {}
      /\ loop.at = "idle" /\ loop.label = NoLabel /\ loop.held = [v \in VMs |-> Bare]
  BY IdleType DEF Init
<1>2. Base
  BY BaseInit
<1>3. Counting
  <2>1. Done = {}
    BY <1>1 DEF Done
  <2> QED
    BY <1>1, <2>1, FS_EmptySet, DeploymentAssumption DEF Counting
<1>4. LabelsShown
  <2>1. Shown \subseteq {NoLabel}
    BY <1>1 DEF Init, Shown, Known, NoSession, Bare, Down
  <2> QED
    BY <2>1 DEF LabelsShown
<1>5. Wiring
  BY <1>1, BareWires DEF Init, Wiring, Bare, Down
<1>6. Maps
  BY <1>1 DEF Maps
<1>7. Crossing
  BY DEF Init, Crossing, Down
<1>8. Calm
  BY <1>1 DEF Init, Calm, Quiet, Down
<1> QED
  BY <1>2, <1>3, <1>4, <1>5, <1>6, <1>7, <1>8 DEF IInv

LEMMA IInvNext == IInv /\ [Next]_vars => IInv'
BY BaseNext, CountingNext, LabelsNext, WiringNext, MapsNext, CrossingNext, CalmNext DEF IInv

THEOREM Invariance == Spec => []IInv
BY IInvInit, IInvNext, PTL DEF Spec

\* The rows and the hosts keep their types, a VM taken on has a worker, and no
\* more rounds are stored than networking was called for.
THEOREM TypeCorrect == Spec => []TypeOK
<1>1. IInv => TypeOK
  <2> SUFFICES ASSUME IInv PROVE TypeOK
    OBVIOUS
  <2> USE DEF IInv
  <2>1. Len(nets) <= Len(calls) /\ Len(calls) <= MaxCalls /\ Len(nets) \in Nat /\ Len(calls) \in Nat
    BY DoneFinite, CallsAre DEF Counting, Base
  <2>2. \A v \in VMs : Interfaces(v) \subseteq (1..MaxCalls) \X Links
    BY <2>1, CallsAre, DeploymentAssumption DEF Interfaces, Base
  <2>3. ASSUME NEW v \in VMs
        PROVE  payload[v] \in PayloadType /\ [label |-> up[v].label, ifs |-> up[v].ifs] \in PayloadType
    <3>1. payload[v] \in Payload /\ up[v] \in [runs : BOOLEAN, label : Tags, ifs : Sets]
      BY DEF Base, TypeInv
    <3>2. payload[v].ifs \subseteq (1..MaxCalls) \X Links /\ up[v].ifs \subseteq (1..MaxCalls) \X Links
      BY <2>2 DEF Wiring, Wires
    <3> QED
      BY <3>1, <3>2 DEF Payload, PayloadType, Tags
  <2>4. \A v \in VMs : task[v] \notin {"none", "PENDING"} => worker[v] # NoWorker
    BY DEF Base, Control
  <2>5. payload \in [VMs -> PayloadType]
    BY <2>3 DEF Base, TypeInv
  <2> QED
    BY <2>1, <2>3, <2>4, <2>5 DEF Base, TypeInv, TypeOK, Map, Hosts, Tags
<1> QED
  BY <1>1, Invariance, PTL

\* A VM is READY without an interface for each of its links, or without the
\* label, only after something was refused, unheard or restarted.
THEOREM LinksBeforeLabel == Spec => []UnwiredOnlyAfterFault
<1>1. IInv => UnwiredOnlyAfterFault
  BY DEF IInv, Calm, Quiet, UnwiredOnlyAfterFault, ReadyVMs
<1> QED
  BY <1>1, Invariance, PTL

\* Without a fault, a creation fails only when the links were allocated twice.
THEOREM DoublesFail == Spec => []FailedOnlyIfDoubled
<1>1. IInv => FailedOnlyIfDoubled
  BY DEF IInv, Calm, Quiet, FailedOnlyIfDoubled
<1> QED
  BY <1>1, Invariance, PTL

\* Of at most one label the pool counts as USED, no two are different.
LEMMA OneUsed ==
  ASSUME IInv, ~Relabelled, NEW x \in used, NEW y \in used
  PROVE  x = y
<1> SUFFICES ASSUME x # y PROVE FALSE
  OBVIOUS
<1>1. IsFiniteSet(used) /\ Cardinality(used) \in Nat
  BY FS_CardinalityType DEF IInv, Base, TypeInv
<1>2. Cardinality({x}) = 1 /\ IsFiniteSet({x})
  BY FS_Singleton
<1>3. Cardinality({x} \cup {y}) = 2
  BY <1>2, FS_AddElement
<1>4. Cardinality({x} \cup {y}) <= Cardinality(used)
  BY <1>1, FS_Subset, {x} \cup {y} \subseteq used
<1> QED
  BY <1>1, <1>3, <1>4 DEF Relabelled

\* Two VMs on different workers, one of which had its worker when the links
\* were allocated, have a path between them for each interface of that link.
LEMMA RemoteEnds ==
  ASSUME IInv, NEW l \in Links, NEW v \in Ends[l] \cap VMs, NEW w \in Ends[l] \cap VMs,
         worker[v] # worker[w], ~Blind(l), NEW i, i \in Interfaces(v), i[2] = l
  PROVE  IsRemote(i)
<1>1. PICK n \in DOMAIN nets : i = <<n, l>>
  BY DEF Interfaces
<1>2. PICK a \in Ends[l] : nets[n][a] # NoWorker
  BY <1>1 DEF Blind
<1>3. a \in VMs
  BY DeploymentAssumption
<1>4. nets[n][v] \in {NoWorker, worker[v]} /\ nets[n][w] \in {NoWorker, worker[w]}
  BY <1>1 DEF IInv, Maps
<1>5. nets[n][v] # nets[n][w] \/ nets[n][v] # nets[n][a]
  BY <1>2, <1>4
<1> QED
  BY <1>1, <1>2, <1>5 DEF IsRemote

\* Links of READY VMs are lost only as the property says.
THEOREM CutsExplained == Spec => []CutOnlyIf
<1>1. IInv => CutOnlyIf
  <2> SUFFICES ASSUME IInv, NEW l \in Links, NEW v \in Ends[l] \cap ReadyVMs, NEW w \in Ends[l] \cap ReadyVMs,
                      v # w, ~Blind(l), ~Relabelled, ~Unlabelled(v), ~Unlabelled(w)
               PROVE  Joined(v, w, l)
    BY DEF CutOnlyIf
  <2>1. v \in VMs /\ w \in VMs
    BY DEF ReadyVMs
  <2>2. Has(v, l) /\ Has(w, l) /\ up[v].label # NoLabel /\ up[w].label # NoLabel
    BY DEF Unlabelled
  <2>3. CASE worker[v] = worker[w]
    BY <2>2, <2>3 DEF Joined
  <2>4. CASE worker[v] # worker[w]
    <3>1. ASSUME NEW x \in Ends[l] \cap VMs, NEW y \in Ends[l] \cap VMs, worker[x] # worker[y], Has(x, l),
                 up[x].label # NoLabel
          PROVE  veth[worker[x]] \in used /\ veth[worker[x]] # NoLabel
      <4>1. PICK i \in up[x].ifs : i[2] = l
        BY <3>1 DEF Has
      <4>2. i \in Interfaces(x)
        BY DEF IInv, Wiring
      <4>3. IsRemote(i)
        BY <3>1, <4>1, <4>2, RemoteEnds
      <4>4. veth[worker[x]] # NoLabel
        BY <3>1, <4>3 DEF IInv, Crossing
      <4>5. worker[x] \in Workers
        BY <3>1 DEF IInv, Base, Control, TypeInv, Map, Hosts, Down
      <4>6. veth[worker[x]] \in Shown
        BY <4>5, ShownIs
      <4> QED
        BY <4>4, <4>6 DEF IInv, LabelsShown
    <3>2. /\ veth[worker[v]] \in used /\ veth[worker[v]] # NoLabel
          /\ veth[worker[w]] \in used
      BY <2>1, <2>2, <2>4, <3>1
    <3>3. veth[worker[v]] = veth[worker[w]]
      BY <3>2, OneUsed
    <3> QED
      BY <2>2, <3>2, <3>3 DEF Joined
  <2> QED
    BY <2>3, <2>4
<1> QED
  BY <1>1, Invariance, PTL

\* With one round of links, the workers that networking lists a path for are
\* those the driver made one on, under the label of the slice.
THEOREM ListedIsMade == Spec => []CommandsMatchHosts
<1>1. IInv => CommandsMatchHosts
  <2> SUFFICES ASSUME IInv, ReadyVMs = VMs, Len(nets) = 1, \A v \in VMs : ~Unlabelled(v), NEW w \in Workers
               PROVE  veth[w] = IF Patched(w) THEN label ELSE NoLabel
    BY DEF CommandsMatchHosts
  <2>1. veth[w] \in {label, NoLabel}
    BY ShownIs DEF IInv, LabelsShown
  <2>2. CASE ~Patched(w)
    BY <2>2 DEF IInv, Crossing
  <2>3. CASE Patched(w)
    <3>1. PICK v \in VMs : worker[v] = w /\ \E i \in Interfaces(v) : IsRemote(i)
      BY <2>3 DEF Patched
    <3>2. PICK i \in Interfaces(v) : IsRemote(i)
      BY <3>1
    <3>3. DOMAIN nets = {1}
      BY CallsAre DEF IInv, Base
    <3>4. PICK l \in Links : i = <<1, l>> /\ v \in Ends[l]
      BY <3>3 DEF Interfaces
    <3>5. PICK j \in up[v].ifs : j[2] = l
      BY <3>4 DEF Unlabelled, Has
    <3>6. j \in Interfaces(v)
      BY DEF IInv, Wiring
    <3>7. j = i
      BY <3>3, <3>4, <3>5, <3>6 DEF Interfaces
    <3>8. veth[w] # NoLabel
      BY <3>1, <3>2, <3>5, <3>7 DEF IInv, Crossing, Unlabelled
    <3> QED
      BY <2>1, <2>3, <3>8
  <2> QED
    BY <2>2, <2>3
<1> QED
  BY <1>1, Invariance, PTL
=============================================================================
