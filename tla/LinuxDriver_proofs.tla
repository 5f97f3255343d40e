------------------------ MODULE LinuxDriver_proofs ------------------------
(***************************************************************************)
(* On the worker: no port outlives its bridge; no deletion kills the QEMU  *)
(* of another VM; a deletion that knew a process leaves nothing behind     *)
(* however often the VM was created; and a creation with its VM to itself  *)
(* stands when it is answered READY, and takes back what it made when it   *)
(* fails; for any number of VMs of any names, any failures, any commands   *)
(* that act after the driver gave them up, and any interleaving.           *)
(***************************************************************************)
EXTENDS LinuxDriver, TLAPS

Answers  == {"none", "ready", "failed", "refused"}
Commands == Creating \cup Undoing \cup Deleting

\* What the control of requests may be, wherever it goes, and the marks they leave.
Control ==
  /\ pc \in [Requests -> Points] /\ answer \in [Requests -> Answers]
  /\ late \subseteq Requests \X Commands
  /\ acted \subseteq Requests \X Creating \X (Undoing \cup {"done"})
  /\ faults \in 0..MaxFaults

Marks ==
  /\ pids \in Nat
  /\ pidfile \in [Names -> 0..pids] /\ proc \in [Vms -> 0..pids] /\ known \in [Vms -> 0..pids]
  /\ pid \in [Requests -> 0..pids]

Host ==
  /\ disks \subseteq Vms /\ opened \subseteq disks /\ seeds \subseteq Names
  /\ taps \subseteq Vms /\ ports \subseteq Vms
  /\ bridges \subseteq Slices /\ pairs \subseteq Slices /\ tunnels \subseteq Slices
  /\ trunks \subseteq bridges /\ \A v \in ports : SliceOf[v] \in bridges
  /\ cut \subseteq Slices

LEMMA TypeParts == TypeOK <=> Control /\ Marks /\ Host
BY DEF TypeOK, Control, Marks, Host, Commands, Answers

LEMMA OfVm ==
  ASSUME NEW r \in Requests
  PROVE  Vm(r) \in Vms /\ Name(r) \in Names /\ Slice(r) \in Slices /\ Slice(r) = SliceOf[Vm(r)]
         /\ Name(r) = NameOf[Vm(r)]
BY LinuxAssumption DEF Vm, Name, Slice
-----------------------------------------------------------------------------
\* QEMU has started, and left its PID in the pidfile; READY reads it there.
Launched(r) ==
  /\ proc' = [proc EXCEPT ![Vm(r)] = pids + 1]
  /\ pidfile' = [pidfile EXCEPT ![Name(r)] = pids + 1]

ReadIn(r) ==
  /\ pc[r] = "pid" /\ UNCHANGED proc
  /\ \/ known' = [known EXCEPT ![Vm(r)] = pidfile[Name(r)]]
     \/ known' = [known EXCEPT ![Vm(r)] = 0]

\* A step of a request that is not over: it leaves "idle", changes no other request,
\* comes to "up" only by a launch, to "pid" only after "up", answers READY to a
\* creation only with the PID read, and may give up its command.
Moves(r) ==
  \E p \in Points \ {"idle"}, a \in Answers :
    /\ pc' = [pc EXCEPT ![r] = p] /\ answer' = [answer EXCEPT ![r] = a]
    /\ pc[r] # "done" /\ acted' = acted
    /\ p \in Creating \cup Undoing => Op[r] = "create"
    /\ p \in Deleting => Op[r] = "delete"
    /\ pc[r] \in Undoing => p \in Undoing \cup {"done"}
    /\ p = "up" => Launched(r)
    /\ p = "pid" => pc[r] = "up"
    /\ a # answer[r] => p = "done"
    /\ Op[r] = "create" /\ a = "ready" => answer[r] = "ready" \/ ReadIn(r)
    /\ \/ late' = late
       \/ /\ late' = late \cup {<<r, pc[r]>>} /\ pc[r] \in Commands
          /\ pc[r] \in Creating => p = "undo-port"
          /\ pc[r] \notin Creating => p = "done" /\ a = "failed"

\* A command given up acts, and leaves its request where it is.
Returns(r) ==
  \E p \in Commands, s \in Points :
    /\ Late(r, p, s)
    /\ s \in Script => p \in Deleting

\* A request is at the points of its operation, and so are the commands it gave up,
\* which it is past.
Kinds ==
  \A r \in Requests :
    /\ pc[r] \in Creating \cup Undoing => Op[r] = "create"
    /\ pc[r] \in Deleting => Op[r] = "delete"
    /\ pc[r] # "done" => answer[r] = "none"
    /\ \A p \in Commands : <<r, p>> \in late =>
         /\ answer[r] # "ready"
         /\ p \in Creating => Op[r] = "create" /\ pc[r] \in Undoing \cup {"done"}
         /\ p \in Undoing  => Op[r] = "create" /\ pc[r] = "done"
         /\ p \in Deleting => Op[r] = "delete" /\ pc[r] = "done"

LEMMA Failing ==
  ASSUME Control, Kinds, NEW r \in Requests, Fails(r), pc[r] \in Commands, UNCHANGED acted,
         late' = late \/ late' = late \cup {<<r, pc[r]>>}
  PROVE  Moves(r)
<1>0. pc[r] # "done"
  BY DEF Commands, Creating, Undoing, Deleting, Script
<1>1. CASE pc[r] \in Creating
  <2>1. pc' = [pc EXCEPT ![r] = "undo-port"] /\ answer' = answer
    BY <1>1 DEF Fails, Goto
  <2>2. answer' = [answer EXCEPT ![r] = answer[r]] /\ answer[r] \in Answers
    BY <2>1 DEF Control
  <2>3. "undo-port" \in Points \ {"idle"} /\ "undo-port" \in Undoing /\ "undo-port" \notin Deleting
    BY DEF Points, Undoing, Deleting, Script
  <2> QED
    BY <1>0, <1>1, <2>1, <2>2, <2>3 DEF Moves, Kinds
<1>2. CASE pc[r] \notin Creating
  <2>1. pc' = [pc EXCEPT ![r] = "done"] /\ answer' = [answer EXCEPT ![r] = "failed"]
    BY <1>2 DEF Fails, Answer
  <2>2. "done" \in Points \ {"idle"} /\ "done" \notin Creating \cup Undoing \cup Deleting /\ "failed" \in Answers
    BY DEF Points, Creating, Undoing, Deleting, Script, Answers
  <2> QED
    BY <1>0, <1>2, <2>1, <2>2 DEF Moves
<1> QED
  BY <1>1, <1>2

LEMMA Going ==
  ASSUME Control, NEW r \in Requests, NEW p \in Points \ {"idle"}, Goto(r, p), pc[r] # "done",
         UNCHANGED <<late, acted>>,
         p \in Creating \cup Undoing => Op[r] = "create", p \in Deleting => Op[r] = "delete",
         pc[r] \in Undoing => p \in Undoing,
         p = "up" => Launched(r), p = "pid" => pc[r] = "up"
  PROVE  Moves(r)
<1>1. pc' = [pc EXCEPT ![r] = p] /\ answer' = answer
  BY DEF Goto
<1>2. answer' = [answer EXCEPT ![r] = answer[r]] /\ answer[r] \in Answers
  BY <1>1 DEF Control
<1> QED
  BY <1>1, <1>2 DEF Moves

LEMMA Answering ==
  ASSUME Control, NEW r \in Requests, NEW a \in Answers, Answer(r, a), pc[r] # "done",
         UNCHANGED <<late, acted>>,
         Op[r] = "create" /\ a = "ready" => ReadIn(r)
  PROVE  Moves(r)
BY DEF Answer, Moves, Points, Creating, Undoing, Deleting, Script

\* A command moves its request on if it is in time, and returns if it is not.
LEMMA Running ==
  ASSUME Control, Kinds, NEW r \in Requests, NEW p \in Commands, NEW q \in Commands, Runs(r, p, q),
         NEW part \in {Creating, Undoing, Deleting}, p \in part, q \in part,
         q = "up" => Launched(r), q # "pid"
  PROVE  Moves(r) \/ Returns(r)
<1>1. CASE pc[r] = p /\ Goto(r, q) /\ UNCHANGED <<late, acted>>
  <2>1. q \in Points \ {"idle"} /\ pc[r] # "done"
    BY <1>1 DEF Commands, Points, Creating, Undoing, Deleting, Script
  <2>2. /\ q \in Creating \cup Undoing => Op[r] = "create"
        /\ q \in Deleting => Op[r] = "delete"
        /\ pc[r] \in Undoing => q \in Undoing
    BY <1>1 DEF Kinds, Creating, Undoing, Deleting, Script
  <2> QED
    BY <1>1, <2>1, <2>2, Going
<1>2. CASE Late(r, p, q)
  <2>1. q \in Points /\ (q \in Script => p \in Deleting)
    BY DEF Commands, Points, Creating, Undoing, Deleting, Script
  <2> QED
    BY <1>2, <2>1 DEF Returns
<1> QED
  BY <1>1, <1>2 DEF Runs

LEMMA RunningOn ==
  ASSUME Control, Kinds, NEW r \in Requests, NEW p \in Creating, NEW q \in Creating, Runs(r, p, q),
         q = "up" => Launched(r), q # "pid"
  PROVE  Moves(r) \/ Returns(r)
BY Running DEF Commands

LEMMA RunningBack ==
  ASSUME Control, Kinds, NEW r \in Requests, NEW p \in Undoing, NEW q \in Undoing, Runs(r, p, q)
  PROVE  Moves(r) \/ Returns(r)
<1>1. q # "up" /\ q # "pid"
  BY DEF Undoing
<1> QED
  BY <1>1, Running DEF Commands

LEMMA RunningAway ==
  ASSUME Control, Kinds, NEW r \in Requests, NEW p \in Deleting, NEW q \in Deleting, Runs(r, p, q)
  PROVE  Moves(r) \/ Returns(r)
<1>1. q # "up" /\ q # "pid"
  BY DEF Deleting, Script
<1> QED
  BY <1>1, Running DEF Commands

LEMMA Ending ==
  ASSUME Control, Kinds, NEW r \in Requests, NEW p \in Undoing \cup Deleting, NEW a \in Answers, Ends(r, p, a),
         p \in Undoing => a # "ready"
  PROVE  Moves(r) \/ Returns(r)
<1>0. p \in Commands /\ p # "done"
  BY DEF Commands, Creating, Undoing, Deleting, Script
<1>1. CASE pc[r] = p /\ Answer(r, a) /\ UNCHANGED <<late, acted>>
  <2>1. Op[r] = "create" => a # "ready"
    BY <1>1 DEF Kinds
  <2> QED
    BY <1>0, <1>1, <2>1, Answering
<1>2. CASE Late(r, p, "done")
  <2>1. "done" \in Points /\ "done" \notin Script
    BY DEF Points, Script
  <2> QED
    BY <1>0, <1>2, <2>1 DEF Returns
<1> QED
  BY <1>1, <1>2 DEF Ends

\* The disjuncts of Next, which the proofs go through one by one.
Acts(r) ==
  \/ Execute(r) \/ Impossible(r) \/ Fault(r) \/ Overdue(r)
  \/ MakeDisk(r) \/ MakeSeed(r) \/ AddBridge(r) \/ AddTap(r) \/ AddPort(r)
  \/ AddPair(r) \/ RaisePair(r) \/ AddTrunk(r) \/ AddTunnel(r)
  \/ Launch(r) \/ RaiseTap(r) \/ ReadPid(r)
  \/ UndoPort(r) \/ UndoSeed(r) \/ UndoDisk(r)
  \/ Kill(r) \/ RemoveFiles(r) \/ RemovePidfile(r) \/ RemovePort(r) \/ RemoveTap(r)
  \/ CountTaps(r) \/ RemoveTrunk(r) \/ RemoveTunnel(r) \/ RemovePair(r) \/ RemoveBridge(r) \/ Skips(r)

LEMMA Steps ==
  ASSUME Control, Kinds, NEW r \in Requests, Acts(r)
  PROVE  Moves(r) \/ Returns(r)
<1> USE DEF Commands, Creating, Undoing, Deleting, Script, Answers
<1>1. CASE Execute(r)
  <2>0. "disk" \in Points \ {"idle"} /\ "kill" \in Points \ {"idle"} /\ pc[r] = "idle" /\ UNCHANGED <<late, acted>>
    BY <1>1 DEF Execute, Points
  <2>1. CASE r \notin Complete
    BY <1>1, <2>0, <2>1, Answering DEF Execute
  <2>2. CASE r \in Complete /\ Op[r] = "create"
    <3>1. Goto(r, "disk")
      BY <1>1, <2>2 DEF Execute
    <3> QED
      BY <2>0, <2>2, <3>1, Going
  <2>3. CASE r \in Complete /\ Op[r] # "create"
    <3>1. Goto(r, "kill") /\ Op[r] = "delete"
      BY <1>1, <2>3, LinuxAssumption DEF Execute
    <3> QED
      BY <2>0, <2>3, <3>1, Going
  <2> QED
    BY <2>1, <2>2, <2>3
<1>2. CASE Impossible(r) \/ Fault(r) \/ Overdue(r)
  <2>1. Fails(r) /\ pc[r] \in Commands /\ UNCHANGED acted /\ (late' = late \/ late' = late \cup {<<r, pc[r]>>})
    BY <1>2 DEF Impossible, Fault, Overdue
  <2> QED
    BY <2>1, Failing
<1>3. CASE Launch(r)
  <2>1. Runs(r, "qemu", "up") /\ Launched(r)
    BY <1>3 DEF Launch, Launched
  <2> QED
    BY <2>1, RunningOn
<1>4. CASE MakeDisk(r) \/ MakeSeed(r) \/ AddBridge(r) \/ AddTap(r) \/ AddPort(r)
  <2>1. Runs(r, "disk", "seed") \/ Runs(r, "seed", "bridge") \/ Runs(r, "bridge", "tap") \/ Runs(r, "tap", "port")
        \/ Runs(r, "port", "pair")
    BY <1>4 DEF MakeDisk, MakeSeed, AddBridge, AddTap, AddPort
  <2> QED
    BY <2>1, RunningOn
<1>5. CASE AddPair(r) \/ AddTrunk(r) \/ AddTunnel(r)
  <2>1. Runs(r, "pair", "pair-up") \/ Runs(r, "trunk", "tunnel") \/ Runs(r, "tunnel", "qemu")
    BY <1>5 DEF AddPair, AddTrunk, AddTunnel
  <2> QED
    BY <2>1, RunningOn
<1>6. CASE RaisePair(r)
  <2>1. Goto(r, "trunk") /\ pc[r] = "pair-up" /\ UNCHANGED <<late, acted>>
    BY <1>6 DEF RaisePair
  <2>2. "trunk" \in Points \ {"idle"} /\ Op[r] = "create"
    BY <2>1 DEF Points, Kinds
  <2> QED
    BY <2>1, <2>2, Going
<1>7. CASE RaiseTap(r)
  <2>1. Goto(r, "pid") /\ pc[r] = "up" /\ UNCHANGED <<late, acted>>
    BY <1>7 DEF RaiseTap
  <2>2. "pid" \in Points \ {"idle"} /\ Op[r] = "create"
    BY <2>1 DEF Points, Kinds
  <2> QED
    BY <2>1, <2>2, Going
<1>8. CASE ReadPid(r)
  <2>1. ReadIn(r) /\ Answer(r, "ready") /\ UNCHANGED <<late, acted>> /\ pc[r] # "done"
    BY <1>8 DEF ReadPid, ReadIn, worker
  <2> QED
    BY <2>1, Answering
<1>9. CASE UndoPort(r) \/ UndoSeed(r)
  <2>1. Runs(r, "undo-port", "undo-seed") \/ Runs(r, "undo-seed", "undo-disk")
    BY <1>9 DEF UndoPort, UndoSeed
  <2> QED
    BY <2>1, RunningBack
<1>10. CASE UndoDisk(r) \/ RemoveBridge(r)
  <2>1. Ends(r, "undo-disk", "failed") \/ Ends(r, "bridge-off", "ready")
    BY <1>10 DEF UndoDisk, RemoveBridge
  <2> QED
    BY <2>1, Ending
<1>11. CASE Kill(r) \/ RemoveFiles(r) \/ RemovePidfile(r) \/ RemovePort(r) \/ RemoveTap(r)
  <2>1. Runs(r, "kill", "files") \/ Runs(r, "files", "pidfile") \/ Runs(r, "pidfile", "port-off")
        \/ Runs(r, "port-off", "tap-off") \/ Runs(r, "tap-off", "count")
    BY <1>11 DEF Kill, RemoveFiles, RemovePidfile, RemovePort, RemoveTap
  <2> QED
    BY <2>1, RunningAway
<1>12. CASE CountTaps(r)
  <2>1. Runs(r, "count", "trunk-off") \/ Ends(r, "count", "ready")
    BY <1>12 DEF CountTaps
  <2> QED
    BY <2>1, RunningAway, Ending
<1>13. CASE RemoveTrunk(r) \/ RemoveTunnel(r) \/ RemovePair(r) \/ Skips(r)
  <2>1. Runs(r, "count", "trunk-off") \/ Runs(r, "trunk-off", "tunnel-off") \/ Runs(r, "tunnel-off", "pair-off")
        \/ Runs(r, "pair-off", "bridge-off")
    BY <1>13 DEF RemoveTrunk, RemoveTunnel, RemovePair, Skips
  <2> QED
    BY <2>1, RunningAway
<1> QED
  BY <1>1, <1>2, <1>3, <1>4, <1>5, <1>6, <1>7, <1>8, <1>9, <1>10, <1>11, <1>12, <1>13 DEF Acts

\* Faults are counted, up to their bound.
LEMMA Counting ==
  ASSUME Control, NEW r \in Requests, Acts(r)
  PROVE  faults' \in 0..MaxFaults /\ faults <= faults'
<1>1. CASE Fault(r) \/ Overdue(r) \/ Skips(r)
  <2>1. faults < MaxFaults /\ faults' = faults + 1
    BY <1>1 DEF Fault, Overdue, Skips
  <2> QED
    BY <2>1, LinuxAssumption DEF Control
<1>2. CASE ReadPid(r)
  <2>1. faults' = faults \/ (faults < MaxFaults /\ faults' = faults + 1)
    BY <1>2 DEF ReadPid
  <2> QED
    BY <2>1, LinuxAssumption DEF Control
<1>3. CASE ~(Fault(r) \/ Overdue(r) \/ Skips(r) \/ ReadPid(r))
  <2>1. faults' = faults
    BY <1>3 DEF Acts, Execute, Impossible, MakeDisk, MakeSeed, AddBridge, AddTap, AddPort, AddPair, RaisePair,
       AddTrunk, AddTunnel, Launch, RaiseTap, UndoPort, UndoSeed, UndoDisk, Kill, RemoveFiles, RemovePidfile,
       RemovePort, RemoveTap, CountTaps, RemoveTrunk, RemoveTunnel, RemovePair, RemoveBridge
  <2> QED
    BY <2>1, LinuxAssumption DEF Control
<1> QED
  BY <1>1, <1>2, <1>3

LEMMA ControlKept ==
  ASSUME Control, Kinds, NEW r \in Requests, Acts(r)
  PROVE  Control' /\ Kinds'
<1>1. CASE Moves(r)
  <2>1. PICK p \in Points \ {"idle"}, a \in Answers :
          /\ pc' = [pc EXCEPT ![r] = p] /\ answer' = [answer EXCEPT ![r] = a]
          /\ pc[r] # "done" /\ acted' = acted
          /\ p \in Creating \cup Undoing => Op[r] = "create"
          /\ p \in Deleting => Op[r] = "delete"
          /\ pc[r] \in Undoing => p \in Undoing \cup {"done"}
          /\ a # answer[r] => p = "done"
          /\ Op[r] = "create" /\ a = "ready" => answer[r] = "ready" \/ ReadIn(r)
          /\ \/ late' = late
             \/ /\ late' = late \cup {<<r, pc[r]>>} /\ pc[r] \in Commands
                /\ pc[r] \in Creating => p = "undo-port"
                /\ pc[r] \notin Creating => p = "done" /\ a = "failed"
    BY <1>1 DEF Moves
  <2>2. Control'
    BY <2>1, Counting DEF Control
  <2>3. answer[r] = "none"
    BY <2>1 DEF Kinds
  <2>4. "undo-port" \in Undoing /\ "done" \notin Commands /\ Undoing \cap Creating = {} /\ "pid" \notin Undoing
        /\ Deleting \cap (Creating \cup Undoing) = {}
    BY DEF Commands, Creating, Undoing, Deleting, Script
  <2>5. Commands = Creating \cup Undoing \cup Deleting
    BY DEF Commands
  <2> SUFFICES ASSUME NEW q \in Requests
               PROVE  /\ pc'[q] \in Creating \cup Undoing => Op[q] = "create"
                      /\ pc'[q] \in Deleting => Op[q] = "delete"
                      /\ pc'[q] # "done" => answer'[q] = "none"
                      /\ \A c \in Commands : <<q, c>> \in late' =>
                           /\ answer'[q] # "ready"
                           /\ c \in Creating => Op[q] = "create" /\ pc'[q] \in Undoing \cup {"done"}
                           /\ c \in Undoing  => Op[q] = "create" /\ pc'[q] = "done"
                           /\ c \in Deleting => Op[q] = "delete" /\ pc'[q] = "done"
    BY <2>2 DEF Kinds
  <2>6. CASE q # r
    <3>1. pc'[q] = pc[q] /\ answer'[q] = answer[q] /\ \A c : <<q, c>> \in late' => <<q, c>> \in late
      BY <2>1, <2>6 DEF Control
    <3> QED
      BY <3>1 DEF Kinds
  <2>7. CASE q = r
    <3>1. pc'[q] = p /\ answer'[q] = a
      BY <2>1, <2>7 DEF Control
    <3>2. ASSUME NEW c \in Commands, <<q, c>> \in late
          PROVE  /\ a # "ready" /\ c \in Creating /\ Op[q] = "create" /\ p \in Undoing \cup {"done"}
      <4>1. c \in Creating /\ Op[r] = "create" /\ pc[r] \in Undoing
        BY <2>1, <2>5, <2>7, <3>2 DEF Kinds
      <4>2. a # "ready"
        BY <2>1, <2>3, <2>4, <4>1 DEF ReadIn
      <4> QED
        BY <2>1, <2>7, <4>1, <4>2
    <3>3. ASSUME late' = late \cup {<<r, pc[r]>>}, pc[r] \in Commands, pc[r] \in Creating => p = "undo-port",
                 pc[r] \notin Creating => p = "done" /\ a = "failed"
          PROVE  /\ a # "ready"
                 /\ pc[r] \in Creating => Op[q] = "create" /\ p \in Undoing \cup {"done"}
                 /\ pc[r] \in Undoing  => Op[q] = "create" /\ p = "done"
                 /\ pc[r] \in Deleting => Op[q] = "delete" /\ p = "done"
      <4>1. a # "ready"
        BY <2>1, <2>3, <2>4, <3>3
      <4> QED
        BY <2>4, <2>5, <2>7, <3>3, <4>1 DEF Kinds
    <3>4. \A c \in Commands : <<q, c>> \in late' =>
            /\ a # "ready"
            /\ c \in Creating => Op[q] = "create" /\ p \in Undoing \cup {"done"}
            /\ c \in Undoing  => Op[q] = "create" /\ p = "done"
            /\ c \in Deleting => Op[q] = "delete" /\ p = "done"
      BY <2>1, <2>4, <2>7, <3>2, <3>3
    <3> QED
      BY <2>1, <2>3, <2>7, <3>1, <3>4
  <2> QED
    BY <2>6, <2>7
<1>2. CASE Returns(r)
  <2>1. PICK p \in Commands, s \in Points : Late(r, p, s) /\ (s \in Script => p \in Deleting)
    BY <1>2 DEF Returns
  <2>2. UNCHANGED <<pc, answer>> /\ <<r, p>> \in late
    BY <2>1 DEF Late
  <2>3. Script \subseteq Deleting /\ Deleting \subseteq Commands /\ Deleting \cap (Creating \cup Undoing) = {}
    BY DEF Commands, Creating, Undoing, Deleting, Script
  <2>4. ASSUME NEW q \in Requests, NEW c \in Commands, <<q, c>> \in late'
        PROVE  <<q, c>> \in late \/ (q = r /\ c \in Deleting /\ p \in Deleting)
    <3>1. <<q, c>> \in late \/ (<<q, c>> \in {<<r, s>>} /\ s \in Script)
      BY <2>1, <2>4 DEF Late
    <3>2. <<q, c>> \in {<<r, s>>} => q = r /\ c = s
      OBVIOUS
    <3> QED
      BY <2>1, <2>3, <3>1, <3>2
  <2>5. Kinds'
    BY <2>2, <2>3, <2>4 DEF Kinds
  <2>6. late' \subseteq Requests \X Commands
    BY <2>1, <2>3 DEF Late, Control
  <2>7. acted' \subseteq Requests \X Creating \X (Undoing \cup {"done"})
    <3>1. CASE p \in Creating
      <4>1. pc[r] \in Undoing \cup {"done"}
        BY <2>2, <3>1 DEF Kinds
      <4> QED
        BY <2>1, <3>1, <4>1 DEF Late, Control
    <3>2. CASE p \notin Creating
      BY <2>1, <3>2 DEF Late, Control
    <3> QED
      BY <3>1, <3>2
  <2> QED
    BY <2>2, <2>5, <2>6, <2>7, Counting DEF Control
<1> QED
  BY <1>1, <1>2, Steps
-----------------------------------------------------------------------------
(***************************************************************************)
(* Type correctness.                                                       *)
(***************************************************************************)
\* The actions that give out, store, read or remove a PID; the others leave all.
pidvars == <<pids, pidfile, proc, known, pid>>
Marking(r) ==
  Execute(r) \/ Launch(r) \/ ReadPid(r) \/ Kill(r) \/ RemovePidfile(r)

LEMMA Unmarking ==
  ASSUME NEW r \in Requests, Acts(r), ~Marking(r)
  PROVE  UNCHANGED pidvars
<1> USE DEF pidvars, worker, files, wiring
<1>1. CASE Impossible(r) \/ Fault(r) \/ Overdue(r) \/ RaisePair(r) \/ RaiseTap(r) \/ CountTaps(r) \/ Skips(r)
  BY <1>1 DEF Impossible, Fault, Overdue, RaisePair, RaiseTap, CountTaps, Skips
<1>2. CASE MakeDisk(r) \/ MakeSeed(r) \/ AddBridge(r) \/ AddTap(r) \/ AddPort(r) \/ AddPair(r) \/ AddTrunk(r) \/ AddTunnel(r)
  BY <1>2 DEF MakeDisk, MakeSeed, AddBridge, AddTap, AddPort, AddPair, AddTrunk, AddTunnel
<1>3. CASE UndoPort(r) \/ UndoSeed(r) \/ UndoDisk(r) \/ RemoveFiles(r) \/ RemovePort(r) \/ RemoveTap(r)
  BY <1>3 DEF UndoPort, UndoSeed, UndoDisk, RemoveFiles, RemovePort, RemoveTap
<1>4. CASE RemoveTrunk(r) \/ RemoveTunnel(r) \/ RemovePair(r) \/ RemoveBridge(r)
  BY <1>4 DEF RemoveTrunk, RemoveTunnel, RemovePair, RemoveBridge
<1> QED
  BY <1>1, <1>2, <1>3, <1>4 DEF Acts, Marking

LEMMA MarksKept ==
  ASSUME Marks, NEW r \in Requests, Acts(r)
  PROVE  Marks'
<1> USE OfVm DEF Marks
<1>1. CASE Execute(r)
  BY <1>1 DEF Execute, worker, files
<1>2. CASE Launch(r)
  <2>1. /\ pids' = pids + 1
        /\ proc' = [proc EXCEPT ![Vm(r)] = pids + 1]
        /\ pidfile' = [pidfile EXCEPT ![Name(r)] = pids + 1]
        /\ pid' = pid /\ known' = known
    BY <1>2 DEF Launch
  <2>2. 0..pids \subseteq 0..pids' /\ pids + 1 \in 0..pids' /\ pids' \in Nat
    BY <2>1
  <2>3. pid' \in [Requests -> 0..pids'] /\ known' \in [Vms -> 0..pids']
    BY <2>1, <2>2
  <2>4. proc' \in [Vms -> 0..pids']
    BY <2>1, <2>2
  <2>5. pidfile' \in [Names -> 0..pids']
    BY <2>1, <2>2
  <2> QED
    BY <2>2, <2>3, <2>4, <2>5
<1>3. CASE ReadPid(r)
  <2>1. known' \in [Vms -> 0..pids]
    BY <1>3 DEF ReadPid
  <2> QED
    BY <1>3, <2>1 DEF ReadPid, worker, files
<1>4. CASE Kill(r)
  <2>1. proc' \in [Vms -> 0..pids]
    BY <1>4 DEF Kill
  <2> QED
    BY <1>4, <2>1 DEF Kill, files
<1>5. CASE RemovePidfile(r)
  BY <1>5 DEF RemovePidfile
<1>6. CASE ~Marking(r)
  BY <1>6, Unmarking DEF pidvars
<1> QED
  BY <1>1, <1>2, <1>3, <1>4, <1>5, <1>6 DEF Marking

\* A bridge comes before its ports, and goes with them.
LEMMA HostKept ==
  ASSUME Host, NEW r \in Requests, Acts(r)
  PROVE  Host'
<1> USE OfVm DEF Host
<1>1. CASE MakeDisk(r) \/ MakeSeed(r)
  BY <1>1 DEF MakeDisk, MakeSeed, wiring
<1>2. CASE AddBridge(r) \/ AddTap(r)
  BY <1>2 DEF AddBridge, AddTap, files
<1>3. CASE AddPort(r)
  <2>1. Slice(r) \in bridges
    BY <1>3 DEF AddPort, Possible
  <2> QED
    BY <1>3, <2>1 DEF AddPort, files
<1>4. CASE AddTrunk(r)
  <2>1. Slice(r) \in bridges
    BY <1>4 DEF AddTrunk, Possible
  <2> QED
    BY <1>4, <2>1 DEF AddTrunk, files
<1>5. CASE AddPair(r) \/ AddTunnel(r)
  BY <1>5 DEF AddPair, AddTunnel, files
<1>6. CASE Launch(r)
  <2>1. Vm(r) \in disks
    BY <1>6 DEF Launch, Possible
  <2> QED
    BY <1>6, <2>1 DEF Launch
<1>7. CASE UndoPort(r) \/ RemovePort(r) \/ RemoveTap(r)
  BY <1>7 DEF UndoPort, RemovePort, RemoveTap, files
<1>8. CASE UndoSeed(r) \/ UndoDisk(r) \/ RemoveFiles(r) \/ RemovePidfile(r)
  BY <1>8 DEF UndoSeed, UndoDisk, RemoveFiles, RemovePidfile, wiring
<1>9. CASE Kill(r)
  BY <1>9 DEF Kill, wiring
<1>10. CASE RemoveTrunk(r) \/ RemoveTunnel(r) \/ RemovePair(r)
  BY <1>10 DEF RemoveTrunk, RemoveTunnel, RemovePair, files
<1>11. CASE RemoveBridge(r)
  BY <1>11 DEF RemoveBridge, Wired, files
<1>12. CASE CountTaps(r) \/ Skips(r)
  BY <1>12 DEF CountTaps, Skips, worker, files, wiring
<1>13. CASE Execute(r) \/ Impossible(r) \/ Fault(r) \/ Overdue(r) \/ RaisePair(r) \/ RaiseTap(r) \/ ReadPid(r)
  BY <1>13 DEF Execute, Impossible, Fault, Overdue, RaisePair, RaiseTap, ReadPid, worker, files, wiring
<1> QED
  BY <1>1, <1>2, <1>3, <1>4, <1>5, <1>6, <1>7, <1>8, <1>9, <1>10, <1>11, <1>12, <1>13 DEF Acts

Typed == Control /\ Kinds /\ Marks /\ Host

LEMMA TypedInit == Init => Typed
<1> SUFFICES ASSUME Init PROVE Typed
  OBVIOUS
<1>1. Control
  BY LinuxAssumption DEF Init, Control, Points, Answers
<1>2. Kinds
  BY DEF Init, Kinds, Creating, Undoing, Deleting, Script
<1>3. Marks /\ Host
  BY DEF Init, Marks, Host
<1> QED
  BY <1>1, <1>2, <1>3 DEF Typed

LEMMA TypedStep == Typed /\ [Next]_vars => Typed'
<1> SUFFICES ASSUME Typed, [Next]_vars PROVE Typed'
  OBVIOUS
<1>1. CASE UNCHANGED vars
  BY <1>1 DEF vars, worker, files, wiring, Typed, Control, Kinds, Marks, Host
<1>2. CASE Next
  <2>1. PICK r \in Requests : Acts(r)
    BY <1>2 DEF Next, Acts
  <2> QED
    BY <2>1, ControlKept, MarksKept, HostKept DEF Typed
<1> QED
  BY <1>1, <1>2

\* The worker's state is well typed whatever the driver's requests do to it, and a
\* command that acts late is one that its request gave up and is past.
THEOREM TypeCorrect == Spec => []TypeOK
<1>1. Typed => TypeOK
  BY TypeParts DEF Typed
<1> QED
  BY <1>1, TypedInit, TypedStep, PTL DEF Spec
-----------------------------------------------------------------------------
(***************************************************************************)
(* PIDs.  A deletion waits for the requests in After; one that does not    *)
(* wait for a creation is what Unmarked is about.                          *)
(***************************************************************************)
Waits == \A r \in Requests : pc[r] # "idle" => \A q \in After[r] : pc[q] = "done"

\* No two VMs have one PID, and the pidfile, the database and the deletions that
\* hold the PID of a VM are those of its name, though maybe of another VM.
Distinct == \A v, w \in Vms : proc[v] = proc[w] => proc[v] = 0 \/ v = w

ByName ==
  \A v \in Vms : proc[v] # 0 =>
    /\ \A n \in Names : pidfile[n] = proc[v] => NameOf[v] = n
    /\ \A w \in Vms : known[w] = proc[v] => NameOf[w] = NameOf[v]
    /\ \A q \in Requests : pid[q] = proc[v] => NameOf[v] = Name(q)

\* Between launch and reading, the pidfile is that of the VM launched.
Marked ==
  \A r \in Requests : (Op[r] = "create" /\ pc[r] \in {"up", "pid"} /\ ~Unmarked(r))
    => proc[Vm(r)] # 0 /\ pidfile[Name(r)] = proc[Vm(r)]

Named == Typed /\ Waits /\ Distinct /\ ByName /\ Marked

LEMMA NamedInit == Init => Named
<1> SUFFICES ASSUME Init PROVE Named
  OBVIOUS
<1>1. Typed
  BY TypedInit
<1>2. Waits /\ Distinct /\ ByName /\ Marked
  BY LinuxAssumption DEF Init, Waits, Distinct, ByName, Marked
<1> QED
  BY <1>1, <1>2 DEF Named

\* The other requests stay where they are, and none that was sent is unsent.
LEMMA Others ==
  ASSUME Control, Kinds, NEW r \in Requests, Acts(r)
  PROVE  /\ \A q \in Requests \ {r} : pc'[q] = pc[q] /\ answer'[q] = answer[q]
         /\ \A q \in Requests : pc[q] # "idle" => pc'[q] # "idle"
         /\ \A q \in Requests : pc[q] = "done" => pc'[q] = "done" /\ answer'[q] = answer[q]
         /\ \A q \in Requests : Unmarked(q) => Unmarked(q)'
<1>1. CASE Moves(r)
  <2>1. PICK p \in Points \ {"idle"}, a \in Answers :
          pc' = [pc EXCEPT ![r] = p] /\ answer' = [answer EXCEPT ![r] = a] /\ pc[r] # "done"
    BY <1>1 DEF Moves
  <2>2. \A q \in Requests \ {r} : pc'[q] = pc[q] /\ answer'[q] = answer[q]
    BY <2>1 DEF Control
  <2>3. \A q \in Requests : pc[q] # "idle" => pc'[q] # "idle"
    BY <2>1 DEF Control
  <2> QED
    BY <2>1, <2>2, <2>3 DEF Unmarked, Vm, Name
<1>2. CASE Returns(r)
  BY <1>2 DEF Returns, Late, Unmarked, Vm, Name
<1> QED
  BY <1>1, <1>2, Steps

\* Only Execute starts a request.
LEMMA Awake ==
  ASSUME Control, Kinds, NEW r \in Requests, Acts(r), pc[r] = "idle"
  PROVE  Execute(r)
<1>0. ASSUME NEW p \in Commands
      PROVE  <<r, p>> \notin late /\ pc[r] # p
  BY <1>0 DEF Kinds, Commands, Creating, Undoing, Deleting, Script
<1> USE DEF Runs, Ends, Late
<1>1. ~(Impossible(r) \/ Fault(r) \/ Overdue(r) \/ RaisePair(r) \/ RaiseTap(r) \/ ReadPid(r))
  BY DEF Impossible, Fault, Overdue, RaisePair, RaiseTap, ReadPid, Creating, Undoing, Deleting, Script
<1>2. ~(MakeDisk(r) \/ MakeSeed(r) \/ AddBridge(r) \/ AddTap(r) \/ AddPort(r) \/ AddPair(r) \/ AddTrunk(r)
        \/ AddTunnel(r) \/ Launch(r))
  <2>1. {"disk", "seed", "bridge", "tap", "port", "pair", "trunk", "tunnel", "qemu"} \subseteq Commands
    BY DEF Commands, Creating
  <2> QED
    BY <1>0, <2>1 DEF MakeDisk, MakeSeed, AddBridge, AddTap, AddPort, AddPair, AddTrunk, AddTunnel, Launch
<1>3. ~(UndoPort(r) \/ UndoSeed(r) \/ UndoDisk(r))
  <2>1. {"undo-port", "undo-seed", "undo-disk"} \subseteq Commands
    BY DEF Commands, Undoing
  <2> QED
    BY <1>0, <2>1 DEF UndoPort, UndoSeed, UndoDisk
<1>4. ~(Kill(r) \/ RemoveFiles(r) \/ RemovePidfile(r) \/ RemovePort(r) \/ RemoveTap(r) \/ CountTaps(r)
        \/ RemoveTrunk(r) \/ RemoveTunnel(r) \/ RemovePair(r) \/ RemoveBridge(r) \/ Skips(r))
  <2>1. {"kill", "files", "pidfile", "port-off", "tap-off", "count", "trunk-off", "tunnel-off", "pair-off", "bridge-off"}
          \subseteq Commands
    BY DEF Commands, Deleting, Script
  <2> QED
    BY <1>0, <2>1 DEF Kill, RemoveFiles, RemovePidfile, RemovePort, RemoveTap, CountTaps, RemoveTrunk, RemoveTunnel,
       RemovePair, RemoveBridge, Skips
<1> QED
  BY <1>1, <1>2, <1>3, <1>4 DEF Acts

LEMMA WaitsKept ==
  ASSUME Control, Kinds, Waits, NEW r \in Requests, Acts(r)
  PROVE  Waits'
<1> SUFFICES ASSUME NEW d \in Requests, pc'[d] # "idle", NEW q \in After[d]
             PROVE  pc'[q] = "done"
  BY DEF Waits
<1>0. q \in Requests
  BY LinuxAssumption
<1>1. pc[q] = "done"
  <2>1. CASE pc[d] # "idle"
    BY <2>1 DEF Waits
  <2>2. CASE pc[d] = "idle"
    <3>1. d = r
      BY <2>2, Others
    <3> QED
      BY <2>2, <3>1, Awake DEF Execute
  <2> QED
    BY <2>1, <2>2
<1> QED
  BY <1>0, <1>1, Others

LEMMA DistinctKept ==
  ASSUME Marks, Distinct, NEW r \in Requests, Acts(r)
  PROVE  Distinct'
<1>1. CASE Launch(r)
  <2>1. proc' = [proc EXCEPT ![Vm(r)] = pids + 1]
    BY <1>1 DEF Launch
  <2>2. \A v \in Vms : proc[v] # pids + 1
    BY DEF Marks
  <2> QED
    BY <2>1, <2>2 DEF Distinct, Marks
<1>2. CASE Kill(r)
  BY <1>2 DEF Kill, Distinct
<1>3. CASE Execute(r) \/ ReadPid(r) \/ RemovePidfile(r)
  BY <1>3 DEF Execute, ReadPid, RemovePidfile, worker, Distinct
<1>4. CASE ~Marking(r)
  BY <1>4, Unmarking DEF pidvars, Distinct
<1> QED
  BY <1>1, <1>2, <1>3, <1>4 DEF Marking

LEMMA ByNameKept ==
  ASSUME Marks, ByName, NEW r \in Requests, Acts(r)
  PROVE  ByName'
<1> USE OfVm
<1>1. CASE Launch(r)
  <2>1. /\ \A v \in Vms : proc[v] # pids + 1 /\ known[v] # pids + 1
        /\ \A n \in Names : pidfile[n] # pids + 1
        /\ \A q \in Requests : pid[q] # pids + 1
    BY DEF Marks
  <2>2. pid' = pid /\ known' = known /\ Launched(r)
    BY <1>1 DEF Launch, Launched
  <2> SUFFICES ASSUME NEW v \in Vms, proc'[v] # 0
               PROVE  /\ \A n \in Names : pidfile'[n] = proc'[v] => NameOf[v] = n
                      /\ \A w \in Vms : known'[w] = proc'[v] => NameOf[w] = NameOf[v]
                      /\ \A q \in Requests : pid'[q] = proc'[v] => NameOf[v] = Name(q)
    BY DEF ByName
  <2>3. CASE v = Vm(r)
    <3>1. proc'[v] = pids + 1
      BY <2>2, <2>3 DEF Launched, Marks
    <3> QED
      BY <2>1, <2>2, <2>3, <3>1 DEF Launched, Marks
  <2>4. CASE v # Vm(r)
    <3>1. proc'[v] = proc[v]
      BY <2>2, <2>4 DEF Launched, Marks
    <3> QED
      BY <2>1, <2>2, <3>1 DEF Launched, Marks, ByName
  <2> QED
    BY <2>3, <2>4
<1>2. CASE Kill(r)
  BY <1>2 DEF Kill, ByName
<1>3. CASE Execute(r)
  <2>1. pid' = [pid EXCEPT ![r] = known[Vm(r)]] /\ UNCHANGED <<proc, pidfile, known>>
    BY <1>3 DEF Execute, worker, files
  <2> QED
    BY <2>1 DEF ByName, Marks
<1>4. CASE ReadPid(r)
  <2>1. UNCHANGED <<proc, pidfile, pid>>
    BY <1>4 DEF ReadPid, worker, files
  <2>2. known' = [known EXCEPT ![Vm(r)] = pidfile[Name(r)]] \/ known' = [known EXCEPT ![Vm(r)] = 0]
    BY <1>4 DEF ReadPid
  <2> QED
    BY <2>1, <2>2 DEF ByName, Marks
<1>5. CASE RemovePidfile(r)
  <2>1. UNCHANGED <<proc, known, pid>> /\ pidfile' = [pidfile EXCEPT ![Name(r)] = 0]
    BY <1>5 DEF RemovePidfile
  <2> QED
    BY <2>1 DEF ByName, Marks
<1>6. CASE ~Marking(r)
  BY <1>6, Unmarking DEF pidvars, ByName
<1> QED
  BY <1>1, <1>2, <1>3, <1>4, <1>5, <1>6 DEF Marking

\* Killing and removing a pidfile are for deletions that were sent.
LEMMA Senders ==
  ASSUME Kinds, NEW r \in Requests
  PROVE  /\ Kill(r) \/ RemovePidfile(r) => Op[r] = "delete" /\ pc[r] # "idle"
         /\ Launch(r) \/ ReadPid(r) => Op[r] = "create"
<1> USE DEF Runs, Late, Kinds, Commands, Creating, Undoing, Deleting, Script
<1>1. ASSUME Kill(r) \/ RemovePidfile(r) PROVE Op[r] = "delete" /\ pc[r] # "idle"
  <2>1. \E p \in {"kill", "pidfile"} : pc[r] = p \/ <<r, p>> \in late
    BY <1>1 DEF Kill, RemovePidfile
  <2> QED
    BY <2>1
<1>2. ASSUME Launch(r) \/ ReadPid(r) PROVE Op[r] = "create"
  <2>1. pc[r] = "pid" \/ pc[r] = "qemu" \/ <<r, "qemu">> \in late
    BY <1>2 DEF Launch, ReadPid
  <2> QED
    BY <2>1
<1> QED
  BY <1>1, <1>2

\* While the PID of a VM lies in its pidfile, no deletion of its name was sent.
LEMMA Spared ==
  ASSUME Waits, NEW q \in Requests, Op[q] = "create", pc[q] \in {"up", "pid"}, ~Unmarked(q),
         NEW r \in Requests, Op[r] = "delete", pc[r] # "idle"
  PROVE  Name(r) # Name(q)
<1>1. r # q
  OBVIOUS
<1>2. q \notin After[r]
  BY DEF Waits
<1> QED
  BY <1>1, <1>2 DEF Unmarked

LEMMA MarkedKept ==
  ASSUME Typed, Waits, ByName, Marked, NEW r \in Requests, Acts(r)
  PROVE  Marked'
<1> USE OfVm DEF Typed, Marks
<1> SUFFICES ASSUME NEW q \in Requests, Op[q] = "create", pc'[q] \in {"up", "pid"}, ~(Unmarked(q)')
             PROVE  proc'[Vm(q)] # 0 /\ pidfile'[Name(q)] = proc'[Vm(q)]
  BY DEF Marked, Vm, Name
<1>1. ~Unmarked(q)
  BY Others
<1>2. CASE pc[q] \in {"up", "pid"} /\ ~(pc'[q] = "up" /\ Launched(q))
  <2>2. proc[Vm(q)] # 0 /\ pidfile[Name(q)] = proc[Vm(q)]
    BY <1>1, <1>2 DEF Marked
  <2>3. CASE Launch(r)
    <3>1. \A v \in Vms : proc[v] = 0 \/ (v # Vm(r) /\ proc[v] # pidfile[Name(r)])
      BY <2>3 DEF Launch, Possible
    <3>2. Vm(q) # Vm(r) /\ Name(q) # Name(r)
      BY <2>2, <3>1
    <3> QED
      BY <2>2, <2>3, <3>2 DEF Launch
  <2>4. CASE Kill(r)
    <3>1. Name(r) # Name(q)
      BY <1>1, <1>2, <2>4, Senders, Spared
    <3>2. proc[Vm(q)] # pid[r]
      BY <2>2, <3>1 DEF ByName
    <3> QED
      BY <2>2, <2>4, <3>2 DEF Kill
  <2>5. CASE RemovePidfile(r)
    <3>1. Name(r) # Name(q)
      BY <1>1, <1>2, <2>5, Senders, Spared
    <3> QED
      BY <2>2, <2>5, <3>1 DEF RemovePidfile
  <2>6. CASE Execute(r) \/ ReadPid(r)
    BY <2>2, <2>6 DEF Execute, ReadPid, worker, files
  <2>7. CASE ~Marking(r)
    BY <2>2, <2>7, Unmarking DEF pidvars
  <2> QED
    BY <2>3, <2>4, <2>5, <2>6, <2>7 DEF Marking
<1>3. CASE pc'[q] = "up" /\ Launched(q)
  BY <1>3 DEF Launched
<1>4. CASE pc[q] \notin {"up", "pid"} /\ ~(pc'[q] = "up" /\ Launched(q))
  <2>1. q = r /\ ~Returns(r)
    BY <1>4, Others DEF Returns, Late
  <2>2. PICK p \in Points :
          /\ pc' = [pc EXCEPT ![r] = p]
          /\ p = "up" => Launched(r)
          /\ p = "pid" => pc[r] = "up"
    BY <2>1, Steps DEF Moves
  <2> QED
    BY <1>4, <2>1, <2>2 DEF Control
<1> QED
  BY <1>2, <1>3, <1>4

LEMMA NamedKept ==
  ASSUME Named, NEW r \in Requests, Acts(r)
  PROVE  Named'
<1>1. Typed'
  BY ControlKept, MarksKept, HostKept DEF Named, Typed
<1>2. Waits' /\ Distinct' /\ ByName' /\ Marked'
  BY WaitsKept, DistinctKept, ByNameKept, MarkedKept DEF Named, Typed
<1> QED
  BY <1>1, <1>2 DEF Named

LEMMA NamedStutters == Named /\ UNCHANGED vars => Named'
<1> SUFFICES ASSUME Named, UNCHANGED vars PROVE Named'
  OBVIOUS
<1>1. Typed'
  BY TypedStep DEF Named
<1> QED
  BY <1>1 DEF vars, worker, files, Named, Waits, Distinct, ByName, Marked, Unmarked, Vm, Name

\* The PID stored for a VM is that of no other, whoever stored it.
IInv == Named /\ PidIsOwn

LEMMA PidIsOwnKept ==
  ASSUME Named, PidIsOwn, NEW r \in Requests, Acts(r)
  PROVE  PidIsOwn'
<1> USE OfVm DEF Named, Typed, Marks
<1> SUFFICES ASSUME NEW v \in Vms, known'[v] # 0,
                    \A q \in Requests : Op[q] = "create" /\ Vm(q) = v /\ answer'[q] = "ready" => ~(Unmarked(q)'),
                    NEW w \in Vms \ {v}
             PROVE  proc'[w] # known'[v]
  BY DEF PidIsOwn, Vm
\* What stays known was known of a creation that still is not Unmarked.
<1>1. ASSUME known'[v] = known[v] PROVE proc[w] # known[v]
  <2>1. ASSUME NEW q \in Requests, answer[q] = "ready" PROVE answer'[q] = "ready"
    BY <2>1, Others DEF Kinds
  <2> QED
    BY <1>1, <2>1, Others DEF PidIsOwn
<1>2. CASE ReadPid(r)
  <2>1. proc' = proc /\ answer'[r] = "ready" /\ Op[r] = "create" /\ pc[r] = "pid"
    BY <1>2, Senders DEF ReadPid, worker, Answer, Control
  <2>2. CASE known'[v] = known[v]
    BY <1>1, <2>1, <2>2
  <2>3. CASE known'[v] # known[v]
    <3>1. Vm(r) = v /\ known'[v] = pidfile[Name(r)]
      BY <1>2, <2>3 DEF ReadPid
    <3>2. ~Unmarked(r)
      BY <2>1, <3>1, Others
    <3>3. proc[v] # 0 /\ pidfile[Name(r)] = proc[v]
      BY <2>1, <3>1, <3>2 DEF Marked
    <3> QED
      BY <2>1, <3>1, <3>3 DEF Distinct
  <2> QED
    BY <2>2, <2>3
<1>3. CASE Launch(r)
  <2>1. known' = known /\ proc' = [proc EXCEPT ![Vm(r)] = pids + 1]
    BY <1>3 DEF Launch
  <2> QED
    BY <1>1, <2>1
<1>4. CASE Kill(r)
  BY <1>1, <1>4 DEF Kill
<1>5. CASE Execute(r) \/ RemovePidfile(r)
  BY <1>1, <1>5 DEF Execute, RemovePidfile, worker
<1>6. CASE ~Marking(r)
  BY <1>1, <1>6, Unmarking DEF pidvars
<1> QED
  BY <1>2, <1>3, <1>4, <1>5, <1>6 DEF Marking

\* The PID stored for a VM is never that of another, so no deletion kills the QEMU
\* of another VM, for any VMs, names, failures, late commands and interleavings, and
\* however often the dispatcher has a VM created; although pidfiles are named after
\* the VM (driver_service.py, 7).
THEOREM PidsApart == Spec => []PidIsOwn
<1>1. Init => IInv
  BY NamedInit DEF IInv, PidIsOwn, Init
<1>2. IInv /\ [Next]_vars => IInv'
  <2> SUFFICES ASSUME IInv, [Next]_vars PROVE IInv'
    OBVIOUS
  <2>1. CASE UNCHANGED vars
    BY <2>1, NamedStutters DEF IInv, vars, worker, PidIsOwn, Unmarked, Vm, Name
  <2>2. CASE Next
    <3>1. PICK r \in Requests : Acts(r)
      BY <2>2 DEF Next, Acts
    <3> QED
      BY <3>1, NamedKept, PidIsOwnKept DEF IInv
  <2> QED
    BY <2>1, <2>2
<1>3. IInv => PidIsOwn
  BY DEF IInv
<1> QED
  BY <1>1, <1>2, <1>3, PTL DEF Spec
-----------------------------------------------------------------------------
(***************************************************************************)
(* Deletion.                                                               *)
(***************************************************************************)
\* Until a deletion of its name is sent, a VM runs under the PID stored for it.
Kept ==
  \A v \in Vms :
    (known[v] # 0 /\ \A d \in Requests : Op[d] = "delete" /\ Name(d) = NameOf[v] => pc[d] = "idle")
      => proc[v] = known[v]

\* A deletion that knows a process and has the VM to itself.
Clean(r) ==
  /\ Op[r] = "delete" /\ pc[r] # "idle" /\ pid[r] # 0 /\ ~Unmarked(r)
  /\ \A q \in Rivals(r) : q \in After[r]
  /\ \A a \in acted : Vm(a[1]) # Vm(r)

Past(r, points) == pc[r] \in points \/ answer[r] = "ready"

\* It takes the process, the disk, the port and the tap, one after the other.
Swept ==
  \A r \in Requests : Clean(r) =>
    /\ proc[Vm(r)] \in {0, pid[r]}
    /\ Past(r, Deleting \ {"kill"}) => proc[Vm(r)] = 0
    /\ Past(r, Deleting \ {"kill", "files"}) => Vm(r) \notin disks
    /\ Past(r, {"tap-off", "count"} \cup Script) => Vm(r) \notin ports
    /\ Past(r, {"count"} \cup Script) => Vm(r) \notin taps

LEMMA KeptKept ==
  ASSUME Named, Kept, NEW r \in Requests, Acts(r)
  PROVE  Kept'
<1> USE OfVm DEF Named, Typed, Marks
<1> SUFFICES ASSUME NEW v \in Vms, known'[v] # 0,
                    \A d \in Requests : Op[d] = "delete" /\ Name(d) = NameOf[v] => pc'[d] = "idle"
             PROVE  proc'[v] = known'[v]
  BY DEF Kept, Name
<1>1. \A d \in Requests : Op[d] = "delete" /\ Name(d) = NameOf[v] => pc[d] = "idle"
  BY Others
<1>2. known[v] # 0 => proc[v] = known[v]
  BY <1>1 DEF Kept
<1>3. CASE ReadPid(r)
  <2>1. proc' = proc /\ Op[r] = "create" /\ pc[r] = "pid"
    BY <1>3, Senders DEF ReadPid, worker
  <2>2. CASE known'[v] = known[v]
    BY <1>2, <2>1, <2>2
  <2>3. CASE known'[v] # known[v]
    <3>1. Vm(r) = v /\ known'[v] = pidfile[Name(r)]
      BY <1>3, <2>3 DEF ReadPid
    <3>2. ~Unmarked(r)
      BY <1>1, <3>1 DEF Unmarked
    <3> QED
      BY <2>1, <3>1, <3>2 DEF Marked
  <2> QED
    BY <2>2, <2>3
<1>4. CASE Launch(r)
  <2>1. known' = known /\ proc' = [proc EXCEPT ![Vm(r)] = pids + 1]
    BY <1>4 DEF Launch
  <2>2. \A w \in Vms : proc[w] = 0 \/ w # Vm(r)
    BY <1>4 DEF Launch, Possible
  <2>3. v # Vm(r)
    BY <1>2, <2>1, <2>2
  <2> QED
    BY <1>2, <2>1, <2>3
<1>5. CASE Kill(r)
  <2>1. known' = known /\ proc[v] = known[v] /\ proc[v] # 0
    BY <1>2, <1>5 DEF Kill
  <2>2. Op[r] = "delete" /\ Name(r) # NameOf[v]
    BY <1>1, <1>5, Senders
  <2>3. pid[r] # proc[v]
    BY <2>1, <2>2 DEF ByName
  <2> QED
    BY <1>5, <2>1, <2>3 DEF Kill
<1>6. CASE Execute(r) \/ RemovePidfile(r)
  BY <1>2, <1>6 DEF Execute, RemovePidfile, worker
<1>7. CASE ~Marking(r)
  BY <1>2, <1>7, Unmarking DEF pidvars
<1> QED
  BY <1>3, <1>4, <1>5, <1>6, <1>7 DEF Marking

\* Only the commands of a creation of a VM give it a process, a disk, a tap or a
\* port; the others take at most its process and its port.
Giving(r) == MakeDisk(r) \/ AddTap(r) \/ AddPort(r) \/ Launch(r)

LEMMA Taking ==
  ASSUME Typed, NEW r \in Requests, Acts(r), NEW v \in Vms, Vm(r) # v \/ ~Giving(r)
  PROVE  /\ proc'[v] \in {0, proc[v]}
         /\ v \notin disks => v \notin disks'
         /\ v \notin taps => v \notin taps'
         /\ v \notin ports => v \notin ports'
<1> USE OfVm DEF Typed, Marks
<1>1. CASE Launch(r)
  BY <1>1 DEF Launch, Giving
<1>2. CASE Kill(r)
  BY <1>2 DEF Kill, wiring
<1>3. CASE MakeDisk(r) \/ AddTap(r) \/ AddPort(r)
  BY <1>3 DEF MakeDisk, AddTap, AddPort, Giving, files, wiring
<1>4. CASE MakeSeed(r) \/ AddBridge(r) \/ AddPair(r) \/ AddTrunk(r) \/ AddTunnel(r)
  BY <1>4 DEF MakeSeed, AddBridge, AddPair, AddTrunk, AddTunnel, files, wiring
<1>5. CASE UndoPort(r) \/ UndoSeed(r) \/ UndoDisk(r) \/ RemoveFiles(r) \/ RemovePidfile(r)
  BY <1>5 DEF UndoPort, UndoSeed, UndoDisk, RemoveFiles, RemovePidfile, files, wiring
<1>6. CASE RemovePort(r) \/ RemoveTap(r) \/ RemoveTrunk(r) \/ RemoveTunnel(r) \/ RemovePair(r) \/ RemoveBridge(r)
  BY <1>6 DEF RemovePort, RemoveTap, RemoveTrunk, RemoveTunnel, RemovePair, RemoveBridge, files
<1>7. CASE CountTaps(r) \/ Skips(r)
  BY <1>7 DEF CountTaps, Skips, worker, files, wiring
<1>8. CASE Execute(r) \/ Impossible(r) \/ Fault(r) \/ Overdue(r) \/ RaisePair(r) \/ RaiseTap(r) \/ ReadPid(r)
  BY <1>8 DEF Execute, Impossible, Fault, Overdue, RaisePair, RaiseTap, ReadPid, worker, files, wiring
<1> QED
  BY <1>1, <1>2, <1>3, <1>4, <1>5, <1>6, <1>7, <1>8 DEF Acts

\* What acted late is remembered.
LEMMA Remembered ==
  ASSUME Control, Kinds, NEW r \in Requests, Acts(r)
  PROVE  /\ acted \subseteq acted'
         /\ Giving(r) => /\ Op[r] = "create" /\ pc[r] # "idle"
                         /\ pc[r] = "done" => \E a \in acted' : a[1] = r
<1>1. acted \subseteq acted'
  <2>1. Moves(r) => acted' = acted
    BY DEF Moves
  <2>2. Returns(r) => acted \subseteq acted'
    BY DEF Returns, Late
  <2> QED
    BY <2>1, <2>2, Steps
<1>2. ASSUME Giving(r)
      PROVE  /\ Op[r] = "create" /\ pc[r] # "idle"
             /\ pc[r] = "done" => \E a \in acted' : a[1] = r
  <2>1. PICK p \in {"disk", "tap", "port", "qemu"}, q \in {"seed", "port", "pair", "up"} : Runs(r, p, q)
    BY <1>2 DEF Giving, MakeDisk, AddTap, AddPort, Launch
  <2>2. p \in Creating /\ p \in Commands /\ p # "idle" /\ p # "done"
    BY DEF Commands, Creating
  <2>3. CASE pc[r] = p
    BY <2>2, <2>3 DEF Kinds
  <2>4. CASE Late(r, p, q)
    <3>1. Op[r] = "create" /\ pc[r] # "idle"
      BY <2>2, <2>4 DEF Late, Kinds, Undoing
    <3>2. <<r, p, pc[r]>> \in acted'
      BY <2>2, <2>4 DEF Late
    <3> QED
      BY <3>1, <3>2
  <2> QED
    BY <2>1, <2>3, <2>4 DEF Runs
<1> QED
  BY <1>1, <1>2

\* The steps of others leave what a deletion has swept.
LEMMA SweptByOthers ==
  ASSUME Named, NEW q \in Requests, Acts(q), NEW r \in Requests \ {q}, Clean(r)'
  PROVE  /\ Clean(r) /\ pc'[r] = pc[r] /\ answer'[r] = answer[r] /\ pid'[r] = pid[r]
         /\ proc'[Vm(r)] \in {0, proc[Vm(r)]}
         /\ Vm(r) \notin disks => Vm(r) \notin disks'
         /\ Vm(r) \notin taps => Vm(r) \notin taps'
         /\ Vm(r) \notin ports => Vm(r) \notin ports'
<1> USE OfVm DEF Named, Typed
<1>1. pc'[r] = pc[r] /\ answer'[r] = answer[r]
  BY Others
<1>2. pid'[r] = pid[r]
  BY Unmarking DEF Marking, pidvars, Execute, Launch, ReadPid, Kill, RemovePidfile, Marks
<1>3. ~Unmarked(r) /\ Rivals(r) \subseteq Rivals(r)' /\ acted \subseteq acted'
  BY Others, Remembered DEF Clean, Rivals, Vm
<1>4. Clean(r)
  BY <1>1, <1>2, <1>3 DEF Clean, Vm
<1>5. CASE Vm(q) # Vm(r) \/ ~Giving(q)
  BY <1>1, <1>2, <1>4, <1>5, Taking
<1>6. CASE Vm(q) = Vm(r) /\ Giving(q)
  <2>1. pc[q] # "idle"
    BY <1>6, Remembered
  <2>2. q \in After[r]
    BY <1>4, <1>6, <2>1 DEF Clean, Rivals, Vm
  <2>3. pc[q] = "done"
    BY <1>4, <2>2 DEF Waits, Clean
  <2>4. \E a \in acted' : Vm(a[1]) = Vm(r)
    BY <1>6, <2>3, Remembered
  <2> QED
    BY <2>4 DEF Clean, Vm
<1> QED
  BY <1>5, <1>6

\* A deletion that starts knows the process, if there is one.
LEMMA SweptByStart ==
  ASSUME Named, Kept, NEW r \in Requests, Execute(r), Clean(r)'
  PROVE  /\ proc'[Vm(r)] \in {0, pid'[r]}
         /\ pc'[r] \in {"kill", "done"} /\ answer'[r] # "ready"
<1> USE OfVm DEF Named, Typed
<1>0. Acts(r)
  BY DEF Acts
<1>1. pid'[r] = known[Vm(r)] /\ proc' = proc /\ pc[r] = "idle" /\ Op[r] = "delete" /\ pid'[r] # 0
  BY DEF Execute, worker, Marks, Clean
<1>2. ASSUME NEW d \in Requests, Op[d] = "delete", Name(d) = NameOf[Vm(r)]
      PROVE  pc[d] = "idle"
  <2> SUFFICES ASSUME pc[d] # "idle" PROVE FALSE
    OBVIOUS
  <2>1. d # r /\ pc'[d] # "idle" /\ Name(d) = Name(r)
    BY <1>0, <1>1, <1>2, Others
  <2>2. r \notin After[d]
    BY <1>1 DEF Waits
  <2>3. Unmarked(r)'
    BY <1>2, <2>1, <2>2 DEF Unmarked, Name
  <2> QED
    BY <2>3 DEF Clean
<1>3. proc[Vm(r)] = known[Vm(r)]
  BY <1>1, <1>2 DEF Kept
<1>4. pc'[r] \in {"kill", "done"} /\ answer'[r] # "ready"
  BY <1>1 DEF Execute, Goto, Answer, Kinds, Control
<1> QED
  BY <1>1, <1>3, <1>4

\* Each step of a deletion but the first sweeps what it is for, or ends in failure.
LEMMA SweptByItself ==
  ASSUME Named, Swept, NEW r \in Requests, Acts(r), ~Execute(r), Clean(r)'
  PROVE  /\ proc'[Vm(r)] \in {0, pid'[r]}
         /\ Past(r, Deleting \ {"kill"})' => proc'[Vm(r)] = 0
         /\ Past(r, Deleting \ {"kill", "files"})' => Vm(r) \notin disks'
         /\ Past(r, {"tap-off", "count"} \cup Script)' => Vm(r) \notin ports'
         /\ Past(r, {"count"} \cup Script)' => Vm(r) \notin taps'
<1> USE OfVm DEF Named, Typed
<1>1. Op[r] = "delete" /\ pc[r] # "idle"
  BY Awake DEF Clean
<1>2. ~Giving(r)
  BY <1>1, Remembered
<1>3. /\ proc'[Vm(r)] \in {0, proc[Vm(r)]}
      /\ Vm(r) \notin disks => Vm(r) \notin disks'
      /\ Vm(r) \notin taps => Vm(r) \notin taps'
      /\ Vm(r) \notin ports => Vm(r) \notin ports'
  BY <1>2, Taking
<1>4. pid' = pid
  BY Unmarking DEF Marking, pidvars, Launch, ReadPid, Kill, RemovePidfile
<1>5. Clean(r)
  BY <1>1, <1>4, Others, Remembered DEF Clean, Rivals, Vm
<1>6. /\ proc[Vm(r)] \in {0, pid[r]} /\ pid[r] # 0
      /\ Past(r, Deleting \ {"kill"}) => proc[Vm(r)] = 0
      /\ Past(r, Deleting \ {"kill", "files"}) => Vm(r) \notin disks
      /\ Past(r, {"tap-off", "count"} \cup Script) => Vm(r) \notin ports
      /\ Past(r, {"count"} \cup Script) => Vm(r) \notin taps
  BY <1>5 DEF Swept, Clean
<1>7. CASE pc'[r] = pc[r] /\ answer'[r] = answer[r]
  BY <1>3, <1>4, <1>6, <1>7 DEF Past
<1>8. CASE ~(pc'[r] = pc[r] /\ answer'[r] = answer[r])
  <2>1. pc[r] \in Deleting /\ answer[r] = "none"
    <3>1. pc[r] # "done"
      BY <1>8, Others
    <3> QED
      BY <1>1, <3>1 DEF Control, Kinds, Points
  <2>2. ~Returns(r)
    BY <1>8 DEF Returns, Late
  <2>3. ASSUME NEW p \in Deleting, NEW q \in Points, Runs(r, p, q)
        PROVE  pc[r] = p /\ pc'[r] = q /\ answer'[r] = "none"
    <3>1. ~Late(r, p, q)
      BY <1>8 DEF Late
    <3> QED
      BY <2>1, <2>3, <3>1 DEF Runs, Goto, Control
  <2>4. ASSUME NEW p \in Deleting, NEW a \in Answers, Ends(r, p, a)
        PROVE  pc[r] = p /\ pc'[r] = "done" /\ answer'[r] = a
    <3>1. ~Late(r, p, "done")
      BY <1>8 DEF Late
    <3> QED
      BY <2>1, <2>4, <3>1 DEF Ends, Answer, Control
  <2>5. /\ Deleting = {"kill", "files", "pidfile", "port-off", "tap-off", "count", "trunk-off", "tunnel-off", "pair-off", "bridge-off"}
        /\ Script = {"trunk-off", "tunnel-off", "pair-off", "bridge-off"}
        /\ "ready" \in Answers /\ Deleting \subseteq Points
    BY DEF Deleting, Script, Answers, Points
  <2>6. CASE Fault(r) \/ Overdue(r)
    <3>1. pc'[r] = "done" /\ answer'[r] = "failed"
      BY <2>1, <2>6 DEF Fault, Overdue, Fails, Answer, Control, Creating, Deleting, Script
    <3> QED
      BY <1>3, <1>4, <1>6, <2>5, <3>1 DEF Past
  <2>7. CASE Kill(r)
    <3>1. pc[r] = "kill" /\ pc'[r] = "files" /\ answer'[r] = "none"
      BY <2>3, <2>5, <2>7 DEF Kill
    <3>2. proc'[Vm(r)] = 0
      BY <1>6, <2>7 DEF Kill
    <3> QED
      BY <1>4, <2>5, <3>1, <3>2 DEF Past
  <2>8. CASE RemoveFiles(r)
    <3>1. pc[r] = "files" /\ pc'[r] = "pidfile" /\ answer'[r] = "none"
      BY <2>3, <2>5, <2>8 DEF RemoveFiles
    <3>2. Vm(r) \notin disks'
      BY <2>8 DEF RemoveFiles
    <3> QED
      BY <1>3, <1>4, <1>6, <2>5, <3>1, <3>2 DEF Past
  <2>9. CASE RemovePidfile(r)
    <3>1. pc[r] = "pidfile" /\ pc'[r] = "port-off" /\ answer'[r] = "none"
      BY <2>3, <2>5, <2>9 DEF RemovePidfile
    <3> QED
      BY <1>3, <1>4, <1>6, <2>5, <3>1 DEF Past
  <2>10. CASE RemovePort(r)
    <3>1. pc[r] = "port-off" /\ pc'[r] = "tap-off" /\ answer'[r] = "none"
      BY <2>3, <2>5, <2>10 DEF RemovePort
    <3>2. Vm(r) \notin ports'
      BY <2>10 DEF RemovePort
    <3> QED
      BY <1>3, <1>4, <1>6, <2>5, <3>1, <3>2 DEF Past
  <2>11. CASE RemoveTap(r)
    <3>1. pc[r] = "tap-off" /\ pc'[r] = "count" /\ answer'[r] = "none"
      BY <2>3, <2>5, <2>11 DEF RemoveTap
    <3>2. Vm(r) \notin taps'
      BY <2>11 DEF RemoveTap
    <3> QED
      BY <1>3, <1>4, <1>6, <2>5, <3>1, <3>2 DEF Past
  \* The rest of the shell line is past all of it.
  <2>12. CASE CountTaps(r) \/ RemoveTrunk(r) \/ RemoveTunnel(r) \/ RemovePair(r) \/ RemoveBridge(r) \/ Skips(r)
    <3>1. pc[r] \in {"count"} \cup Script
      BY <2>3, <2>4, <2>5, <2>12 DEF CountTaps, RemoveTrunk, RemoveTunnel, RemovePair, RemoveBridge, Skips
    <3> QED
      BY <1>3, <1>4, <1>6, <2>5, <3>1 DEF Past
  <2>13. CASE Kill(r) \/ ~Marking(r)
    <3>1. ~(Impossible(r) \/ RaisePair(r) \/ RaiseTap(r))
      BY <2>1 DEF Impossible, RaisePair, RaiseTap, Creating, Deleting, Script
    <3>2. ~(MakeSeed(r) \/ AddBridge(r) \/ AddPair(r) \/ AddTrunk(r) \/ AddTunnel(r) \/ UndoPort(r) \/ UndoSeed(r) \/ UndoDisk(r))
      <4>1. ASSUME NEW p \in Creating \cup Undoing, NEW q \in Points PROVE ~Runs(r, p, q)
        BY <1>8, <2>1 DEF Runs, Late, Creating, Undoing, Deleting, Script
      <4>2. ~Ends(r, "undo-disk", "failed")
        BY <1>8, <2>1 DEF Ends, Late, Deleting, Script
      <4>3. {"seed", "bridge", "pair", "trunk", "tunnel", "undo-port", "undo-seed"} \subseteq Creating \cup Undoing
            /\ {"bridge", "tap", "pair-up", "tunnel", "qemu", "undo-seed", "undo-disk"} \subseteq Points
        BY DEF Creating, Undoing, Points
      <4> QED
        BY <4>1, <4>2, <4>3 DEF MakeSeed, AddBridge, AddPair, AddTrunk, AddTunnel, UndoPort, UndoSeed, UndoDisk
    <3> QED
      BY <1>2, <2>6, <2>7, <2>8, <2>10, <2>11, <2>12, <2>13, <3>1, <3>2 DEF Acts, Giving, Marking
  <2>14. ~(Launch(r) \/ ReadPid(r))
    BY <1>1, Senders
  <2> QED
    BY <2>9, <2>13, <2>14 DEF Marking
<1> QED
  BY <1>7, <1>8

DInv == Named /\ Kept /\ Swept

\* A deletion that knew a process, was answered and had the VM to itself has left no
\* process, disk, tap or port of it (_delete_vm), however its commands fell between
\* those of others and however often the VM was created, if no command given up by a
\* creation of the VM acted.
THEOREM DeletionSweeps == Spec => []KnownIsGone
<1>1. Init => DInv
  BY NamedInit DEF DInv, Init, Kept, Swept, Clean
<1>2. DInv /\ [Next]_vars => DInv'
  <2> SUFFICES ASSUME DInv, [Next]_vars PROVE DInv'
    OBVIOUS
  <2>1. CASE UNCHANGED vars
    <3>1. Kept'
      BY <2>1 DEF DInv, vars, worker, Kept, Name
    <3>2. Swept'
      BY <2>1 DEF DInv, vars, worker, files, wiring, Swept, Clean, Past, Unmarked, Rivals, Vm, Name
    <3> QED
      BY <2>1, <3>1, <3>2, NamedStutters DEF DInv
  <2>2. CASE Next
    <3>1. PICK q \in Requests : Acts(q)
      BY <2>2 DEF Next, Acts
    <3>2. ASSUME NEW r \in Requests, Clean(r)'
          PROVE  /\ proc'[Vm(r)] \in {0, pid'[r]}
                 /\ Past(r, Deleting \ {"kill"})' => proc'[Vm(r)] = 0
                 /\ Past(r, Deleting \ {"kill", "files"})' => Vm(r) \notin disks'
                 /\ Past(r, {"tap-off", "count"} \cup Script)' => Vm(r) \notin ports'
                 /\ Past(r, {"count"} \cup Script)' => Vm(r) \notin taps'
      <4>1. CASE r # q
        BY <3>1, <3>2, <4>1, SweptByOthers DEF DInv, Swept, Past, Named, Typed, Marks
      <4>2. CASE r = q /\ Execute(r)
        BY <3>2, <4>2, SweptByStart DEF DInv, Past, Deleting, Script
      <4>3. CASE r = q /\ ~Execute(r)
        BY <3>1, <3>2, <4>3, SweptByItself DEF DInv
      <4> QED
        BY <4>1, <4>2, <4>3
    <3>3. Swept'
      BY <3>2 DEF Swept, Vm
    <3> QED
      BY <3>1, <3>3, NamedKept, KeptKept DEF DInv
  <2> QED
    BY <2>1, <2>2
<1>3. DInv => KnownIsGone
  <2> SUFFICES ASSUME DInv, NEW r \in Requests, Op[r] = "delete", answer[r] = "ready", pid[r] # 0, ~Unmarked(r),
                      \A q \in Rivals(r) : q \in After[r], \A a \in acted : Vm(a[1]) # Vm(r)
               PROVE  Gone(Vm(r))
    BY DEF KnownIsGone
  <2>1. Clean(r)
    BY DEF DInv, Named, Typed, Kinds, Clean
  <2> QED
    BY <2>1 DEF DInv, Swept, Past, Gone
<1> QED
  BY <1>1, <1>2, <1>3, PTL DEF Spec
-----------------------------------------------------------------------------
(***************************************************************************)
(* Creation, with no other request about the VM: what stands of it, and    *)
(* what its rollback takes back.                                           *)
(***************************************************************************)
\* Points of a creation after each of its commands, and those before the launch.
Launching == {"up", "pid"}
Wiring    == {"qemu"} \cup Launching
Trunking  == {"tunnel"} \cup Wiring
Pairing   == {"pair-up", "trunk"} \cup Trunking
Attaching == {"pair"} \cup Pairing
Tapping   == {"port"} \cup Attaching
Bridging  == {"tap"} \cup Tapping
Seeding   == {"bridge"} \cup Bridging
Storing   == {"seed"} \cup Seeding
Early     == {"idle"} \cup (Creating \ Launching)

Alone(r) == Op[r] = "create" /\ Rivals(r) = {}

\* A process was launched by a creation of its VM; a disk is held open by a process;
\* a slice is cut by one of its deletions.
Launchers ==
  \A v \in Vms : proc[v] # 0 => \E c \in Requests : Op[c] = "create" /\ Vm(c) = v /\ pc[c] \notin Early

Holding == \A v \in opened : proc[v] # 0

Cutters == \A s \in cut : Deletions(s) # {}

\* Commands done stay done, but for what namesakes and deletions of the slice take;
\* of its wiring, only after a deletion counted no tap.
Stands(r) ==
  /\ Past(r, Storing)   => Vm(r) \in disks
  /\ Past(r, Seeding)   => Name(r) \in seeds \/ Namesakes(r) # {}
  /\ Past(r, Bridging)  => Slice(r) \in bridges \/ Deletions(Slice(r)) # {}
  /\ Past(r, Tapping)   => Vm(r) \in taps
  /\ Past(r, Attaching) => Slice(r) \in cut \/ (Vm(r) \in ports /\ ~Removing(Slice(r)))
  /\ Past(r, Pairing)   => Slice(r) \in cut \/ Slice(r) \in pairs
  /\ Past(r, Trunking)  => Slice(r) \in cut \/ Slice(r) \in trunks
  /\ Past(r, Wiring)    => Slice(r) \in cut \/ Slice(r) \in tunnels
  /\ Past(r, Launching) => pidfile[Name(r)] # 0 \/ Namesakes(r) # {}

\* A rollback has its reason, and takes back port, seed and disk, unless it fails too
\* or a command given up makes them again.
Disturbed(r) == Deletions(Slice(r)) \cup Namesakes(r) # {}

Unported(r) == Vm(r) \in ports => TooLate(r, "port")
Unseeded(r) == Name(r) \in seeds => TooLate(r, "seed") \/ Namesakes(r) # {}
Undisked(r) == Vm(r) \in disks => TooLate(r, "disk")

Undone(r) ==
  /\ pc[r] \in Undoing => faults >= 1 \/ Disturbed(r)
  /\ pc[r] \in {"undo-seed", "undo-disk"} => Unported(r)
  /\ pc[r] = "undo-disk" => Unseeded(r)
  /\ answer[r] = "failed" => \/ Undisked(r) /\ Unported(r) /\ Unseeded(r)
                             \/ faults >= 2 \/ (faults >= 1 /\ Disturbed(r))

\* The process of a VM is nobody else's to read, to store or to kill.
Exclusive(r) ==
  Past(r, Launching) /\ ~Unmarked(r) =>
    /\ proc[Vm(r)] # 0
    /\ \A v \in Vms \ {Vm(r)} : known[v] # proc[Vm(r)]
    /\ \A q \in Requests : Vm(q) # Vm(r) => pid[q] # proc[Vm(r)]
    /\ \A q \in Requests \ {r} : Op[q] = "create" /\ pc[q] \in Launching => pidfile[Name(q)] # proc[Vm(r)]
    /\ answer[r] = "ready" => known[Vm(r)] \in {0, proc[Vm(r)]}

Standing == \A r \in Requests : Alone(r) => Stands(r) /\ Undone(r) /\ Exclusive(r)

\* A request's own step changes neither its namesakes nor the deletions of its slice,
\* and no step takes any away.
LEMMA Bystanders ==
  ASSUME Typed, NEW q \in Requests, Acts(q), NEW r \in Requests, Op[r] = "create"
  PROVE  /\ Rivals(r) \subseteq Rivals(r)'
         /\ Namesakes(r) \subseteq Namesakes(r)' /\ Deletions(Slice(r)) \subseteq Deletions(Slice(r))'
         /\ q = r => Namesakes(r)' = Namesakes(r) /\ Deletions(Slice(r))' = Deletions(Slice(r)) /\ Rivals(r)' = Rivals(r)
<1>1. \A k \in Requests : pc[k] # "idle" => pc'[k] # "idle"
  BY Others DEF Typed
<1>2. \A k \in Requests \ {q} : pc'[k] = pc[k]
  BY Others DEF Typed
<1> QED
  BY <1>1, <1>2 DEF Rivals, Namesakes, Deletions, Vm, Name, Slice

LEMMA CuttersKept ==
  ASSUME Typed, Cutters, NEW r \in Requests, Acts(r)
  PROVE  Cutters'
<1>1. \A s : Deletions(s) \subseteq Deletions(s)'
  <2>1. \A k \in Requests : pc[k] # "idle" => pc'[k] # "idle"
    BY Others DEF Typed
  <2> QED
    BY <2>1 DEF Deletions, Slice
<1>2. \A s \in cut : Deletions(s)' # {}
  BY <1>1 DEF Cutters
<1>3. CASE AddPort(r)
  <2>1. ASSUME Removing(Slice(r)) PROVE Deletions(Slice(r)) # {}
    <3>1. PICK q \in Requests : Slice(q) = Slice(r) /\ (pc[q] \in Script \/ \E p \in Script : <<q, p>> \in late)
      BY <2>1 DEF Removing
    <3>2. Op[q] = "delete" /\ pc[q] # "idle"
      BY <3>1 DEF Typed, Kinds, Commands, Deleting, Script
    <3>3. q \in Deletions(Slice(r))
      BY <3>1, <3>2 DEF Deletions
    <3> QED
      BY <3>3
  <2>2. cut' = IF Removing(Slice(r)) THEN cut \cup {Slice(r)} ELSE cut
    BY <1>3 DEF AddPort
  <2> QED
    BY <1>1, <1>2, <2>1, <2>2 DEF Cutters
<1>4. CASE Skips(r)
  <2>1. CASE cut' = cut
    BY <1>2, <2>1 DEF Cutters
  <2>2. CASE cut' # cut
    <3>1. Runs(r, "count", "trunk-off") /\ cut' \subseteq cut \cup {Slice(r)}
      BY <1>4, <2>2 DEF Skips
    <3>2. Op[r] = "delete" /\ pc[r] # "idle"
      BY <3>1 DEF Typed, Kinds, Runs, Late, Commands, Deleting, Script
    <3>3. r \in Deletions(Slice(r))
      BY <3>2 DEF Deletions
    <3> QED
      BY <1>1, <1>2, <3>1, <3>3 DEF Cutters
  <2> QED
    BY <2>1, <2>2
<1>5. CASE ~(AddPort(r) \/ Skips(r))
  <2>1. cut' = cut
    BY <1>5 DEF Acts, Execute, Impossible, Fault, Overdue, MakeDisk, MakeSeed, AddBridge, AddTap, AddPair, RaisePair,
       AddTrunk, AddTunnel, Launch, RaiseTap, ReadPid, UndoPort, UndoSeed, UndoDisk, Kill, RemoveFiles, RemovePidfile,
       RemovePort, RemoveTap, CountTaps, RemoveTrunk, RemoveTunnel, RemovePair, RemoveBridge
  <2> QED
    BY <1>2, <2>1 DEF Cutters
<1> QED
  BY <1>3, <1>4, <1>5

LEMMA HoldingKept ==
  ASSUME Typed, Holding, NEW r \in Requests, Acts(r)
  PROVE  Holding'
<1> USE OfVm DEF Typed, Marks
<1>1. CASE Launch(r)
  <2>1. proc' = [proc EXCEPT ![Vm(r)] = pids + 1] /\ opened' = opened \cup {Vm(r)}
    BY <1>1 DEF Launch
  <2> QED
    BY <2>1 DEF Holding, Host
<1>2. CASE Kill(r)
  BY <1>2 DEF Kill, Holding
<1>3. CASE Execute(r) \/ ReadPid(r) \/ RemovePidfile(r)
  BY <1>3 DEF Execute, ReadPid, RemovePidfile, worker, files, Holding
<1>4. CASE ~Marking(r)
  <2>1. proc' = proc
    BY <1>4, Unmarking DEF pidvars
  <2>2. opened' \subseteq opened
    <3>1. CASE Impossible(r) \/ Fault(r) \/ Overdue(r) \/ RaisePair(r) \/ RaiseTap(r) \/ CountTaps(r) \/ Skips(r)
      BY <3>1 DEF Impossible, Fault, Overdue, RaisePair, RaiseTap, CountTaps, Skips, worker, files
    <3>2. CASE MakeDisk(r) \/ MakeSeed(r) \/ AddBridge(r) \/ AddTap(r) \/ AddPort(r) \/ AddPair(r) \/ AddTrunk(r) \/ AddTunnel(r)
      BY <3>2 DEF MakeDisk, MakeSeed, AddBridge, AddTap, AddPort, AddPair, AddTrunk, AddTunnel, files
    <3>3. CASE UndoPort(r) \/ UndoSeed(r) \/ UndoDisk(r) \/ RemoveFiles(r) \/ RemovePort(r) \/ RemoveTap(r)
      BY <3>3 DEF UndoPort, UndoSeed, UndoDisk, RemoveFiles, RemovePort, RemoveTap, files
    <3>4. CASE RemoveTrunk(r) \/ RemoveTunnel(r) \/ RemovePair(r) \/ RemoveBridge(r)
      BY <3>4 DEF RemoveTrunk, RemoveTunnel, RemovePair, RemoveBridge, files
    <3> QED
      BY <1>4, <3>1, <3>2, <3>3, <3>4 DEF Acts, Marking
  <2> QED
    BY <2>1, <2>2 DEF Holding
<1> QED
  BY <1>1, <1>2, <1>3, <1>4 DEF Marking

\* A command in time finds its request at it and moves it on; one given up finds it
\* past all creating.
LEMMA Punctual ==
  ASSUME Control, Kinds, NEW r \in Requests, NEW p \in Commands, NEW q \in Points, Runs(r, p, q), pc[r] \in Creating
  PROVE  pc[r] = p /\ pc'[r] = q /\ answer'[r] = answer[r] /\ UNCHANGED <<late, acted>>
<1>1. ~Late(r, p, q)
  BY DEF Late, Kinds, Commands, Creating, Undoing, Deleting, Script
<1> QED
  BY <1>1 DEF Runs, Goto, Control

LEMMA Belated ==
  ASSUME Control, Kinds, NEW r \in Requests, NEW p \in Creating, NEW q, Runs(r, p, q), pc[r] \notin Creating
  PROVE  pc'[r] = pc[r] /\ answer'[r] = answer[r] /\ answer[r] # "ready" /\ <<r, p, pc[r]>> \in acted'
<1>1. Late(r, p, q)
  BY DEF Runs
<1> QED
  BY <1>1 DEF Late, Kinds, Commands

\* No creation goes back before the launch.
LEMMA Forward ==
  ASSUME Control, Kinds, NEW r \in Requests, Acts(r), pc[r] \notin Early
  PROVE  pc'[r] \notin Early
<1> USE DEF Early, Creating, Launching
<1>1. CASE Returns(r)
  BY <1>1 DEF Returns, Late
<1>2. CASE pc[r] \in Creating
  <2>0. pc[r] \in {"up", "pid"}
    BY <1>2
  <2>1. CASE Impossible(r) \/ Fault(r) \/ Overdue(r)
    BY <2>0, <2>1 DEF Impossible, Fault, Overdue, Fails, Goto, Control
  <2>2. CASE RaiseTap(r)
    BY <2>2 DEF RaiseTap, Goto, Control
  <2>3. CASE ReadPid(r)
    BY <2>3 DEF ReadPid, Answer, Control
  <2>4. ASSUME NEW p \in Commands \ {"up", "pid"}, NEW q \in Points PROVE ~Runs(r, p, q)
    BY <2>0, <2>4, Punctual
  <2>5. ASSUME NEW p \in Commands \ {"up", "pid"}, NEW a PROVE ~Ends(r, p, a)
    BY <2>0, <2>5 DEF Ends, Late, Kinds, Commands, Undoing, Deleting, Script
  <2>6. ~(MakeDisk(r) \/ MakeSeed(r) \/ AddBridge(r) \/ AddTap(r) \/ AddPort(r) \/ AddPair(r) \/ AddTrunk(r)
          \/ AddTunnel(r) \/ Launch(r))
    <3>1. {"disk", "seed", "bridge", "tap", "port", "pair", "trunk", "tunnel", "qemu"} \subseteq Commands \ {"up", "pid"}
          /\ {"seed", "bridge", "tap", "port", "pair", "pair-up", "tunnel", "qemu", "up"} \subseteq Points
      BY DEF Commands, Points
    <3> QED
      BY <2>4, <3>1 DEF MakeDisk, MakeSeed, AddBridge, AddTap, AddPort, AddPair, AddTrunk, AddTunnel, Launch
  <2>7. ~(UndoPort(r) \/ UndoSeed(r) \/ UndoDisk(r))
    <3>1. {"undo-port", "undo-seed", "undo-disk"} \subseteq Commands \ {"up", "pid"}
          /\ {"undo-seed", "undo-disk"} \subseteq Points
      BY DEF Commands, Points, Undoing
    <3> QED
      BY <2>4, <2>5, <3>1 DEF UndoPort, UndoSeed, UndoDisk
  <2>8. ~(Kill(r) \/ RemoveFiles(r) \/ RemovePidfile(r) \/ RemovePort(r) \/ RemoveTap(r) \/ CountTaps(r)
          \/ RemoveTrunk(r) \/ RemoveTunnel(r) \/ RemovePair(r) \/ RemoveBridge(r) \/ Skips(r))
    <3>1. {"kill", "files", "pidfile", "port-off", "tap-off", "count", "trunk-off", "tunnel-off", "pair-off", "bridge-off"}
            \subseteq (Commands \ {"up", "pid"}) \cap Points
      BY DEF Commands, Points, Deleting, Script
    <3> QED
      BY <2>4, <2>5, <3>1 DEF Kill, RemoveFiles, RemovePidfile, RemovePort, RemoveTap, CountTaps, RemoveTrunk,
         RemoveTunnel, RemovePair, RemoveBridge, Skips
  <2>9. ~Execute(r) /\ ~RaisePair(r)
    BY <2>0 DEF Execute, RaisePair
  <2> QED
    BY <2>1, <2>2, <2>3, <2>6, <2>7, <2>8, <2>9 DEF Acts
<1>3. CASE ~Returns(r) /\ pc[r] \notin Creating
  <2>1. PICK p \in Points \ {"idle"} :
          /\ pc' = [pc EXCEPT ![r] = p] /\ pc[r] # "done"
          /\ p \in Creating \cup Undoing => Op[r] = "create"
          /\ pc[r] \in Undoing => p \in Undoing \cup {"done"}
    BY <1>3, Steps DEF Moves
  <2>2. pc[r] \in Undoing \/ pc[r] \in Deleting
    BY <1>3, <2>1 DEF Control, Points
  <2>3. pc[r] \in Deleting => Op[r] = "delete"
    BY DEF Kinds
  <2> QED
    BY <2>1, <2>2, <2>3 DEF Control, Undoing
<1> QED
  BY <1>1, <1>2, <1>3

LEMMA LaunchersKept ==
  ASSUME Typed, Launchers, NEW r \in Requests, Acts(r)
  PROVE  Launchers'
<1> USE OfVm DEF Typed, Marks
<1>1. ASSUME NEW v \in Vms, proc[v] # 0
      PROVE  \E c \in Requests : Op[c] = "create" /\ Vm(c) = v /\ pc'[c] \notin Early
  <2>1. PICK c \in Requests : Op[c] = "create" /\ Vm(c) = v /\ pc[c] \notin Early
    BY <1>1 DEF Launchers
  <2>2. c # r => pc'[c] = pc[c]
    BY Others
  <2> QED
    BY <2>1, <2>2, Forward
<1>2. CASE Launch(r)
  <2>1. proc' = [proc EXCEPT ![Vm(r)] = pids + 1] /\ Runs(r, "qemu", "up") /\ Op[r] = "create"
    BY <1>2, Senders DEF Launch
  <2>2. pc'[r] \notin Early
    <3>1. CASE pc[r] \in Creating
      <4>1. "qemu" \in Commands /\ "up" \in Points
        BY DEF Commands, Creating, Points
      <4>2. pc'[r] = "up"
        BY <2>1, <3>1, <4>1, Punctual
      <4> QED
        BY <4>2 DEF Early, Creating, Launching
    <3>2. CASE pc[r] \notin Creating
      <4>1. Late(r, "qemu", "up")
        BY <2>1, <3>2 DEF Runs, Creating
      <4>2. pc'[r] \in Undoing \cup {"done"}
        BY <4>1 DEF Late, Kinds, Commands, Creating
      <4> QED
        BY <4>2 DEF Early, Creating, Launching, Undoing
    <3> QED
      BY <3>1, <3>2
  <2> SUFFICES ASSUME NEW v \in Vms, proc'[v] # 0
               PROVE  \E c \in Requests : Op[c] = "create" /\ Vm(c) = v /\ pc'[c] \notin Early
    BY DEF Launchers, Vm
  <2>3. CASE v = Vm(r)
    BY <2>1, <2>2, <2>3
  <2>4. CASE v # Vm(r)
    BY <1>1, <2>1, <2>4
  <2> QED
    BY <2>3, <2>4
<1>3. ~Launch(r) => \A v \in Vms : proc'[v] # 0 => proc[v] # 0
  BY Unmarking DEF Marking, Execute, ReadPid, Kill, RemovePidfile, worker, pidvars
<1> QED
  BY <1>1, <1>2, <1>3 DEF Launchers, Vm

\* What makes a command of a creation alone impossible: a namesake, or a deletion of
\* its slice.
LEMMA Reasons ==
  ASSUME Named, Launchers, Holding, Cutters, NEW r \in Requests, Alone(r), Stands(r), pc[r] \in Creating,
         ~Possible(r, pc[r])
  PROVE  Disturbed(r)
<1> USE OfVm DEF Named, Typed
<1>0. pc[r] \in Early => proc[Vm(r)] = 0
  <2> SUFFICES ASSUME pc[r] \in Early, proc[Vm(r)] # 0 PROVE FALSE
    OBVIOUS
  <2>1. PICK c \in Requests : Op[c] = "create" /\ Vm(c) = Vm(r) /\ pc[c] \notin Early
    BY DEF Launchers
  <2>2. c \in Rivals(r)
    BY <2>1 DEF Rivals, Vm, Early
  <2> QED
    BY <2>2 DEF Alone
<1>1. Slice(r) \in cut => Deletions(Slice(r)) # {}
  BY DEF Cutters
<1>2. CASE pc[r] = "disk"
  <2>1. Vm(r) \in opened
    BY <1>2 DEF Possible
  <2>2. proc[Vm(r)] = 0
    BY <1>0, <1>2 DEF Early, Creating, Launching
  <2> QED
    BY <2>1, <2>2 DEF Holding
<1>3. CASE pc[r] \in {"port", "trunk"}
  <2>1. Slice(r) \notin bridges
    BY <1>3 DEF Possible
  <2> QED
    BY <1>3, <2>1 DEF Stands, Past, Bridging, Tapping, Attaching, Pairing, Disturbed
<1>4. CASE pc[r] = "pair-up"
  <2>1. Slice(r) \notin pairs
    BY <1>4 DEF Possible
  <2> QED
    BY <1>1, <1>4, <2>1 DEF Stands, Past, Pairing, Disturbed
<1>5. CASE pc[r] = "qemu"
  <2>1. Vm(r) \in disks /\ (Name(r) \in seeds \/ Namesakes(r) # {})
    BY <1>5 DEF Stands, Past, Storing, Seeding, Bridging, Tapping, Attaching, Pairing, Trunking, Wiring
  <2>2. proc[Vm(r)] = 0
    BY <1>0, <1>5 DEF Early, Creating, Launching
  <2>3. ASSUME NEW v \in Vms, proc[v] # 0, v = Vm(r) \/ proc[v] = pidfile[Name(r)]
        PROVE  Namesakes(r) # {}
    <3>1. v # Vm(r) /\ NameOf[v] = Name(r)
      BY <2>2, <2>3 DEF ByName
    <3>2. PICK c \in Requests : Vm(c) = v /\ pc[c] \notin Early
      BY <2>3 DEF Launchers
    <3>3. c \in Namesakes(r)
      BY <3>1, <3>2 DEF Namesakes, Vm, Name, Early
    <3> QED
      BY <3>3
  <2> QED
    BY <1>5, <2>1, <2>3 DEF Possible, Disturbed
<1>6. CASE pc[r] = "up"
  BY <1>6 DEF Possible, Stands, Past, Tapping, Attaching, Pairing, Trunking, Wiring, Launching
<1>7. CASE pc[r] = "pid"
  BY <1>7 DEF Possible, Stands, Past, Launching, Disturbed
<1> QED
  BY <1>2, <1>3, <1>4, <1>5, <1>6, <1>7 DEF Possible

\* Each command of a creation does its part.
LEMMA ByCreating ==
  ASSUME Named, Launchers, Holding, Cutters, NEW r \in Requests, Acts(r), Alone(r), Stands(r), Undone(r),
         pc[r] \in Creating
  PROVE  Stands(r)' /\ Undone(r)'
<1> USE OfVm DEF Named, Typed, Control, Host, Marks
<1>1. /\ Namesakes(r)' = Namesakes(r) /\ Deletions(Slice(r))' = Deletions(Slice(r)) /\ Disturbed(r)' = Disturbed(r)
      /\ Vm(r)' = Vm(r) /\ Name(r)' = Name(r) /\ Slice(r)' = Slice(r)
  BY Bystanders DEF Alone, Disturbed, Vm, Name, Slice
<1>2. Op[r] = "create" /\ answer[r] = "none" /\ pc[r] # "done" /\ faults \in Nat
  BY LinuxAssumption DEF Alone, Kinds, Creating
<1>3. ASSUME pc'[r] = "undo-port", answer'[r] = answer[r], faults' >= 1 \/ Disturbed(r)
      PROVE  Stands(r)' /\ Undone(r)'
  BY <1>1, <1>2, <1>3 DEF Stands, Undone, Past, Storing, Seeding, Bridging, Tapping, Attaching, Pairing, Trunking,
     Wiring, Launching, Undoing
<1>4. ASSUME pc'[r] \in Creating \cup {"done"}, answer'[r] # "failed"
      PROVE  Undone(r)'
  BY <1>4 DEF Undone, Creating, Undoing
<1>5. ASSUME NEW p \in Creating, NEW q \in Creating, Runs(r, p, q)
      PROVE  pc[r] = p /\ pc'[r] = q /\ answer'[r] = "none" /\ late' = late /\ Undone(r)'
  <2>1. p \in Commands /\ q \in Points
    BY DEF Commands, Points
  <2> QED
    BY <1>2, <1>4, <1>5, <2>1, Punctual
<1>6. {"disk", "seed", "bridge", "tap", "port", "pair", "pair-up", "trunk", "tunnel", "qemu", "up", "pid"} \subseteq Creating
  BY DEF Creating
<1> USE DEF Stands, Past, Storing, Seeding, Bridging, Tapping, Attaching, Pairing, Trunking, Wiring, Launching
<1>10. CASE Impossible(r) \/ Fault(r) \/ Overdue(r)
  <2>1. pc'[r] = "undo-port" /\ answer'[r] = answer[r]
    BY <1>10 DEF Impossible, Fault, Overdue, Fails, Goto
  <2>2. CASE Impossible(r)
    BY <1>3, <2>1, <2>2, Reasons DEF Impossible
  <2>3. CASE Fault(r) \/ Overdue(r)
    <3>1. faults' >= 1
      BY <1>2, <2>3 DEF Fault, Overdue
    <3> QED
      BY <1>3, <2>1, <3>1
  <2> QED
    BY <1>10, <2>2, <2>3
<1>11. CASE MakeDisk(r)
  <2>1. pc[r] = "disk" /\ pc'[r] = "seed" /\ answer'[r] = "none" /\ Undone(r)'
    BY <1>5, <1>6, <1>11 DEF MakeDisk
  <2> QED
    BY <1>1, <1>11, <2>1 DEF MakeDisk
<1>12. CASE MakeSeed(r)
  <2>1. pc[r] = "seed" /\ pc'[r] = "bridge" /\ answer'[r] = "none" /\ Undone(r)'
    BY <1>5, <1>6, <1>12 DEF MakeSeed
  <2> QED
    BY <1>1, <1>12, <2>1 DEF MakeSeed
<1>13. CASE AddBridge(r)
  <2>1. pc[r] = "bridge" /\ pc'[r] = "tap" /\ answer'[r] = "none" /\ Undone(r)'
    BY <1>5, <1>6, <1>13 DEF AddBridge
  <2> QED
    BY <1>1, <1>13, <2>1 DEF AddBridge, files
<1>14. CASE AddTap(r)
  <2>1. pc[r] = "tap" /\ pc'[r] = "port" /\ answer'[r] = "none" /\ Undone(r)'
    BY <1>5, <1>6, <1>14 DEF AddTap
  <2> QED
    BY <1>1, <1>14, <2>1 DEF AddTap, files
\* No deletion is taking the bridge, or the slice is cut.
<1>15. CASE AddPort(r)
  <2>1. pc[r] = "port" /\ pc'[r] = "pair" /\ answer'[r] = "none" /\ late' = late /\ Undone(r)'
    BY <1>5, <1>6, <1>15 DEF AddPort
  <2>2. Removing(Slice(r))' => Removing(Slice(r))
    <3>1. \A q \in Requests : pc'[q] \in Script => pc[q] \in Script
      BY <2>1, Others DEF Script
    <3> QED
      BY <1>1, <2>1, <3>1 DEF Removing, Slice, Vm
  <2>3. /\ ports' = ports \cup {Vm(r)} /\ cut' = IF Removing(Slice(r)) THEN cut \cup {Slice(r)} ELSE cut
        /\ disks' = disks /\ seeds' = seeds /\ bridges' = bridges /\ taps' = taps
    BY <1>15 DEF AddPort, files
  <2>4. Slice(r)' \in cut' \/ (Vm(r)' \in ports' /\ ~(Removing(Slice(r))'))
    BY <1>1, <2>2, <2>3
  <2> QED
    BY <1>1, <2>1, <2>3, <2>4
\* The rest of the wiring, of a slice that stays as it is.
<1>16. CASE AddPair(r) \/ RaisePair(r) \/ AddTrunk(r) \/ AddTunnel(r) \/ Launch(r) \/ RaiseTap(r) \/ ReadPid(r)
  <2>1. \/ AddPair(r) /\ pc[r] = "pair" /\ pc'[r] = "pair-up" /\ answer'[r] = "none"
        \/ RaisePair(r) /\ pc[r] = "pair-up" /\ pc'[r] = "trunk" /\ answer'[r] = "none"
        \/ AddTrunk(r) /\ pc[r] = "trunk" /\ pc'[r] = "tunnel" /\ answer'[r] = "none"
        \/ AddTunnel(r) /\ pc[r] = "tunnel" /\ pc'[r] = "qemu" /\ answer'[r] = "none"
        \/ Launch(r) /\ pc[r] = "qemu" /\ pc'[r] = "up" /\ answer'[r] = "none"
        \/ RaiseTap(r) /\ pc[r] = "up" /\ pc'[r] = "pid" /\ answer'[r] = "none"
        \/ ReadPid(r) /\ pc[r] = "pid" /\ pc'[r] = "done" /\ answer'[r] = "ready"
    <3>1. Runs(r, "pair", "pair-up") \/ Runs(r, "trunk", "tunnel") \/ Runs(r, "tunnel", "qemu") \/ Runs(r, "qemu", "up")
          \/ RaisePair(r) \/ RaiseTap(r) \/ ReadPid(r)
      BY <1>16 DEF AddPair, AddTrunk, AddTunnel, Launch
    <3>2. RaisePair(r) \/ RaiseTap(r) => answer'[r] = "none" /\ pc'[r] = IF RaisePair(r) THEN "trunk" ELSE "pid"
      BY <1>2 DEF RaisePair, RaiseTap, Goto
    <3>3. ReadPid(r) => pc'[r] = "done" /\ answer'[r] = "ready"
      BY DEF ReadPid, Answer
    <3> QED
      BY <1>2, <1>5, <1>6, <1>16, <3>2, <3>3 DEF AddPair, AddTrunk, AddTunnel, Launch, RaisePair, RaiseTap, ReadPid, Goto, Answer
  <2>2. Undone(r)'
    BY <1>4, <1>6, <2>1
  <2>3. late' = late /\ UNCHANGED <<disks, seeds, bridges, ports, cut>> /\ taps \subseteq taps'
        /\ pairs \subseteq pairs' /\ trunks \subseteq trunks' /\ tunnels \subseteq tunnels'
    <3>1. late' = late
      BY <1>5, <1>6, <1>16 DEF AddPair, AddTrunk, AddTunnel, Launch, RaisePair, RaiseTap, ReadPid
    <3> QED
      BY <1>16, <3>1 DEF AddPair, AddTrunk, AddTunnel, Launch, RaisePair, RaiseTap, ReadPid, worker, files, wiring
  <2>4. Removing(Slice(r))' => Removing(Slice(r))
    <3>1. \A q \in Requests : pc'[q] \in Script => pc[q] \in Script
      BY <2>1, Others DEF Script
    <3> QED
      BY <1>1, <2>3, <3>1 DEF Removing, Slice, Vm
  <2>5. Slice(r)' \in cut' \/ (Vm(r)' \in ports' /\ ~(Removing(Slice(r))'))
    BY <1>1, <2>1, <2>3, <2>4
  <2>6. AddPair(r) => Slice(r) \in pairs'
    BY DEF AddPair
  <2>7. AddTrunk(r) => Slice(r) \in trunks'
    BY DEF AddTrunk
  <2>8. AddTunnel(r) => Slice(r) \in tunnels'
    BY DEF AddTunnel
  <2>9. Launch(r) => pidfile'[Name(r)] # 0
    BY DEF Launch
  <2>10. RaiseTap(r) \/ ReadPid(r) => pidfile' = pidfile
    BY DEF RaiseTap, ReadPid, worker, files
  <2> HIDE DEF Undone, Removing
  <2> QED
    BY <1>1, <2>1, <2>2, <2>3, <2>5, <2>6, <2>7, <2>8, <2>9, <2>10
<1>17. ~(Execute(r) \/ UndoPort(r) \/ UndoSeed(r) \/ UndoDisk(r) \/ Kill(r) \/ RemoveFiles(r) \/ RemovePidfile(r)
         \/ RemovePort(r) \/ RemoveTap(r) \/ CountTaps(r) \/ RemoveTrunk(r) \/ RemoveTunnel(r) \/ RemovePair(r)
         \/ RemoveBridge(r) \/ Skips(r))
  <2>1. ASSUME NEW p \in Undoing \cup Deleting, NEW q \in Points PROVE ~Runs(r, p, q)
    BY <2>1, Punctual DEF Commands, Creating, Undoing, Deleting, Script
  <2>2. ASSUME NEW p \in Undoing \cup Deleting, NEW a PROVE ~Ends(r, p, a)
    BY <1>2, <2>2 DEF Ends, Late, Kinds, Commands, Creating, Undoing, Deleting, Script
  <2>3. {"undo-port", "undo-seed", "undo-disk", "kill", "files", "pidfile", "port-off", "tap-off", "count", "trunk-off",
         "tunnel-off", "pair-off", "bridge-off"} \subseteq (Undoing \cup Deleting) \cap Points
    BY DEF Undoing, Deleting, Script, Points
  <2>4. pc[r] # "idle"
    BY DEF Creating
  <2> QED
    BY <2>1, <2>2, <2>3, <2>4 DEF Execute, UndoPort, UndoSeed, UndoDisk, Kill, RemoveFiles, RemovePidfile, RemovePort,
       RemoveTap, CountTaps, RemoveTrunk, RemoveTunnel, RemovePair, RemoveBridge, Skips
<1> QED
  BY <1>10, <1>11, <1>12, <1>13, <1>14, <1>15, <1>16, <1>17 DEF Acts

\* What a command given up made after the rollback is what TooLate tells.
LEMMA TooLateIs ==
  ASSUME NEW r
  PROVE  /\ <<r, "disk", "done">> \in acted' => TooLate(r, "disk")'
         /\ \A x \in {"undo-disk", "done"} : <<r, "seed", x>> \in acted' => TooLate(r, "seed")'
         /\ \A x \in {"undo-seed", "undo-disk", "done"} : <<r, "port", x>> \in acted' => TooLate(r, "port")'
<1> DEFINE M == [disk |-> {}, seed |-> {"undo-disk"}, port |-> {"undo-seed", "undo-disk"}]
<1>1. M["disk"] = {} /\ M["seed"] = {"undo-disk"} /\ M["port"] = {"undo-seed", "undo-disk"}
  OBVIOUS
<1>2. \A p : TooLate(r, p)' <=> \E x \in {"done"} \cup M[p] : <<r, p, x>> \in acted'
  BY DEF TooLate
<1> HIDE DEF M
<1> QED
  BY <1>1, <1>2

LEMMA TooLateKept ==
  ASSUME acted \subseteq acted', NEW r, NEW p, TooLate(r, p)
  PROVE  TooLate(r, p)'
<1> DEFINE M == [disk |-> {}, seed |-> {"undo-disk"}, port |-> {"undo-seed", "undo-disk"}]
<1>1. TooLate(r, p) <=> \E x \in {"done"} \cup M[p] : <<r, p, x>> \in acted
  BY DEF TooLate
<1>2. TooLate(r, p)' <=> \E x \in {"done"} \cup M[p] : <<r, p, x>> \in acted'
  BY DEF TooLate
<1> HIDE DEF M
<1> QED
  BY <1>1, <1>2

\* Past all creating, a step of a request makes a disk, a seed or a port only by a
\* command given up.
LEMMA Belatedly ==
  ASSUME Typed, NEW r \in Requests, Acts(r), pc[r] \notin Creating, pc[r] # "idle"
  PROVE  /\ Vm(r) \in disks' => Vm(r) \in disks \/ <<r, "disk", pc[r]>> \in acted'
         /\ Name(r) \in seeds' => Name(r) \in seeds \/ <<r, "seed", pc[r]>> \in acted'
         /\ Vm(r) \in ports' => Vm(r) \in ports \/ <<r, "port", pc[r]>> \in acted'
         /\ MakeDisk(r) \/ MakeSeed(r) \/ AddPort(r) => pc'[r] = pc[r] /\ answer'[r] = answer[r]
<1> USE OfVm DEF Typed
<1>0. "disk" \in Creating /\ "seed" \in Creating /\ "port" \in Creating
  BY DEF Creating
<1>1. CASE MakeDisk(r)
  <2>1. Runs(r, "disk", "seed") /\ seeds' = seeds /\ ports' = ports
    BY <1>1 DEF MakeDisk, wiring
  <2> QED
    BY <1>0, <2>1, Belated
<1>2. CASE MakeSeed(r)
  <2>1. Runs(r, "seed", "bridge") /\ disks' = disks /\ ports' = ports
    BY <1>2 DEF MakeSeed, wiring
  <2> QED
    BY <1>0, <2>1, Belated
<1>3. CASE AddPort(r)
  <2>1. Runs(r, "port", "pair") /\ disks' = disks /\ seeds' = seeds
    BY <1>3 DEF AddPort, files
  <2> QED
    BY <1>0, <2>1, Belated
<1>4. CASE ~(MakeDisk(r) \/ MakeSeed(r) \/ AddPort(r))
  <2>1. disks' \subseteq disks /\ seeds' \subseteq seeds /\ ports' \subseteq ports
    <3>1. CASE AddBridge(r) \/ AddTap(r) \/ AddPair(r) \/ AddTrunk(r) \/ AddTunnel(r) \/ Launch(r)
      BY <3>1 DEF AddBridge, AddTap, AddPair, AddTrunk, AddTunnel, Launch, files
    <3>2. CASE UndoPort(r) \/ UndoSeed(r) \/ UndoDisk(r) \/ Kill(r) \/ RemoveFiles(r) \/ RemovePidfile(r)
      BY <3>2 DEF UndoPort, UndoSeed, UndoDisk, Kill, RemoveFiles, RemovePidfile, files, wiring
    <3>3. CASE RemovePort(r) \/ RemoveTap(r) \/ RemoveTrunk(r) \/ RemoveTunnel(r) \/ RemovePair(r) \/ RemoveBridge(r)
      BY <3>3 DEF RemovePort, RemoveTap, RemoveTrunk, RemoveTunnel, RemovePair, RemoveBridge, files
    <3>4. CASE Execute(r) \/ Impossible(r) \/ Fault(r) \/ Overdue(r) \/ RaisePair(r) \/ RaiseTap(r) \/ ReadPid(r)
               \/ CountTaps(r) \/ Skips(r)
      BY <3>4 DEF Execute, Impossible, Fault, Overdue, RaisePair, RaiseTap, ReadPid, CountTaps, Skips, worker, files, wiring
    <3> QED
      BY <1>4, <3>1, <3>2, <3>3, <3>4 DEF Acts
  <2> QED
    BY <1>4, <2>1
<1> QED
  BY <1>1, <1>2, <1>3, <1>4

\* The rollback goes through port, seed and disk, or is over for a second failure.
LEMMA Undoes ==
  ASSUME Typed, NEW r \in Requests, Acts(r), pc[r] \in Undoing, ~(pc'[r] = pc[r] /\ answer'[r] = answer[r])
  PROVE  \/ pc'[r] = "done" /\ answer'[r] = "failed" /\ faults' = faults + 1
         \/ pc[r] = "undo-port" /\ pc'[r] = "undo-seed" /\ answer'[r] = "none" /\ Vm(r) \notin ports'
         \/ pc[r] = "undo-seed" /\ pc'[r] = "undo-disk" /\ answer'[r] = "none" /\ Name(r) \notin seeds'
         \/ pc[r] = "undo-disk" /\ pc'[r] = "done" /\ answer'[r] = "failed" /\ Vm(r) \notin disks'
<1> USE DEF Typed, Control
<1>0. answer[r] = "none" /\ Op[r] = "create"
  BY DEF Kinds, Undoing
<1>1. CASE Fault(r) \/ Overdue(r)
  <2>1. Answer(r, "failed") /\ faults' = faults + 1
    BY <1>1 DEF Fault, Overdue, Fails, Creating, Undoing
  <2> QED
    BY <2>1 DEF Answer
<1>2. CASE UndoPort(r)
  <2>1. Goto(r, "undo-seed") /\ pc[r] = "undo-port"
    BY <1>2 DEF UndoPort, Runs, Late
  <2> QED
    BY <1>0, <1>2, <2>1 DEF Goto, UndoPort
<1>3. CASE UndoSeed(r)
  <2>1. Goto(r, "undo-disk") /\ pc[r] = "undo-seed"
    BY <1>3 DEF UndoSeed, Runs, Late
  <2> QED
    BY <1>0, <1>3, <2>1 DEF Goto, UndoSeed
<1>4. CASE UndoDisk(r)
  <2>1. Answer(r, "failed") /\ pc[r] = "undo-disk"
    BY <1>4 DEF UndoDisk, Ends, Late
  <2> QED
    BY <1>4, <2>1 DEF Answer, UndoDisk
<1>5. ASSUME NEW p \in Creating \cup Deleting, NEW q PROVE ~Runs(r, p, q) /\ ~Ends(r, p, q)
  BY <1>0, <1>5 DEF Runs, Ends, Late, Creating, Undoing, Deleting, Script
<1>6. {"disk", "seed", "bridge", "tap", "port", "pair", "trunk", "tunnel", "qemu", "kill", "files", "pidfile", "port-off",
       "tap-off", "count", "trunk-off", "tunnel-off", "pair-off", "bridge-off"} \subseteq Creating \cup Deleting
  BY DEF Creating, Deleting, Script
<1>7. ~(MakeDisk(r) \/ MakeSeed(r) \/ AddBridge(r) \/ AddTap(r) \/ AddPort(r) \/ AddPair(r) \/ AddTrunk(r)
        \/ AddTunnel(r) \/ Launch(r))
  BY <1>5, <1>6 DEF MakeDisk, MakeSeed, AddBridge, AddTap, AddPort, AddPair, AddTrunk, AddTunnel, Launch
<1>8. ~(Kill(r) \/ RemoveFiles(r) \/ RemovePidfile(r) \/ RemovePort(r) \/ RemoveTap(r) \/ CountTaps(r)
        \/ RemoveTrunk(r) \/ RemoveTunnel(r) \/ RemovePair(r) \/ RemoveBridge(r) \/ Skips(r))
  BY <1>5, <1>6 DEF Kill, RemoveFiles, RemovePidfile, RemovePort, RemoveTap, CountTaps, RemoveTrunk, RemoveTunnel,
     RemovePair, RemoveBridge, Skips
<1>9. ~(Execute(r) \/ Impossible(r) \/ RaisePair(r) \/ RaiseTap(r) \/ ReadPid(r))
  BY DEF Execute, Impossible, RaisePair, RaiseTap, ReadPid, Creating, Undoing
<1> QED
  BY <1>1, <1>2, <1>3, <1>4, <1>7, <1>8, <1>9 DEF Acts

LEMMA ByUndoing ==
  ASSUME Typed, NEW r \in Requests, Acts(r), Alone(r), Undone(r), pc[r] \notin Creating, pc[r] # "idle"
  PROVE  Stands(r)' /\ Undone(r)'
<1>0. faults \in Nat /\ faults' \in Nat /\ faults <= faults' /\ acted \subseteq acted' /\ Op[r] = "create"
  BY LinuxAssumption, Counting, Remembered DEF Typed, Control, Alone
<1>1. pc[r] \in Undoing \cup {"done"}
  BY <1>0 DEF Typed, Control, Kinds, Points
<1>2. /\ Disturbed(r)' = Disturbed(r) /\ (Namesakes(r) # {} => Namesakes(r)' # {})
      /\ Vm(r)' = Vm(r) /\ Name(r)' = Name(r)
  BY <1>0, Bystanders DEF Disturbed, Vm, Name, Slice
<1>3. /\ Vm(r) \in disks' => Vm(r) \in disks \/ <<r, "disk", pc[r]>> \in acted'
      /\ Name(r) \in seeds' => Name(r) \in seeds \/ <<r, "seed", pc[r]>> \in acted'
      /\ Vm(r) \in ports' => Vm(r) \in ports \/ <<r, "port", pc[r]>> \in acted'
  BY Belatedly
<1>4. /\ <<r, "disk", "done">> \in acted' => TooLate(r, "disk")'
      /\ \A x \in {"undo-disk", "done"} : <<r, "seed", x>> \in acted' => TooLate(r, "seed")'
      /\ \A x \in {"undo-seed", "undo-disk", "done"} : <<r, "port", x>> \in acted' => TooLate(r, "port")'
  BY TooLateIs
<1>5. \A p : TooLate(r, p) => TooLate(r, p)'
  BY <1>0, TooLateKept
<1>6. Unported(r) /\ pc[r] \in {"undo-seed", "undo-disk", "done"} => Unported(r)'
  BY <1>2, <1>3, <1>4, <1>5 DEF Unported
<1>7. Unseeded(r) /\ pc[r] \in {"undo-disk", "done"} => Unseeded(r)'
  BY <1>2, <1>3, <1>4, <1>5 DEF Unseeded
<1>8. Undisked(r) /\ pc[r] = "done" => Undisked(r)'
  BY <1>2, <1>3, <1>4, <1>5 DEF Undisked
<1>9. pc'[r] \in Undoing \cup {"done"} /\ answer'[r] # "ready"
  <2>1. CASE Returns(r)
    BY <1>1, <2>1 DEF Returns, Late, Typed, Kinds
  <2>2. CASE ~Returns(r)
    <3>1. pc[r] \in Undoing
      BY <1>1, <2>2, Steps DEF Moves, Typed
    <3>2. CASE pc'[r] = pc[r] /\ answer'[r] = answer[r]
      BY <1>1, <3>1, <3>2 DEF Typed, Kinds, Undoing
    <3>3. CASE ~(pc'[r] = pc[r] /\ answer'[r] = answer[r])
      BY <3>1, <3>3, Undoes DEF Undoing
    <3> QED
      BY <3>2, <3>3
  <2> QED
    BY <2>1, <2>2
<1>10. Stands(r)'
  BY <1>9 DEF Stands, Past, Storing, Seeding, Bridging, Tapping, Attaching, Pairing, Trunking, Wiring, Launching, Undoing
<1>11. CASE pc'[r] = pc[r] /\ answer'[r] = answer[r]
  <2>1. answer[r] = "failed" => pc[r] = "done"
    BY DEF Typed, Kinds
  <2> HIDE DEF Unported, Unseeded, Undisked, Disturbed
  <2>2. Undone(r)'
    BY <1>0, <1>2, <1>6, <1>7, <1>8, <1>11, <2>1 DEF Undone
  <2> QED
    BY <1>10, <2>2
<1>12. CASE ~(pc'[r] = pc[r] /\ answer'[r] = answer[r])
  <2>1. pc[r] \in Undoing
    BY <1>1, <1>12, Others DEF Typed
  <2>2. faults >= 1 \/ Disturbed(r)
    BY <2>1 DEF Undone
  <2>3. CASE pc'[r] = "done" /\ answer'[r] = "failed" /\ faults' = faults + 1
    <3>1. faults' >= 2 \/ (faults' >= 1 /\ Disturbed(r)')
      BY <1>0, <1>2, <2>2, <2>3
    <3> QED
      BY <1>10, <2>3, <3>1 DEF Undone, Undoing
  <2>4. CASE pc[r] = "undo-port" /\ pc'[r] = "undo-seed" /\ answer'[r] = "none" /\ Vm(r) \notin ports'
    <3>1. Unported(r)' /\ (faults' >= 1 \/ Disturbed(r)')
      BY <1>0, <1>2, <2>2, <2>4 DEF Unported
    <3> QED
      BY <1>10, <2>4, <3>1 DEF Undone
  <2>5. CASE pc[r] = "undo-seed" /\ pc'[r] = "undo-disk" /\ answer'[r] = "none" /\ Name(r) \notin seeds'
    <3>1. Unported(r)' /\ (faults' >= 1 \/ Disturbed(r)')
      BY <1>0, <1>2, <1>6, <2>2, <2>5 DEF Undone
    <3>2. Unseeded(r)'
      BY <1>2, <2>5 DEF Unseeded
    <3> QED
      BY <1>10, <2>5, <3>1, <3>2 DEF Undone
  <2>6. CASE pc[r] = "undo-disk" /\ pc'[r] = "done" /\ answer'[r] = "failed" /\ Vm(r) \notin disks'
    <3>1. Unported(r)' /\ Unseeded(r)'
      BY <1>6, <1>7, <2>6 DEF Undone
    <3>2. Undisked(r)'
      BY <1>2, <2>6 DEF Undisked
    <3> QED
      BY <1>10, <2>6, <3>1, <3>2 DEF Undone, Undoing
  <2> QED
    BY <1>12, <2>1, <2>3, <2>4, <2>5, <2>6, Undoes
<1> QED
  BY <1>11, <1>12

LEMMA StandsByItself ==
  ASSUME Named, Launchers, Holding, Cutters, NEW r \in Requests, Acts(r), Alone(r), Stands(r), Undone(r)
  PROVE  Stands(r)' /\ Undone(r)'
<1>1. CASE pc[r] = "idle"
  <2>1. Execute(r)
    BY <1>1, Awake DEF Named, Typed
  <2>2. \/ pc'[r] = "disk" /\ answer'[r] = "none"
        \/ pc'[r] = "done" /\ answer'[r] = "refused"
    <3>1. Op[r] = "create" /\ answer[r] = "none"
      BY <1>1 DEF Alone, Named, Typed, Kinds
    <3> QED
      BY <2>1, <3>1 DEF Execute, Goto, Answer, Named, Typed, Control
  <2> QED
    BY <2>2 DEF Stands, Undone, Past, Storing, Seeding, Bridging, Tapping, Attaching, Pairing, Trunking, Wiring,
       Launching, Undoing
<1>2. CASE pc[r] \in Creating
  BY <1>2, ByCreating
<1>3. CASE pc[r] \notin Creating /\ pc[r] # "idle"
  BY <1>3, ByUndoing DEF Named
<1> QED
  BY <1>1, <1>2, <1>3

\* A request about another VM leaves disk, tap and port of this one, and its slice's
\* veth pair, but for what a deletion taking the bridge removes.
LEMMA Aside ==
  ASSUME Typed, NEW q \in Requests, Acts(q), NEW r \in Requests, Vm(q) # Vm(r)
  PROVE  /\ Vm(r) \in disks' <=> Vm(r) \in disks
         /\ Vm(r) \in taps => Vm(r) \in taps'
         /\ Vm(r) \in ports => Vm(r) \in ports' \/ Removing(Slice(r))
         /\ Vm(r) \in ports' => Vm(r) \in ports
         /\ Slice(r) \in pairs => Slice(r) \in pairs' \/ Removing(Slice(r))
         /\ Slice(r) \in trunks => Slice(r) \in trunks' \/ Removing(Slice(r))
         /\ Slice(r) \in tunnels => Slice(r) \in tunnels' \/ Removing(Slice(r))
         /\ Slice(r) \in bridges => Slice(r) \in bridges' \/ (Op[q] = "delete" /\ Slice(q) = Slice(r))
         /\ cut \subseteq cut'
<1> USE OfVm DEF Typed, Host
<1>1. CASE Launch(q)
  BY <1>1 DEF Launch
<1>2. CASE Kill(q)
  BY <1>2 DEF Kill, wiring
<1>3. CASE MakeDisk(q) \/ MakeSeed(q) \/ AddBridge(q) \/ AddTap(q)
  BY <1>3 DEF MakeDisk, MakeSeed, AddBridge, AddTap, files, wiring
<1>4. CASE AddPort(q) \/ AddPair(q) \/ AddTrunk(q) \/ AddTunnel(q)
  BY <1>4 DEF AddPort, AddPair, AddTrunk, AddTunnel, files
<1>5. CASE UndoPort(q) \/ UndoSeed(q) \/ UndoDisk(q) \/ RemoveFiles(q) \/ RemovePidfile(q)
  BY <1>5 DEF UndoPort, UndoSeed, UndoDisk, RemoveFiles, RemovePidfile, files, wiring
<1>6. CASE RemovePort(q) \/ RemoveTap(q)
  BY <1>6 DEF RemovePort, RemoveTap, files
<1>7. CASE RemoveTrunk(q) \/ RemoveTunnel(q) \/ RemovePair(q) \/ RemoveBridge(q)
  <2>1. PICK p \in Script : pc[q] = p \/ <<q, p>> \in late
    BY <1>7 DEF RemoveTrunk, RemoveTunnel, RemovePair, RemoveBridge, Runs, Ends, Late, Script
  <2>2. Slice(q) = Slice(r) => Removing(Slice(r))
    BY <2>1 DEF Removing
  <2>3. Op[q] = "delete"
    BY <2>1 DEF Kinds, Commands, Deleting
  <2>4. Slice(q) # Slice(r) => Vm(r) \notin Wired(Slice(q))
    BY DEF Wired
  <2>5. UNCHANGED <<disks, taps, cut>> /\ ports' \subseteq ports /\ (Slice(q) # Slice(r) /\ Vm(r) \in ports => Vm(r) \in ports')
    BY <1>7, <2>4 DEF RemoveTrunk, RemoveTunnel, RemovePair, RemoveBridge, files
  <2>6. Slice(q) # Slice(r) => /\ Slice(r) \in pairs => Slice(r) \in pairs'
                               /\ Slice(r) \in trunks => Slice(r) \in trunks'
                               /\ Slice(r) \in tunnels => Slice(r) \in tunnels'
                               /\ Slice(r) \in bridges => Slice(r) \in bridges'
    BY <1>7 DEF RemoveTrunk, RemoveTunnel, RemovePair, RemoveBridge
  <2> QED
    BY <2>2, <2>3, <2>5, <2>6
<1>8. CASE CountTaps(q) \/ Skips(q)
  BY <1>8 DEF CountTaps, Skips, worker, files, wiring
<1>9. CASE Execute(q) \/ Impossible(q) \/ Fault(q) \/ Overdue(q) \/ RaisePair(q) \/ RaiseTap(q) \/ ReadPid(q)
  BY <1>9 DEF Execute, Impossible, Fault, Overdue, RaisePair, RaiseTap, ReadPid, worker, files, wiring
<1> QED
  BY <1>1, <1>2, <1>3, <1>4, <1>5, <1>6, <1>7, <1>8, <1>9 DEF Acts

\* While a VM is wired, no deletion starts to take the bridge of its slice, unless by
\* a count that failed.
LEMMA Unremoved ==
  ASSUME Typed, NEW q \in Requests, Acts(q), NEW v \in ports, ~Removing(SliceOf[v])
  PROVE  SliceOf[v] \in cut' \/ ~(Removing(SliceOf[v])')
<1> USE OfVm DEF Typed
<1> DEFINE s == SliceOf[v]
<1> SUFFICES ASSUME Removing(s)', s \notin cut' PROVE FALSE
  OBVIOUS
<1>1. PICK d \in Requests : Slice(d) = s /\ (pc'[d] \in Script \/ \E p \in Script : <<d, p>> \in late')
  BY DEF Removing, Slice
<1>2. ~(pc[d] \in Script \/ \E p \in Script : <<d, p>> \in late)
  BY <1>1 DEF Removing
<1> HIDE DEF s
<1>3. d = q /\ ~(late' = late /\ pc' = pc)
  <2>1. CASE Moves(q)
    <3>1. late' = late \/ (late' = late \cup {<<q, pc[q]>>})
      BY <2>1 DEF Moves
    <3>2. d # q => pc'[d] = pc[d] /\ \A p \in Script : <<d, p>> \in late' => <<d, p>> \in late
      BY <3>1, Others
    <3> QED
      BY <1>1, <1>2, <3>2
  <2>2. CASE Returns(q)
    <3>1. pc' = pc
      BY <2>2 DEF Returns, Late
    <3>2. \A p \in Script : d # q /\ <<d, p>> \in late' => <<d, p>> \in late
      BY <2>2 DEF Returns, Late
    <3> QED
      BY <1>1, <1>2, <3>1, <3>2
  <2> QED
    BY <2>1, <2>2, Steps
\* Only the count leads into the script.
<1>4. ASSUME NEW p \in Commands \ (Script \cup {"count"}), NEW x \in Points \ Script, Runs(q, p, x)
      PROVE  FALSE
  <2>1. CASE pc[q] = p /\ Goto(q, x) /\ UNCHANGED <<late, acted>>
    BY <1>1, <1>2, <1>3, <1>4, <2>1 DEF Goto, Control
  <2>2. CASE Late(q, p, x)
    BY <1>1, <1>2, <1>3, <1>4, <2>2 DEF Late
  <2> QED
    BY <1>4, <2>1, <2>2 DEF Runs
<1>5. ASSUME NEW p \in Commands, NEW a, Ends(q, p, a)
      PROVE  FALSE
  <2>1. CASE pc[q] = p /\ Answer(q, a) /\ UNCHANGED <<late, acted>>
    BY <1>1, <1>2, <1>3, <2>1 DEF Answer, Control, Script
  <2>2. CASE Late(q, p, "done")
    BY <1>1, <1>2, <1>3, <2>2 DEF Late, Script
  <2> QED
    BY <1>5, <2>1, <2>2 DEF Ends
<1>6. ASSUME NEW p \in Script, NEW x, Runs(q, p, x)
      PROVE  FALSE
  BY <1>2, <1>3, <1>6 DEF Runs, Late
<1>8. CASE CountTaps(q) \/ Skips(q)
  <2>1. v \in Wired(s) /\ Slice(q) = s
    BY <1>1, <1>3 DEF Wired, s
  <2>2. Runs(q, "count", "trunk-off")
    <3>1. ~Ends(q, "count", "ready")
      BY <1>5 DEF Commands, Deleting
    <3>2. ~(Runs(q, "trunk-off", "tunnel-off") \/ Runs(q, "tunnel-off", "pair-off") \/ Runs(q, "pair-off", "bridge-off"))
      BY <1>6 DEF Script
    <3> QED
      BY <1>8, <2>1, <3>1, <3>2 DEF CountTaps, Skips
  <2>3. Skips(q) => cut' = cut \cup {s}
    BY <2>1, <1>6 DEF Skips, Script
  <2>4. CountTaps(q) => Ends(q, "count", "ready")
    BY <2>1 DEF CountTaps
  <2> QED
    BY <1>5, <1>8, <2>3, <2>4 DEF Commands, Deleting
<1>9. ~(MakeDisk(q) \/ MakeSeed(q) \/ AddBridge(q) \/ AddTap(q) \/ AddPort(q) \/ AddPair(q) \/ AddTrunk(q)
        \/ AddTunnel(q) \/ Launch(q))
  <2>1. /\ {"disk", "seed", "bridge", "tap", "port", "pair", "trunk", "tunnel", "qemu"} \subseteq Commands \ (Script \cup {"count"})
        /\ {"seed", "bridge", "tap", "port", "pair", "pair-up", "tunnel", "qemu", "up"} \subseteq Points \ Script
    BY DEF Commands, Points, Creating, Script
  <2> QED
    BY <1>4, <2>1 DEF MakeDisk, MakeSeed, AddBridge, AddTap, AddPort, AddPair, AddTrunk, AddTunnel, Launch
<1>10. ~(UndoPort(q) \/ UndoSeed(q) \/ UndoDisk(q) \/ Kill(q) \/ RemoveFiles(q) \/ RemovePidfile(q) \/ RemovePort(q)
         \/ RemoveTap(q))
  <2>1. /\ {"undo-port", "undo-seed", "undo-disk", "kill", "files", "pidfile", "port-off", "tap-off"}
             \subseteq Commands \ (Script \cup {"count"})
        /\ {"undo-seed", "undo-disk", "files", "pidfile", "port-off", "tap-off", "count"} \subseteq Points \ Script
    BY DEF Commands, Points, Creating, Undoing, Deleting, Script
  <2> QED
    BY <1>4, <1>5, <2>1 DEF UndoPort, UndoSeed, UndoDisk, Kill, RemoveFiles, RemovePidfile, RemovePort, RemoveTap
<1>11. ~(RemoveTrunk(q) \/ RemoveTunnel(q) \/ RemovePair(q) \/ RemoveBridge(q))
  <2>1. {"trunk-off", "tunnel-off", "pair-off", "bridge-off"} \subseteq Script \cap Commands
    BY DEF Script, Commands, Deleting
  <2> QED
    BY <1>5, <1>6, <2>1 DEF RemoveTrunk, RemoveTunnel, RemovePair, RemoveBridge
<1>12. ~(Execute(q) \/ RaisePair(q) \/ RaiseTap(q) \/ ReadPid(q))
  <2>1. ~(late' = late /\ pc'[q] \notin Script)
    BY <1>1, <1>2, <1>3
  <2> QED
    BY <2>1 DEF Execute, RaisePair, RaiseTap, ReadPid, Goto, Answer, Control, Script
<1>13. ~(Impossible(q) \/ Fault(q) \/ Overdue(q))
  <2> SUFFICES ASSUME Impossible(q) \/ Fault(q) \/ Overdue(q) PROVE FALSE
    OBVIOUS
  <2>1. pc'[q] \in {"undo-port", "done"}
    BY DEF Impossible, Fault, Overdue, Fails, Goto, Answer, Control
  <2>2. late' \subseteq late \cup {<<q, pc[q]>>}
    BY DEF Impossible, Fault, Overdue
  <2> QED
    BY <1>1, <1>2, <1>3, <2>1, <2>2 DEF Script
<1> QED
  BY <1>8, <1>9, <1>10, <1>11, <1>12, <1>13 DEF Acts

LEMMA AsideByName ==
  ASSUME Typed, NEW q \in Requests, Acts(q), NEW r \in Requests, Name(q) # Name(r)
  PROVE  /\ Name(r) \in seeds' <=> Name(r) \in seeds
         /\ pidfile'[Name(r)] = pidfile[Name(r)]
<1> USE OfVm DEF Typed, Marks
<1>1. CASE Launch(q)
  BY <1>1 DEF Launch
<1>2. CASE RemovePidfile(q)
  BY <1>2 DEF RemovePidfile
<1>3. CASE MakeSeed(q) \/ UndoSeed(q) \/ RemoveFiles(q)
  BY <1>3 DEF MakeSeed, UndoSeed, RemoveFiles
<1>4. CASE Kill(q) \/ MakeDisk(q) \/ AddBridge(q) \/ AddTap(q) \/ AddPort(q) \/ AddPair(q) \/ AddTrunk(q) \/ AddTunnel(q)
           \/ UndoPort(q) \/ UndoDisk(q)
  BY <1>4 DEF Kill, MakeDisk, AddBridge, AddTap, AddPort, AddPair, AddTrunk, AddTunnel, UndoPort, UndoDisk, files
<1>5. CASE RemovePort(q) \/ RemoveTap(q) \/ CountTaps(q) \/ RemoveTrunk(q) \/ RemoveTunnel(q) \/ RemovePair(q)
           \/ RemoveBridge(q) \/ Skips(q)
  BY <1>5 DEF RemovePort, RemoveTap, CountTaps, RemoveTrunk, RemoveTunnel, RemovePair, RemoveBridge, Skips, worker, files
<1>6. CASE Execute(q) \/ Impossible(q) \/ Fault(q) \/ Overdue(q) \/ RaisePair(q) \/ RaiseTap(q) \/ ReadPid(q)
  BY <1>6 DEF Execute, Impossible, Fault, Overdue, RaisePair, RaiseTap, ReadPid, worker, files
<1> QED
  BY <1>1, <1>2, <1>3, <1>4, <1>5, <1>6 DEF Acts

\* What acts on the VM of a creation that stays alone is that creation.
LEMMA Apart ==
  ASSUME Typed, NEW q \in Requests, Acts(q), NEW r \in Requests \ {q}, Alone(r)'
  PROVE  /\ Alone(r) /\ Vm(q) # Vm(r) /\ pc'[r] = pc[r] /\ answer'[r] = answer[r]
         /\ Name(q) = Name(r) => Namesakes(r)' # {}
         /\ Op[q] = "delete" /\ Slice(q) = Slice(r) => Deletions(Slice(r))' # {}
<1>1. pc'[q] # "idle"
  <2>1. CASE Moves(q)
    BY <2>1 DEF Moves, Typed, Control
  <2>2. CASE Returns(q)
    <3>1. PICK p \in Commands : <<q, p>> \in late /\ pc' = pc
      BY <2>2 DEF Returns, Late
    <3>2. pc[q] \in Undoing \cup {"done"}
      BY <3>1 DEF Typed, Kinds, Commands
    <3> QED
      BY <3>1, <3>2 DEF Undoing
  <2> QED
    BY <2>1, <2>2, Steps DEF Typed
<1>2. Op[r] = "create" /\ q \notin Rivals(r)'
  BY DEF Alone
<1>3. Vm(q) # Vm(r)
  BY <1>1, <1>2 DEF Rivals, Vm
<1>4. Alone(r)
  BY <1>2, Bystanders DEF Alone
<1>5. Name(q) = Name(r) => q \in Namesakes(r)'
  BY <1>1, <1>3 DEF Namesakes, Vm, Name
<1>6. Op[q] = "delete" /\ Slice(q) = Slice(r) => q \in Deletions(Slice(r))'
  BY <1>1 DEF Deletions, Slice, Vm
<1> QED
  BY <1>3, <1>4, <1>5, <1>6, Others DEF Typed

LEMMA StandsByOthers ==
  ASSUME Typed, NEW q \in Requests, Acts(q), NEW r \in Requests \ {q}, Alone(r)', Stands(r), Undone(r)
  PROVE  Stands(r)' /\ Undone(r)'
<1> USE OfVm DEF Typed
<1>1. /\ Vm(q) # Vm(r) /\ pc'[r] = pc[r] /\ answer'[r] = answer[r] /\ Op[r] = "create"
      /\ Name(q) = Name(r) => Namesakes(r)' # {}
      /\ Op[q] = "delete" /\ Slice(q) = Slice(r) => Deletions(Slice(r))' # {}
  BY Apart DEF Alone
<1>2. Vm(r)' = Vm(r) /\ Name(r)' = Name(r) /\ Slice(r)' = Slice(r)
  BY DEF Vm, Name, Slice
<1>3. /\ Namesakes(r) # {} => Namesakes(r)' # {}
      /\ Deletions(Slice(r)) # {} => Deletions(Slice(r))' # {}
      /\ Disturbed(r) => Disturbed(r)'
  <2>1. Namesakes(r) \subseteq Namesakes(r)' /\ Deletions(Slice(r)) \subseteq Deletions(Slice(r))'
    BY <1>1, Bystanders
  <2> QED
    BY <1>2, <2>1 DEF Disturbed
<1>4. faults \in Nat /\ faults' \in Nat /\ faults <= faults'
  BY LinuxAssumption, Counting DEF Control
<1>5. acted \subseteq acted'
  BY Remembered
<1>6. /\ Vm(r) \in disks' <=> Vm(r) \in disks
      /\ Vm(r) \in taps => Vm(r) \in taps'
      /\ Vm(r) \in ports => Vm(r) \in ports' \/ Removing(Slice(r))
      /\ Vm(r) \in ports' => Vm(r) \in ports
      /\ Slice(r) \in pairs => Slice(r) \in pairs' \/ Removing(Slice(r))
      /\ Slice(r) \in trunks => Slice(r) \in trunks' \/ Removing(Slice(r))
      /\ Slice(r) \in tunnels => Slice(r) \in tunnels' \/ Removing(Slice(r))
      /\ Slice(r) \in bridges => Slice(r) \in bridges' \/ (Op[q] = "delete" /\ Slice(q) = Slice(r))
      /\ cut \subseteq cut'
  BY <1>1, Aside
<1>7. Name(q) # Name(r) => (Name(r) \in seeds' <=> Name(r) \in seeds) /\ pidfile'[Name(r)] = pidfile[Name(r)]
  BY AsideByName
<1>8. \A points : Past(r, points)' <=> Past(r, points)
  BY <1>1 DEF Past
<1>9. Stands(r)'
  <2>1. Past(r, Pairing) => Past(r, Attaching)
    BY DEF Past, Attaching
  <2>2. Past(r, Trunking) => Past(r, Attaching)
    BY DEF Past, Attaching, Pairing
  <2>3. Past(r, Wiring) => Past(r, Attaching)
    BY DEF Past, Attaching, Pairing, Trunking
  <2>4. Past(r, Attaching) => Slice(r) \in cut' \/ (Vm(r) \in ports' /\ ~(Removing(Slice(r))'))
    <3> SUFFICES ASSUME Past(r, Attaching), Slice(r) \notin cut' PROVE Vm(r) \in ports' /\ ~(Removing(Slice(r))')
      OBVIOUS
    <3>1. Vm(r) \in ports /\ ~Removing(Slice(r))
      BY <1>6 DEF Stands
    <3>2. Slice(r) = SliceOf[Vm(r)]
      BY DEF Slice, Vm
    <3>3. ~(Removing(SliceOf[Vm(r)])')
      BY <3>1, <3>2, Unremoved
    <3>4. Removing(Slice(r))' <=> Removing(SliceOf[Vm(r)])'
      BY DEF Removing, Slice, Vm
    <3> QED
      BY <1>6, <3>1, <3>3, <3>4
  <2>5. Past(r, Storing) => Vm(r) \in disks'
    BY <1>6 DEF Stands
  <2>6. Past(r, Seeding) => Name(r) \in seeds' \/ Namesakes(r)' # {}
    BY <1>1, <1>3, <1>7 DEF Stands
  <2>7. Past(r, Bridging) => Slice(r) \in bridges' \/ Deletions(Slice(r))' # {}
    BY <1>1, <1>3, <1>6 DEF Stands
  <2>8. Past(r, Tapping) => Vm(r) \in taps'
    BY <1>6 DEF Stands
  <2>9. /\ Past(r, Pairing) => Slice(r) \in cut' \/ Slice(r) \in pairs'
        /\ Past(r, Trunking) => Slice(r) \in cut' \/ Slice(r) \in trunks'
        /\ Past(r, Wiring) => Slice(r) \in cut' \/ Slice(r) \in tunnels'
    BY <1>6, <2>1, <2>2, <2>3 DEF Stands
  <2>10. Past(r, Launching) => pidfile'[Name(r)] # 0 \/ Namesakes(r)' # {}
    BY <1>1, <1>3, <1>7 DEF Stands
  <2> HIDE DEF Past
  <2>11. Past(r, Attaching)' => Slice(r)' \in cut' \/ (Vm(r)' \in ports' /\ ~(Removing(Slice(r))'))
    BY <1>2, <1>8, <2>4
  <2> QED
    BY <1>1, <1>2, <2>5, <2>6, <2>7, <2>8, <2>9, <2>10, <2>11 DEF Stands, Past, Storing, Seeding, Bridging, Tapping,
       Attaching, Pairing, Trunking, Wiring, Launching
<1>10. Undone(r)'
  <2>1. \A p : TooLate(r, p) => TooLate(r, p)'
    BY <1>5, TooLateKept
  <2>2. Unported(r) => Unported(r)'
    BY <1>2, <1>6, <2>1 DEF Unported
  <2>3. Unseeded(r) => Unseeded(r)'
    BY <1>1, <1>2, <1>3, <1>7, <2>1 DEF Unseeded
  <2>4. Undisked(r) => Undisked(r)'
    BY <1>2, <1>6, <2>1 DEF Undisked
  <2>5. pc[r] \in Undoing => faults' >= 1 \/ Disturbed(r)'
    BY <1>3, <1>4 DEF Undone
  <2>6. answer[r] = "failed" => \/ Undisked(r)' /\ Unported(r)' /\ Unseeded(r)'
                                \/ faults' >= 2 \/ (faults' >= 1 /\ Disturbed(r)')
    BY <1>3, <1>4, <2>2, <2>3, <2>4 DEF Undone
  <2> HIDE DEF Unported, Unseeded, Undisked, Disturbed
  <2> QED
    BY <1>1, <2>2, <2>3, <2>5, <2>6 DEF Undone, Undoing
<1> QED
  BY <1>9, <1>10

LEMMA ExclusiveByItself ==
  ASSUME Named, NEW r \in Requests, Acts(r), Alone(r), Exclusive(r)
  PROVE  Exclusive(r)'
<1> USE OfVm DEF Named, Typed, Control, Marks
<1> SUFFICES ASSUME Past(r, Launching)', ~(Unmarked(r)')
             PROVE  /\ proc'[Vm(r)] # 0
                    /\ \A v \in Vms \ {Vm(r)} : known'[v] # proc'[Vm(r)]
                    /\ \A q \in Requests : Vm(q) # Vm(r) => pid'[q] # proc'[Vm(r)]
                    /\ \A q \in Requests \ {r} : Op[q] = "create" /\ pc'[q] \in Launching => pidfile'[Name(q)] # proc'[Vm(r)]
                    /\ answer'[r] = "ready" => known'[Vm(r)] \in {0, proc'[Vm(r)]}
  BY DEF Exclusive, Vm, Name, Launching
<1>0. ~Unmarked(r) /\ Op[r] = "create"
  BY Others DEF Alone
\* A creation past its launch, or answered READY, has given up no command.
<1>1. Moves(r)
  <2>1. CASE Returns(r)
    <3>1. PICK p \in Commands : <<r, p>> \in late /\ pc' = pc /\ answer' = answer
      BY <2>1 DEF Returns, Late
    <3>2. pc[r] \in Undoing \cup {"done"} /\ answer[r] # "ready"
      BY <1>0, <3>1 DEF Kinds, Commands
    <3> QED
      BY <3>1, <3>2 DEF Past, Launching, Undoing
  <2> QED
    BY <2>1, Steps
<1>2. PICK p \in Points \ {"idle"}, a \in Answers :
        /\ pc' = [pc EXCEPT ![r] = p] /\ answer' = [answer EXCEPT ![r] = a]
        /\ pc[r] # "done"
        /\ p = "up" => Launched(r)
        /\ p = "pid" => pc[r] = "up"
        /\ a # answer[r] => p = "done"
        /\ Op[r] = "create" /\ a = "ready" => answer[r] = "ready" \/ ReadIn(r)
  BY <1>1 DEF Moves
<1>3. answer[r] = "none" /\ \A q \in Requests \ {r} : pc'[q] = pc[q]
  BY <1>2 DEF Kinds
<1>4. p \in {"up", "pid"} \/ a = "ready"
  BY <1>2 DEF Past, Launching
<1>5. CASE p = "up"
  <2>1. Launch(r)
    <3>1. pc'[r] = "up" /\ proc' # proc
      <4>1. proc'[Vm(r)] = pids + 1 /\ proc[Vm(r)] # pids + 1
        BY <1>2, <1>5 DEF Launched
      <4> QED
        BY <1>2, <1>5, <4>1
    <3> QED
      BY <3>1, Unmarking, Senders, <1>0 DEF Marking, pidvars, Execute, ReadPid, RemovePidfile, worker
  <2>2. /\ \A v \in Vms : proc[v] = 0 \/ (v # Vm(r) /\ proc[v] # pidfile[Name(r)])
        /\ UNCHANGED <<known, pid>>
    BY <2>1 DEF Launch, Possible
  <2>3. proc'[Vm(r)] = pids + 1 /\ pidfile' = [pidfile EXCEPT ![Name(r)] = pids + 1]
    BY <1>2, <1>5 DEF Launched
  \* No other creation of its name is between launch and reading.
  <2>4. ASSUME NEW q \in Requests \ {r}, Op[q] = "create", pc[q] \in Launching
        PROVE  Name(q) # Name(r)
    <3> SUFFICES ASSUME Name(q) = Name(r) PROVE FALSE
      OBVIOUS
    <3>1. CASE ~Unmarked(q)
      <4>1. proc[Vm(q)] # 0 /\ pidfile[Name(q)] = proc[Vm(q)]
        BY <2>4, <3>1 DEF Marked, Launching
      <4> QED
        BY <2>2, <4>1
    <3>2. CASE Unmarked(q)
      <4>1. PICK d \in Requests : Op[d] = "delete" /\ Name(d) = Name(q) /\ pc[d] # "idle"
        BY <3>2 DEF Unmarked
      <4>2. r \in After[d]
        BY <1>0, <4>1 DEF Unmarked
      <4> QED
        BY <1>2, <4>1, <4>2 DEF Waits
    <3> QED
      BY <3>1, <3>2
  <2>5. /\ \A v \in Vms : known[v] # pids + 1
        /\ \A q \in Requests : pid[q] # pids + 1
        /\ \A n \in Names : pidfile[n] # pids + 1
    OBVIOUS
  <2>6. a # "ready"
    BY <1>2, <1>3, <1>5
  <2>7. answer'[r] # "ready"
    BY <1>2, <2>6
  <2>8. \A q \in Requests \ {r} : Op[q] = "create" /\ pc'[q] \in Launching => pidfile'[Name(q)] # pids + 1
    BY <1>3, <2>3, <2>4, <2>5
  <2> QED
    BY <2>2, <2>3, <2>5, <2>7, <2>8
<1>6. CASE p = "pid"
  <2>1. pc[r] = "up"
    BY <1>2, <1>6
  <2>2. UNCHANGED pidvars
    <3>1. ~Execute(r) /\ ~ReadPid(r) /\ ~Kill(r) /\ ~RemovePidfile(r)
      BY <1>0, <2>1, Senders DEF Execute, ReadPid
    <3>2. ~Launch(r)
      <4>1. "qemu" \in Commands /\ "up" \in Points /\ "up" \in Creating
        BY DEF Commands, Creating, Points
      <4> QED
        BY <2>1, <4>1, Punctual DEF Launch
    <3> QED
      BY <3>1, <3>2, Unmarking DEF Marking
  <2>3. Past(r, Launching)
    BY <2>1 DEF Past, Launching
  <2>4. answer'[r] # "ready"
    BY <1>2, <1>3, <1>6
  <2> QED
    BY <1>0, <1>3, <2>2, <2>3, <2>4 DEF Exclusive, pidvars
<1>7. CASE a = "ready"
  <2>1. pc[r] = "pid" /\ proc' = proc
        /\ (known' = [known EXCEPT ![Vm(r)] = pidfile[Name(r)]] \/ known' = [known EXCEPT ![Vm(r)] = 0])
    BY <1>0, <1>2, <1>3, <1>7 DEF ReadIn
  <2>2. UNCHANGED <<pid, pidfile>>
    <3>1. ~Execute(r) /\ ~Kill(r) /\ ~RemovePidfile(r)
      BY <1>0, <2>1, Senders DEF Execute
    <3>2. ~Launch(r)
      <4>1. "qemu" \in Commands /\ "up" \in Points /\ "pid" \in Creating
        BY DEF Commands, Creating, Points
      <4> QED
        BY <2>1, <4>1, Punctual DEF Launch
    <3>3. ReadPid(r) => UNCHANGED <<pid, pidfile>>
      BY DEF ReadPid, worker, files
    <3> QED
      BY <3>1, <3>2, <3>3, Unmarking DEF Marking, pidvars
  <2>3. pidfile[Name(r)] = proc[Vm(r)]
    BY <1>0, <2>1 DEF Marked
  <2>4. Past(r, Launching)
    BY <2>1 DEF Past, Launching
  <2> QED
    BY <1>0, <1>3, <2>1, <2>2, <2>3, <2>4 DEF Exclusive
<1> QED
  BY <1>4, <1>5, <1>6, <1>7

LEMMA ExclusiveByOthers ==
  ASSUME Named, NEW q \in Requests, Acts(q), NEW r \in Requests \ {q}, Alone(r)', Exclusive(r)
  PROVE  Exclusive(r)'
<1> USE OfVm DEF Named, Typed, Control, Marks
<1>1. /\ Vm(q) # Vm(r) /\ pc'[r] = pc[r] /\ answer'[r] = answer[r] /\ Op[r] = "create"
      /\ Unmarked(r) => Unmarked(r)'
  BY Apart, Others DEF Alone
<1> SUFFICES ASSUME Past(r, Launching), ~Unmarked(r)
             PROVE  /\ proc'[Vm(r)] # 0
                    /\ \A v \in Vms \ {Vm(r)} : known'[v] # proc'[Vm(r)]
                    /\ \A c \in Requests : Vm(c) # Vm(r) => pid'[c] # proc'[Vm(r)]
                    /\ \A c \in Requests \ {r} : Op[c] = "create" /\ pc'[c] \in Launching => pidfile'[Name(c)] # proc'[Vm(r)]
                    /\ answer[r] = "ready" => known'[Vm(r)] \in {0, proc'[Vm(r)]}
  BY <1>1 DEF Exclusive, Past, Vm, Name, Launching
<1>2. /\ proc[Vm(r)] \in 1..pids
      /\ \A v \in Vms \ {Vm(r)} : known[v] # proc[Vm(r)]
      /\ \A c \in Requests : Vm(c) # Vm(r) => pid[c] # proc[Vm(r)]
      /\ \A c \in Requests \ {r} : Op[c] = "create" /\ pc[c] \in Launching => pidfile[Name(c)] # proc[Vm(r)]
      /\ answer[r] = "ready" => known[Vm(r)] \in {0, proc[Vm(r)]}
  BY DEF Exclusive
<1>3. \A c \in Requests \ {q} : pc'[c] = pc[c]
  BY Others
\* Another creation comes to its launch only by launching.
<1>4. pc'[q] \in Launching => pc[q] \in Launching \/ Launched(q)
  <2>1. CASE Moves(q)
    BY <2>1 DEF Moves, Launching
  <2>2. CASE Returns(q)
    BY <2>2 DEF Returns, Late
  <2> QED
    BY <2>1, <2>2, Steps
<1>5. CASE Launch(q)
  <2>1. UNCHANGED <<known, pid>> /\ Launched(q)
    BY <1>5 DEF Launch, Launched
  <2>2. proc'[Vm(r)] = proc[Vm(r)] /\ pids + 1 # proc[Vm(r)]
    BY <1>1, <1>2, <2>1 DEF Launched
  <2>3. \A c \in Requests \ {r} : Op[c] = "create" /\ pc'[c] \in Launching => pidfile'[Name(c)] # proc[Vm(r)]
    <3> SUFFICES ASSUME NEW c \in Requests \ {r}, Op[c] = "create", pc'[c] \in Launching
                 PROVE  pidfile'[Name(c)] # proc[Vm(r)]
      OBVIOUS
    <3>1. CASE Name(c) = Name(q)
      BY <2>1, <2>2, <3>1 DEF Launched
    <3>2. CASE Name(c) # Name(q)
      <4>1. c # q /\ pidfile'[Name(c)] = pidfile[Name(c)]
        BY <2>1, <3>2 DEF Launched
      <4> QED
        BY <1>2, <1>3, <4>1
    <3> QED
      BY <3>1, <3>2
  <2> QED
    BY <1>2, <2>1, <2>2, <2>3
<1>6. CASE ~Launch(q)
  <2>1. \A c \in Requests \ {r} : Op[c] = "create" /\ pc'[c] \in Launching => pc[c] \in Launching
    <3>1. Launched(q) => proc' # proc
      <4>1. Launched(q) => proc'[Vm(q)] = pids + 1 /\ proc[Vm(q)] # pids + 1
        BY DEF Launched
      <4> QED
        BY <4>1
    <3>2. proc' # proc => Kill(q)
      BY <1>6, Unmarking DEF Marking, pidvars, Execute, ReadPid, RemovePidfile, worker
    <3>3. Kill(q) => Op[q] = "delete"
      BY Senders
    <3> QED
      BY <1>3, <1>4, <3>1, <3>2, <3>3
  <2>2. \A c \in Requests \ {r} : Op[c] = "create" /\ pc'[c] \in Launching => pidfile[Name(c)] # proc[Vm(r)]
    BY <1>2, <2>1
  <2>3. CASE Kill(q)
    <3>1. proc'[Vm(r)] = proc[Vm(r)] /\ UNCHANGED <<known, pid, pidfile>>
      BY <1>1, <1>2, <2>3 DEF Kill
    <3> QED
      BY <1>2, <2>2, <3>1
  <2>4. CASE Execute(q)
    <3>1. UNCHANGED <<proc, known, pidfile>> /\ pid' = [pid EXCEPT ![q] = known[Vm(q)]]
      BY <2>4 DEF Execute, worker, files
    <3>2. \A c \in Requests : Vm(c) # Vm(r) => pid'[c] # proc[Vm(r)]
      BY <1>1, <1>2, <3>1
    <3> QED
      BY <1>2, <2>2, <3>1, <3>2
  <2>5. CASE ReadPid(q)
    <3>1. /\ UNCHANGED <<proc, pid, pidfile>> /\ pc[q] = "pid" /\ Op[q] = "create"
          /\ known' = [known EXCEPT ![Vm(q)] = pidfile[Name(q)]] \/ known' = [known EXCEPT ![Vm(q)] = 0]
      BY <2>5, Senders DEF ReadPid, worker, files
    <3>2. pidfile[Name(q)] # proc[Vm(r)]
      BY <1>2, <3>1 DEF Launching
    <3>3. known'[Vm(r)] = known[Vm(r)] /\ \A v \in Vms \ {Vm(r)} : known'[v] # proc[Vm(r)]
      BY <1>1, <1>2, <3>1, <3>2
    <3> QED
      BY <1>2, <2>2, <3>1, <3>3
  <2>6. CASE RemovePidfile(q)
    <3>1. UNCHANGED <<proc, known, pid>> /\ pidfile' = [pidfile EXCEPT ![Name(q)] = 0]
      BY <2>6 DEF RemovePidfile
    <3>2. \A n \in Names : pidfile[n] # proc[Vm(r)] => pidfile'[n] # proc[Vm(r)]
      BY <1>2, <3>1
    <3>3. \A c \in Requests \ {r} : Op[c] = "create" /\ pc'[c] \in Launching => pidfile'[Name(c)] # proc[Vm(r)]
      BY <2>2, <3>2
    <3> QED
      BY <1>2, <3>1, <3>3
  <2>7. CASE ~Marking(q)
    <3>1. UNCHANGED pidvars
      BY <2>7, Unmarking
    <3> QED
      BY <1>2, <2>2, <3>1 DEF pidvars
  <2> QED
    BY <1>6, <2>3, <2>4, <2>5, <2>6, <2>7 DEF Marking
<1> QED
  BY <1>5, <1>6

RInv == Named /\ Launchers /\ Holding /\ Cutters /\ Standing

LEMMA RInvInit == Init => RInv
<1> SUFFICES ASSUME Init PROVE RInv
  OBVIOUS
<1>1. Named
  BY NamedInit
<1>2. Launchers /\ Holding /\ Cutters
  BY DEF Init, Launchers, Holding, Cutters
<1>3. \A r \in Requests : pc[r] = "idle" /\ answer[r] = "none"
  BY DEF Init
<1>4. Standing
  BY <1>3 DEF Standing, Stands, Undone, Exclusive, Past, Storing, Seeding, Bridging, Tapping, Attaching, Pairing,
     Trunking, Wiring, Launching, Undoing
<1> QED
  BY <1>1, <1>2, <1>4 DEF RInv

LEMMA StandingKept ==
  ASSUME RInv, NEW q \in Requests, Acts(q)
  PROVE  Standing'
<1> SUFFICES ASSUME NEW r \in Requests, Alone(r)'
             PROVE  (Stands(r) /\ Undone(r) /\ Exclusive(r))'
  BY DEF Standing
<1>0. Typed
  BY DEF RInv, Named
<1>1. Alone(r)
  BY <1>0, Bystanders DEF Alone
<1>2. Stands(r) /\ Undone(r) /\ Exclusive(r)
  BY <1>1 DEF RInv, Standing
<1>3. CASE r = q
  BY <1>1, <1>2, <1>3, StandsByItself, ExclusiveByItself DEF RInv
<1>4. CASE r # q
  BY <1>0, <1>2, <1>4, StandsByOthers, ExclusiveByOthers DEF RInv
<1> QED
  BY <1>3, <1>4

LEMMA RInvStep == RInv /\ [Next]_vars => RInv'
<1> SUFFICES ASSUME RInv, [Next]_vars PROVE RInv'
  OBVIOUS
<1>1. CASE UNCHANGED vars
  <2> USE <1>1 DEF vars, worker, files, wiring
  <2>1. Named'
    BY NamedStutters DEF RInv
  <2>2. Launchers' /\ Holding'
    BY DEF RInv, Launchers, Holding, Vm
  <2>3. Cutters'
    BY DEF RInv, Cutters, Deletions, Slice
  <2>4. ASSUME NEW r \in Requests, Alone(r)'
        PROVE  (Stands(r) /\ Undone(r) /\ Exclusive(r))'
    <3>1. /\ Rivals(r)' = Rivals(r) /\ Namesakes(r)' = Namesakes(r) /\ Deletions(Slice(r))' = Deletions(Slice(r))
          /\ Vm(r)' = Vm(r) /\ Name(r)' = Name(r) /\ Slice(r)' = Slice(r) /\ Unmarked(r)' = Unmarked(r)
          /\ Removing(Slice(r))' = Removing(Slice(r)) /\ \A p : TooLate(r, p)' = TooLate(r, p)
      BY DEF Rivals, Namesakes, Deletions, Unmarked, Removing, TooLate, Vm, Name, Slice
    <3>2. Stands(r) /\ Undone(r) /\ Exclusive(r)
      BY <2>4, <3>1 DEF RInv, Standing, Alone
    <3>3. Stands(r)'
      BY <3>1, <3>2 DEF Stands, Past, Storing, Seeding, Bridging, Tapping, Attaching, Pairing, Trunking, Wiring, Launching
    <3>4. Undone(r)'
      BY <3>1, <3>2 DEF Undone, Unported, Unseeded, Undisked, Disturbed
    <3>5. Exclusive(r)'
      BY <3>1, <3>2 DEF Exclusive, Past, Launching, Vm, Name
    <3> QED
      BY <3>3, <3>4, <3>5
  <2> QED
    BY <2>1, <2>2, <2>3, <2>4 DEF RInv, Standing
<1>2. CASE Next
  <2>1. PICK q \in Requests : Acts(q)
    BY <1>2 DEF Next, Acts
  <2>2. Named' /\ Launchers' /\ Holding' /\ Cutters'
    BY <2>1, NamedKept, LaunchersKept, HoldingKept, CuttersKept DEF RInv, Named
  <2> QED
    BY <2>1, <2>2, StandingKept DEF RInv
<1> QED
  BY <1>1, <1>2

\* A VM answered READY runs under the PID reported, if one was, with its disk, its tap
\* and its wiring, for any requests about other VMs of its slice or its name, any
\* failures, any commands that act late and any interleaving; unless its slice was
\* wired between the count of a deletion and its del-br (driver_service.py,
\* _create_vm and _delete_vm).
THEOREM ReadyRuns == Spec => []ReadyIsUp
<1>1. RInv => ReadyIsUp
  <2> SUFFICES ASSUME RInv, NEW r \in Requests, Op[r] = "create", answer[r] = "ready", Rivals(r) = {}, ~Unmarked(r),
                      Slice(r) \notin cut
               PROVE  Up(Vm(r)) /\ (Name(r) \in seeds \/ Namesakes(r) # {})
    BY DEF ReadyIsUp
  <2>1. Stands(r) /\ Exclusive(r)
    BY DEF RInv, Standing, Alone
  <2>2. /\ Vm(r) \in disks /\ Vm(r) \in taps /\ Vm(r) \in ports
        /\ Slice(r) \in pairs /\ Slice(r) \in trunks /\ Slice(r) \in tunnels
        /\ Name(r) \in seeds \/ Namesakes(r) # {}
    BY <2>1 DEF Stands, Past
  <2>3. proc[Vm(r)] # 0 /\ known[Vm(r)] \in {0, proc[Vm(r)]}
    BY <2>1 DEF Exclusive, Past
  <2>4. Slice(r) \in bridges /\ Slice(r) = SliceOf[Vm(r)]
    BY <2>2, OfVm DEF RInv, Named, Typed, Host
  <2> QED
    BY <2>2, <2>3, <2>4 DEF Up
<1> QED
  BY <1>1, RInvInit, RInvStep, PTL DEF Spec

\* A creation that failed, with no other request about its VM, leaves neither disk,
\* port nor, but for a namesake, seed, if its failure is the only disturbance
\* (_rollback), except what a command given up after 30 seconds made when the
\* rollback had already undone it; whatever requests about other VMs run beside it.
THEOREM RollbackTakesBack == Spec => []RolledBack
<1>1. RInv => RolledBack
  <2> SUFFICES ASSUME RInv, NEW r \in Requests, Op[r] = "create", answer[r] = "failed", Rivals(r) = {},
                      faults + (IF Deletions(Slice(r)) \cup Namesakes(r) = {} THEN 0 ELSE 1) <= 1
               PROVE  Undisked(r) /\ Unported(r) /\ Unseeded(r)
    BY DEF RolledBack, Undisked, Unported, Unseeded
  <2>1. Undone(r) /\ faults \in Nat
    BY LinuxAssumption DEF RInv, Standing, Alone, Named, Typed, Control
  <2>2. ~(faults >= 2 \/ (faults >= 1 /\ Disturbed(r)))
    BY <2>1 DEF Disturbed
  <2> QED
    BY <2>1, <2>2 DEF Undone
<1> QED
  BY <1>1, RInvInit, RInvStep, PTL DEF Spec
=============================================================================
