---------------------------- MODULE LinuxDriver ----------------------------
(***************************************************************************)
(* driver: DriverService.execute (driver_service.py) on one worker.        *)
(*                                                                         *)
(* A request becomes a list of shell commands run over SSH one by one; the *)
(* first that fails or takes 30 seconds ends the list (ssh_client.py).     *)
(* Nothing stops the command given up after 30 seconds: it may still act,  *)
(* at any time.  A creation that fails then runs its rollback actions in   *)
(* reverse order, again up to the first failure.  The driver keeps no      *)
(* state and holds no lock: requests interleave between any two commands.  *)
(*                                                                         *)
(* Disks and taps are named after the VM's id, seed images and pidfiles    *)
(* after its name, the bridge and the veth pair after its slice's id.  A   *)
(* VM here has one interface, on the bridge of its slice, with a remote    *)
(* link.                                                                   *)
(***************************************************************************)
EXTENDS Integers, FiniteSets

CONSTANTS
  Requests, Op,   \* "create" or "delete"
  Vms, VmOf,      \* the VM of a request
  Names, NameOf,  \* the name of a VM
  Slices, SliceOf,
  After,          \* the requests answered before a request is sent
  Complete,       \* the requests with every field that ExecuteRequest requires
  MaxFaults       \* bound on the commands that fail of themselves

ASSUME LinuxAssumption ==
  /\ Op \in [Requests -> {"create", "delete"}] /\ VmOf \in [Requests -> Vms]
  /\ NameOf \in [Vms -> Names] /\ SliceOf \in [Vms -> Slices]
  /\ After \in [Requests -> SUBSET Requests] /\ Complete \subseteq Requests
  /\ IsFiniteSet(Requests) /\ MaxFaults \in Nat

VARIABLES
  disks,    \* the VMs with a disk, /mnt/storage/instances/{id}.qcow2
  opened,   \* the VMs whose QEMU holds the disk there open
  seeds,    \* the names with a seed image
  bridges,  \* the slices with a bridge, br-sl-{id}
  taps,     \* the VMs with a tap device
  ports,    \* the VMs whose tap is a port of their bridge
  pairs,    \* the slices with a veth pair
  trunks,   \* the slices whose veth-sl is a port of their bridge
  tunnels,  \* the slices whose veth-wk is a port of br-wk
  pidfile,  \* per name: the PID in /tmp/{name}.pid, or 0
  proc,     \* per VM: the PID of its QEMU, or 0
  pids,     \* PIDs given out
  known,    \* per VM: process_id in the database, or 0
  pc, pid,  \* per request: control point, and the process_id it carries
  answer,   \* per request: "none", "ready", "failed" or "refused"
  late,     \* the commands given up that may still act: <<request, point>>
  acted,    \* history: those of creations that did, and where the request was
  cut,      \* history: the slices wired while a deletion takes their bridge
  faults

files  == <<disks, opened, seeds, pidfile>>
wiring == <<bridges, taps, ports, pairs, trunks, tunnels>>
worker == <<files, wiring, proc, pids>>
vars   == <<worker, known, pc, pid, answer, late, acted, cut, faults>>

Creating == {"disk", "seed", "bridge", "tap", "port", "pair", "pair-up", "trunk", "tunnel",
             "qemu", "up", "pid"}
Undoing  == {"undo-port", "undo-seed", "undo-disk"}
Script   == {"trunk-off", "tunnel-off", "pair-off", "bridge-off"}
Deleting == {"kill", "files", "pidfile", "port-off", "tap-off", "count"} \cup Script

Vm(r)    == VmOf[r]
Name(r)  == NameOf[VmOf[r]]
Slice(r) == SliceOf[VmOf[r]]
-----------------------------------------------------------------------------
Init ==
  /\ disks = {} /\ opened = {} /\ seeds = {} /\ bridges = {} /\ taps = {} /\ ports = {}
  /\ pairs = {} /\ trunks = {} /\ tunnels = {}
  /\ pidfile = [n \in Names |-> 0]
  /\ proc = [v \in Vms |-> 0]
  /\ pids = 0
  /\ known = [v \in Vms |-> 0]
  /\ pc = [r \in Requests |-> "idle"]
  /\ pid = [r \in Requests |-> 0]
  /\ answer = [r \in Requests |-> "none"]
  /\ late = {} /\ acted = {}
  /\ cut = {}
  /\ faults = 0

Goto(r, point) == pc' = [pc EXCEPT ![r] = point] /\ UNCHANGED answer

Answer(r, a) ==
  /\ pc' = [pc EXCEPT ![r] = "done"]
  /\ answer' = [answer EXCEPT ![r] = a]

\* A command has failed: a creation turns to its rollback, anything else is over.
Fails(r) == IF pc[r] \in Creating THEN Goto(r, "undo-port") ELSE Answer(r, "failed")

\* A command given up acts after all; of a shell line, the rest is still to come.
Late(r, p, rest) ==
  /\ <<r, p>> \in late
  /\ late' = (late \ {<<r, p>>}) \cup ({<<r, rest>>} \cap (Requests \X Script))
  /\ acted' = IF p \in Creating THEN acted \cup {<<r, p, pc[r]>>} ELSE acted
  /\ UNCHANGED <<pc, answer>>

\* The command at p acts, in time or late: the next one, or the answer.
Runs(r, p, next) ==
  \/ pc[r] = p /\ Goto(r, next) /\ UNCHANGED <<late, acted>>
  \/ Late(r, p, next)

Ends(r, p, a) ==
  \/ pc[r] = p /\ Answer(r, a) /\ UNCHANGED <<late, acted>>
  \/ Late(r, p, "done")

\* What a command needs to succeed: qemu-img the write lock that a running QEMU has,
\* QEMU its disk and seed, its VNC display, and the lock of its pidfile.
Possible(r, p) ==
  /\ p = "disk" => Vm(r) \notin opened
  /\ p \in {"port", "trunk"} => Slice(r) \in bridges
  /\ p = "pair-up" => Slice(r) \in pairs
  /\ p = "qemu" => /\ Vm(r) \in disks /\ Name(r) \in seeds
                   /\ \A v \in Vms : proc[v] = 0 \/ (v # Vm(r) /\ proc[v] # pidfile[Name(r)])
  /\ p = "up" => Vm(r) \in taps
  /\ p = "pid" => pidfile[Name(r)] # 0

\* A command fails because it cannot succeed.  (PassQemu is the fault of going on.)
PassQemu(r) ==
  /\ pc[r] = "qemu" /\ ~Possible(r, "qemu")
  /\ Goto(r, "up")
  /\ UNCHANGED <<worker, known, pid, late, acted, cut, faults>>

Impossible(r) ==
  /\ pc[r] \in Creating /\ ~Possible(r, pc[r])
  /\ Fails(r)
  /\ UNCHANGED <<worker, known, pid, late, acted, cut, faults>>

\* A command, or the SSH connection, fails of itself, and will never act.
Fault(r) ==
  /\ pc[r] \in Creating \cup Undoing \cup Deleting /\ faults < MaxFaults
  /\ faults' = faults + 1
  /\ Fails(r)
  /\ UNCHANGED <<worker, known, pid, late, acted, cut>>

\* 30 seconds are over: wait_for gives up on the command, which goes on.
Overdue(r) ==
  /\ pc[r] \in (Creating \ {"pair-up", "up", "pid"}) \cup Undoing \cup Deleting /\ faults < MaxFaults
  /\ faults' = faults + 1
  /\ late' = late \cup {<<r, pc[r]>>}
  /\ Fails(r)
  /\ UNCHANGED <<worker, known, pid, acted, cut>>

\* POST /driver/execute: 422 without every required field, else the first command.
Execute(r) ==
  /\ pc[r] = "idle" /\ \A q \in After[r] : pc[q] = "done"
  /\ IF r \notin Complete THEN Answer(r, "refused")
     ELSE Goto(r, IF Op[r] = "create" THEN "disk" ELSE "kill")
  /\ pid' = [pid EXCEPT ![r] = known[Vm(r)]]
  /\ UNCHANGED <<worker, known, late, acted, cut, faults>>
-----------------------------------------------------------------------------
(***************************************************************************)
(* _create_vm.                                                             *)
(***************************************************************************)
MakeDisk(r) ==
  /\ Runs(r, "disk", "seed") /\ Possible(r, "disk")
  /\ disks' = disks \cup {Vm(r)}
  /\ UNCHANGED <<opened, seeds, pidfile, wiring, proc, pids, known, pid, cut, faults>>

MakeSeed(r) ==
  /\ Runs(r, "seed", "bridge")
  /\ seeds' = seeds \cup {Name(r)}
  /\ UNCHANGED <<disks, opened, pidfile, wiring, proc, pids, known, pid, cut, faults>>

AddBridge(r) ==
  /\ Runs(r, "bridge", "tap")
  /\ bridges' = bridges \cup {Slice(r)}
  /\ UNCHANGED <<files, taps, ports, pairs, trunks, tunnels, proc, pids, known, pid, cut, faults>>

AddTap(r) ==
  /\ Runs(r, "tap", "port")
  /\ taps' = taps \cup {Vm(r)}
  /\ UNCHANGED <<files, bridges, ports, pairs, trunks, tunnels, proc, pids, known, pid, cut, faults>>

\* A deletion has counted the taps of the slice and is taking its bridge.
Removing(s) ==
  \E q \in Requests : Slice(q) = s /\ (pc[q] \in Script \/ \E p \in Script : <<q, p>> \in late)

AddPort(r) ==
  /\ Runs(r, "port", "pair") /\ Possible(r, "port")
  /\ ports' = ports \cup {Vm(r)}
  /\ cut' = IF Removing(Slice(r)) THEN cut \cup {Slice(r)} ELSE cut
  /\ UNCHANGED <<files, bridges, taps, pairs, trunks, tunnels, proc, pids, known, pid, faults>>

AddPair(r) ==
  /\ Runs(r, "pair", "pair-up")
  /\ pairs' = pairs \cup {Slice(r)}
  /\ UNCHANGED <<files, bridges, taps, ports, trunks, tunnels, proc, pids, known, pid, cut, faults>>

RaisePair(r) ==
  /\ pc[r] = "pair-up" /\ Possible(r, "pair-up")
  /\ Goto(r, "trunk")
  /\ UNCHANGED <<worker, known, pid, late, acted, cut, faults>>

AddTrunk(r) ==
  /\ Runs(r, "trunk", "tunnel") /\ Possible(r, "trunk")
  /\ trunks' = trunks \cup {Slice(r)}
  /\ UNCHANGED <<files, bridges, taps, ports, pairs, tunnels, proc, pids, known, pid, cut, faults>>

\* On br-wk, which is always there.
AddTunnel(r) ==
  /\ Runs(r, "tunnel", "qemu")
  /\ tunnels' = tunnels \cup {Slice(r)}
  /\ UNCHANGED <<files, bridges, taps, ports, pairs, trunks, proc, pids, known, pid, cut, faults>>

\* QEMU locks its disk and its pidfile.
Launch(r) ==
  /\ Runs(r, "qemu", "up") /\ Possible(r, "qemu")
  /\ pids' = pids + 1
  /\ proc' = [proc EXCEPT ![Vm(r)] = pids + 1]
  /\ pidfile' = [pidfile EXCEPT ![Name(r)] = pids + 1]
  /\ opened' = opened \cup {Vm(r)}
  /\ taps' = taps \cup {Vm(r)}
  /\ UNCHANGED <<disks, seeds, bridges, ports, pairs, trunks, tunnels, known, pid, cut, faults>>

RaiseTap(r) ==
  /\ pc[r] = "up" /\ Possible(r, "up")
  /\ Goto(r, "pid")
  /\ UNCHANGED <<worker, known, pid, late, acted, cut, faults>>

\* READY with the PID read, or with None if what cat printed is no number; the
\* dispatcher stores it.
ReadPid(r) ==
  /\ pc[r] = "pid" /\ Possible(r, "pid")
  /\ Answer(r, "ready")
  /\ \/ known' = [known EXCEPT ![Vm(r)] = pidfile[Name(r)]] /\ UNCHANGED faults
     \/ known' = [known EXCEPT ![Vm(r)] = 0] /\ faults < MaxFaults /\ faults' = faults + 1
  /\ UNCHANGED <<worker, pid, late, acted, cut>>

\* _rollback: del-port, the seed, the disk.  (KeepDisk is the fault of forgetting
\* the last, OddStatus that of a status the dispatcher does not know.)
UndoPort(r) ==
  /\ Runs(r, "undo-port", "undo-seed")
  /\ ports' = ports \ {Vm(r)}
  /\ UNCHANGED <<files, bridges, taps, pairs, trunks, tunnels, proc, pids, known, pid, cut, faults>>

UndoSeed(r) ==
  /\ Runs(r, "undo-seed", "undo-disk")
  /\ seeds' = seeds \ {Name(r)}
  /\ UNCHANGED <<disks, opened, pidfile, wiring, proc, pids, known, pid, cut, faults>>

KeepDisk(r) ==
  /\ Ends(r, "undo-disk", "failed")
  /\ UNCHANGED <<worker, known, pid, cut, faults>>

OddStatus(r) ==
  /\ Ends(r, "undo-disk", "rolled_back")
  /\ disks' = disks \ {Vm(r)} /\ opened' = opened \ {Vm(r)}
  /\ UNCHANGED <<seeds, pidfile, wiring, proc, pids, known, pid, cut, faults>>

UndoDisk(r) ==
  /\ Ends(r, "undo-disk", "failed")
  /\ disks' = disks \ {Vm(r)} /\ opened' = opened \ {Vm(r)}
  /\ UNCHANGED <<seeds, pidfile, wiring, proc, pids, known, pid, cut, faults>>
-----------------------------------------------------------------------------
(***************************************************************************)
(* _delete_vm.                                                             *)
(***************************************************************************)
\* kill {process_id}, skipped without one.
Kill(r) ==
  /\ Runs(r, "kill", "files")
  /\ proc' = [v \in Vms |-> IF pid[r] # 0 /\ proc[v] = pid[r] THEN 0 ELSE proc[v]]
  /\ opened' = {v \in opened : proc'[v] # 0}
  /\ UNCHANGED <<disks, seeds, pidfile, wiring, pids, known, pid, cut, faults>>

RemoveFiles(r) ==
  /\ Runs(r, "files", "pidfile")
  /\ disks' = disks \ {Vm(r)} /\ opened' = opened \ {Vm(r)} /\ seeds' = seeds \ {Name(r)}
  /\ UNCHANGED <<pidfile, wiring, proc, pids, known, pid, cut, faults>>

RemovePidfile(r) ==
  /\ Runs(r, "pidfile", "port-off")
  /\ pidfile' = [pidfile EXCEPT ![Name(r)] = 0]
  /\ UNCHANGED <<disks, opened, seeds, wiring, proc, pids, known, pid, cut, faults>>

\* del-port of the tap.  (PassPort is the fault of omitting it.)
PassPort(r) ==
  /\ Runs(r, "port-off", "tap-off")
  /\ UNCHANGED <<worker, known, pid, cut, faults>>

RemovePort(r) ==
  /\ Runs(r, "port-off", "tap-off")
  /\ ports' = ports \ {Vm(r)}
  /\ UNCHANGED <<files, bridges, taps, pairs, trunks, tunnels, proc, pids, known, pid, cut, faults>>

RemoveTap(r) ==
  /\ Runs(r, "tap-off", "count")
  /\ taps' = taps \ {Vm(r)}
  /\ UNCHANGED <<files, bridges, ports, pairs, trunks, tunnels, proc, pids, known, pid, cut, faults>>

Wired(s) == {v \in ports : SliceOf[v] = s}

\* The shell line that removes veth pair and bridge when it counts no tap; the
\* count may be old when they go.  (NoCount is the fault of not counting.)
NoCount(r) ==
  /\ Runs(r, "count", "trunk-off")
  /\ UNCHANGED <<worker, known, pid, cut, faults>>

CountTaps(r) ==
  /\ IF Wired(Slice(r)) # {} THEN Ends(r, "count", "ready") ELSE Runs(r, "count", "trunk-off")
  /\ UNCHANGED <<worker, known, pid, cut, faults>>

RemoveTrunk(r) ==
  /\ Runs(r, "trunk-off", "tunnel-off")
  /\ trunks' = trunks \ {Slice(r)}
  /\ UNCHANGED <<files, bridges, taps, ports, pairs, tunnels, proc, pids, known, pid, cut, faults>>

RemoveTunnel(r) ==
  /\ Runs(r, "tunnel-off", "pair-off")
  /\ tunnels' = tunnels \ {Slice(r)}
  /\ UNCHANGED <<files, bridges, taps, ports, pairs, trunks, proc, pids, known, pid, cut, faults>>

RemovePair(r) ==
  /\ Runs(r, "pair-off", "bridge-off")
  /\ pairs' = pairs \ {Slice(r)}
  /\ UNCHANGED <<files, bridges, taps, ports, trunks, tunnels, proc, pids, known, pid, cut, faults>>

\* del-br, and with it the ports the bridge still has.
RemoveBridge(r) ==
  /\ Ends(r, "bridge-off", "ready")
  /\ bridges' = bridges \ {Slice(r)} /\ trunks' = trunks \ {Slice(r)}
  /\ ports' = ports \ Wired(Slice(r))
  /\ UNCHANGED <<files, taps, pairs, tunnels, proc, pids, known, pid, cut, faults>>

\* The commands of that line are joined by `;`: a failing one is passed over, and a
\* failing list-ports counts no tap.
Skips(r) ==
  /\ faults < MaxFaults /\ faults' = faults + 1
  /\ \/ Runs(r, "count", "trunk-off") /\ cut' = IF Wired(Slice(r)) # {} THEN cut \cup {Slice(r)} ELSE cut
     \/ /\ \/ Runs(r, "trunk-off", "tunnel-off")
           \/ Runs(r, "tunnel-off", "pair-off")
           \/ Runs(r, "pair-off", "bridge-off")
        /\ UNCHANGED cut
  /\ UNCHANGED <<worker, known, pid>>
-----------------------------------------------------------------------------
Next == \E r \in Requests :
  \/ Execute(r) \/ Impossible(r) \/ Fault(r) \/ Overdue(r)
  \/ MakeDisk(r) \/ MakeSeed(r) \/ AddBridge(r) \/ AddTap(r) \/ AddPort(r)
  \/ AddPair(r) \/ RaisePair(r) \/ AddTrunk(r) \/ AddTunnel(r)
  \/ Launch(r) \/ RaiseTap(r) \/ ReadPid(r)
  \/ UndoPort(r) \/ UndoSeed(r) \/ UndoDisk(r)
  \/ Kill(r) \/ RemoveFiles(r) \/ RemovePidfile(r) \/ RemovePort(r) \/ RemoveTap(r)
  \/ CountTaps(r) \/ RemoveTrunk(r) \/ RemoveTunnel(r) \/ RemovePair(r) \/ RemoveBridge(r) \/ Skips(r)

Spec == Init /\ [][Next]_vars
-----------------------------------------------------------------------------
(***************************************************************************)
(* Properties.                                                             *)
(***************************************************************************)
Points == {"idle", "done"} \cup Creating \cup Undoing \cup Deleting

\* Type invariant.  A port, of a tap or of a veth-sl, is one of an existing bridge.
TypeOK ==
  /\ disks \subseteq Vms /\ opened \subseteq disks /\ seeds \subseteq Names
  /\ taps \subseteq Vms /\ ports \subseteq Vms
  /\ bridges \subseteq Slices /\ pairs \subseteq Slices /\ tunnels \subseteq Slices
  /\ trunks \subseteq bridges /\ \A v \in ports : SliceOf[v] \in bridges
  /\ pids \in Nat
  /\ pidfile \in [Names -> 0..pids] /\ proc \in [Vms -> 0..pids] /\ known \in [Vms -> 0..pids]
  /\ pc \in [Requests -> Points]
  /\ pid \in [Requests -> 0..pids]
  /\ answer \in [Requests -> {"none", "ready", "failed", "refused"}]
  /\ late \subseteq Requests \X (Creating \cup Undoing \cup Deleting)
  /\ acted \subseteq Requests \X Creating \X (Undoing \cup {"done"})
  /\ cut \subseteq Slices
  /\ faults \in 0..MaxFaults

\* The other requests about the VM, and those about VMs of its name, that have
\* been sent.
Rivals(r)    == {q \in Requests \ {r} : VmOf[q] = Vm(r) /\ pc[q] # "idle"}
Namesakes(r) == {q \in Requests : VmOf[q] # Vm(r) /\ Name(q) = Name(r) /\ pc[q] # "idle"}

\* A deletion that did not wait for r removes the pidfile of r's name.
Unmarked(r) ==
  \E q \in Requests \ {r} : Op[q] = "delete" /\ Name(q) = Name(r) /\ r \notin After[q] /\ pc[q] # "idle"

Up(v) ==
  /\ proc[v] # 0 /\ known[v] \in {0, proc[v]}
  /\ v \in disks
  /\ v \in taps /\ v \in ports
  /\ SliceOf[v] \in bridges /\ SliceOf[v] \in pairs /\ SliceOf[v] \in trunks /\ SliceOf[v] \in tunnels

\* A VM answered READY runs under the PID reported, if one was, with its disk and
\* wired to its slice, whatever becomes of the other VMs of the slice
\* (driver_service.py, "ONLY if it's the last VM of the slice") and of the creations
\* of namesakes, which take at most its seed; unless its slice was wired while a
\* deletion that had counted no tap took the bridge.
ReadyIsUp ==
  \A r \in Requests :
    (Op[r] = "create" /\ answer[r] = "ready" /\ Rivals(r) = {} /\ ~Unmarked(r))
      => \/ Up(Vm(r)) /\ (Name(r) \in seeds \/ Namesakes(r) # {})
         \/ Slice(r) \in cut

\* No deletion kills the QEMU of another VM: the PID stored for a VM is not that of
\* another, of the same name or not, although pidfiles are named after the VM
\* (driver_service.py, step 7), however often the VM is created, unless a deletion
\* removed the pidfile during one of its creations.
PidIsOwn ==
  \A v \in Vms :
    (/\ known[v] # 0
     /\ \A r \in Requests : Op[r] = "create" /\ Vm(r) = v /\ answer[r] = "ready" => ~Unmarked(r))
      => \A w \in Vms \ {v} : proc[w] # known[v]

\* The deletions that may take the bridge from under a creation; a namesake may hold
\* its pidfile.
Deletions(s) == {q \in Requests : Op[q] = "delete" /\ Slice(q) = s /\ pc[q] # "idle"}

\* The command at p, given up, acted when the rollback had already undone it.
TooLate(r, p) ==
  \E x \in {"done"} \cup [disk |-> {}, seed |-> {"undo-disk"}, port |-> {"undo-seed", "undo-disk"}][p] :
    <<r, p, x>> \in acted

\* A creation that failed leaves neither disk, seed nor port (_rollback), with
\* no other request about its VM, if its failure is the only one, except what a
\* command given up made after the rollback; the seed is left with a namesake too.
RolledBack ==
  \A r \in Requests :
    (/\ Op[r] = "create" /\ answer[r] = "failed" /\ Rivals(r) = {}
     /\ faults + (IF Deletions(Slice(r)) \cup Namesakes(r) = {} THEN 0 ELSE 1) <= 1)
      => /\ Vm(r) \in disks => TooLate(r, "disk")
         /\ Vm(r) \in ports => TooLate(r, "port")
         /\ Name(r) \in seeds => TooLate(r, "seed") \/ Namesakes(r) # {}

Gone(v) == proc[v] = 0 /\ v \notin disks /\ v \notin taps /\ v \notin ports

\* Once a slice's VM is deleted, nothing of it is left on the worker, however often
\* it was created, if the deletion knew a process (_delete_vm), no namesake was
\* deleted beside it, and no command given up by a creation of the VM acted.
KnownIsGone ==
  \A r \in Requests :
    (/\ Op[r] = "delete" /\ answer[r] = "ready" /\ pid[r] # 0 /\ ~Unmarked(r)
     /\ \A q \in Rivals(r) : q \in After[r]
     /\ \A a \in acted : Vm(a[1]) # Vm(r)) => Gone(Vm(r))

\* delete_slice has "1. Limpiar VMs en los workers sincrónicamente antes de borrar
\* de la BD" (slices.py): when its deletion of a VM is answered, the VM is gone.
\* Violated: the request lacks vm.disk, and the driver refuses it.
CleanedUp ==
  \A r \in Requests :
    (Op[r] = "delete" /\ pc[r] = "done" /\ \A q \in Rivals(r) : q \in After[r]) => Gone(Vm(r))
=============================================================================
