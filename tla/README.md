# CloudOrchestrator in TLA+

Specifications, TLC configurations and TLAPS proofs for
CloudOrchestrator: the console and the services that take a *slice* (a set of virtual machines and
links drawn by a user) from a draft to running VMs on Linux workers or in
OpenStack, and back.  `PROJECT.json` lists components, runs, hazards and theorems,
and maps every definition to the source lines it stands for.

## 1. The system

| component | state | operations that change it | who calls |
|---|---|---|---|
| slice-manager (`slice-manager/routers/slices.py`) | rows `slices`, `virtual_machines`, `tasks` | create, update, deploy, approve, reject, delete | browser, through api-gateway |
| vm-placement (`vm-placement/app`) | `tasks.worker_id`, `virtual_machines.worker_id`, `workers`, `config.last_worker_id` | `POST /placement/trigger` | slice-manager, once per activation |
| networking (`networking/app/api.py`) | `vlan_pool`, `slices.vlan_slice`, `networks`, `vm_interfaces` | allocate, release | slice-manager, dispatcher |
| dispatcher (`dispatcher`) | `tasks.status`, `virtual_machines.status`, `process_id` | polling loop, `POST /dispatcher/trigger` | itself; any client |
| driver (`driver`) | none; disks, taps, bridges, QEMU processes on the workers | CREATE_VM, DELETE_VM over SSH | dispatcher, slice-manager |
| openstack-driver | none; projects, users, networks, ports, servers in OpenStack | create, delete a slice; images | dispatcher, slice-manager |
| monitoring | metrics in `workers` | periodic update over SSH | itself |
| frontend (`frontend/js`) | `state.view`, `renderSeq`, `#content`, the design `TD` and its timers | navigation, actions, the designer; answers of the gateway | the user |
| auth, api-gateway, image-manager, flavors | users; nothing; nothing; `flavors` | | |

All services share one PostgreSQL database at READ COMMITTED, without
`SELECT ... FOR UPDATE`.  A session keeps the rows it has read
(`expire_on_commit=False`) and writes absolute values of the columns that differ
from what it read, so a column given the value it was read with is left out; a
request that raises rolls back.  Services call each other
over HTTP with timeouts, mostly best-effort: errors are swallowed.

The life of a slice: slice-manager commits CREATE_VM tasks (PENDING), asks
vm-placement for workers (PLACEMENT_READY), asks networking for a VLAN and
interfaces, and sets the slice ACTIVE.  The dispatcher polls PLACEMENT_READY tasks,
locks each by committing IN_PROGRESS, completes its payload, calls a driver and
records READY or FAILED.  Deletion asks the drivers to clean up, releases the
VLAN and deletes the rows.

What is hard: every handler spans several transactions with remote calls between
them, so any two interleave; a timed-out call may still take effect; services
restart; nothing is idempotent by itself.  The console is one thread, but answers
come up to an hour later, when the user is in another view.

What makes each part correct:

- slice-manager: a slice is decided once; an ACTIVE slice has tasks for its VMs;
  rows keep their references.
- vm-placement: task and VM agree on a worker of the right cluster; reservations
  add up; workers take turns; what is dispatched is settled.
- networking: pool and slices agree on who has which VLAN, which no two slices
  share; a label comes with its networks.
- dispatcher: READY means built; a READY VM is not taken back; every released task
  settles.
- drivers: READY means whole; a failure leaves nothing; a deletion leaves nothing;
  each request is answered; other slices are untouched; a failed upload leaves no
  image.
- all five together: VMs that share a link reach each other, and only named
  accidents prevent it.
- console: it shows the view the user is in; no answer takes work away; what is
  saved is what was drawn, over the draft it was loaded from.

## 2. Modules

| module | models | state and actions |
|---|---|---|
| `Dispatcher` | `process_tasks` and everything below it | task, VM and slice rows; each cycle has a control point, a list and a current task; one action per await; `failedBy` is what its session remembers to have failed.  Drivers, networking, placement and deletion appear as what they do to rows and hosts; placement releases a task and, for the tasks in `Overlapped`, once more whatever has become of it |
| `VmContract` | what the dispatcher promises about a VM | built, then published; failures may be repaired; READY is final until removal.  `Dispatcher` instantiates it with a refinement mapping |
| `Networking` | allocate and release with their callers | pool, labels, networks; each request is a caller and a handler that can lose each other (timeout); `stale` records that a commit overwrote a row changed since it was read |
| `Placement` | `trigger`, with slice-manager, dispatcher and monitoring around it | per trigger the snapshot of workers, the worker of each VM as its session read it (`held`), the flushed plan and its row locks; `placed` counts the commits that placed a VM |
| `SliceManager` | the six handlers of `slices.py` | rows, and per request the row as its session holds it (`basis`); VMs are grouped in *builds*, one per run of `_build_vms`; `overlap` records whether handlers of a slice ran side by side, and whether an edit was among them |
| `SliceContract` | what slice-manager promises about a slice | phases and hand-overs; `SliceManager` instantiates it |
| `OpenStackDriver` | creation and deletion of slices, upload and removal of images | the cloud (projects, users, numbered resources, servers being deleted, image records) and per request a control point; one action per API call; `faults` records which run of which request failed |
| `LinuxDriver` | `DriverService.execute` on one worker | the worker (disks, seeds, bridges, taps, ports, veth pairs and their two ends, pidfiles, processes) and per request a control point; one action per command that changes any of these; `late` are the commands given up after 30 seconds, which may act at any time |
| `Deployment` | one Linux slice through slice-manager, placement, networking, dispatcher and driver | the composition: rows, the sessions of the activation and of the loop, the calls of allocate under way, and what each worker runs |
| `Console` | navigation, renders, actions and the designer | one action per click, answer and timer; `fetches` and `requests` are what the gateway still owes |
| `*_proofs` | theorems and proofs about the module | |
| `MC*` | values for the constants, for TLC | |

`Networking`, `Placement` and `Dispatcher` include the part of their neighbours
that writes the same rows: that is where the services interact, and it keeps each
instance small enough to check.  `Deployment` puts the five services of a
deployment side by side, with less of each: one slice, no edits or deletions, no
RAM; it keeps the row as each session read it, the placement map each allocate
was sent, and the interfaces and label each VM was built with, because links are
cut or joined by exactly these.  `Console` sees slice-manager as answers that come
or fail.

Abstractions that hold everywhere: names, payloads, addresses, credentials and
log lines are left out; a row deleted by a cascade is recognised by its slice
being gone; time appears only as "past the cutoff" and as timeouts that may
strike at any moment.  Operators described as *fault* (`OverOnce`,
`ReleaseKeepsLabel`, ...) are not part of the model: each is a plausible bug of
the operator below it, used to see that a property can fail.

External behaviour is modelled from how the code uses it: PostgreSQL row locks and
stale rows (above), one of two sessions that want each other's rows ended; Keystone refuses a second project or user of a name; Neutron
refuses to delete a network in use; a token dies with its project; Nova deletes
servers when it likes; QEMU locks its disk and its pidfile; del-br removes the
ports of a bridge; a command that asyncssh stops waiting for is not killed.

## 3. What is checked

Passing runs:

| run | instance | shows |
|---|---|---|
| `dispatcher` | OpenStack slice of two VMs and linked Linux slice of one, the polling loop, a crash, a second release of the Linux task at any time | types; task and VM agree, but for the failure of a task released again; READY means built; a VM lacks interfaces only if networking failed; `VmContract`; every released task settles |
| `networking` | two slices, two labels, two activations, one enrichment, two deletions | types; pool and labels agree, and a label has networks, unless a stale row was written |
| `placement` | three triggers, two VMs of two slices, two Linux workers and one of OpenStack, scarce RAM, one measurement | types (free RAM is never negative); task and VM name workers of the right cluster, and the same one unless three triggers placed the VM; until triggers overlap or monitoring measures, reservations add up and a dispatched task keeps its worker; the worker that took a VM does not take the next while another could |
| `slices` | three requests of any kind on one slice, three builds, two restarts | references hold; an ACTIVE slice has its tasks unless an edit ran beside another request; decisions are not undone; until requests overlap, `SliceContract` |
| `openstack` | creation and deletion of one slice of two VMs, upload and removal of an image, two failures anywhere | a rolled-back slice leaves nothing; READY is whole until swept; a failed upload leaves no record; every request is answered |
| `linux` | two creations of one VM side by side and its deletion after both, beside them another VM of its slice and then a namesake in another slice; one command that fails, is given up or is skipped | types; a READY VM stays up; no stored PID is that of another VM; a failed creation is undone, but for what a late command made; a deletion that knows the process leaves nothing |
| `deployment` | three VMs in a row on two workers, two allocations, one fault or restart | the accidents that can cut a link are those `CutOnlyIf` names; a VM lacks links or label only after a fault; a creation fails without one only if the links were allocated twice; `GET ovs/commands` lists what ran |
| `console` | two drafts, four renders, two requests, designs of three VMs | the page shows its view and its loading ends; a design is not taken away by a late answer, edits the draft it was loaded from, and survives saving and loading |

Runs that TLC must refute, each against a line of the repository (the
quotations are in `PROJECT.json`):

| run | disagreement |
|---|---|
| `slices_twice` | the status changes only after the remote calls of an activation, so a second approval in between creates every task twice |
| `openstack_isolated` | a second project of a name is refused, and its rollback destroys the first |
| `linux_refused` | the deletion request of slice-manager lacks a required field: workers are never cleaned |
| `deployment_loop` | placement does not answer an activation: its tasks stay PENDING, since the loop takes only placed ones |

The models contain more behaviour that the properties have to step around, and
that is worth knowing; no run is spent on it:

- `Dispatcher` with a trigger beside the loop: both list a task and both lock it,
  since the lock is a commit after an unlocked read.  Two driver jobs build one
  VM, and the second's failure can take a READY VM back.
- `Dispatcher` alone, when an overlapping placement trigger releases a task again:
  a Linux VM that is READY is dispatched again, and if that fails its task is
  FAILED over a READY VM (`again`).  The failure of an OpenStack slice is two
  commits, and a task released between them, or already failed in the memory of
  the session, stays released and is dispatched once more.
- `Networking`: overlapping allocations give two slices one label, and allocating
  twice for a slice inserts its links twice.  Both are what `stale` and
  `nets[s] > 0` (not `= 1`) are about.
- `SliceManager`: an edit during an activation removes VMs that have tasks; a
  rejection during an approval leaves tasks that will be deployed.
- `Placement`: one round-robin pointer serves both clusters, so a cluster that is
  asked now and then may give every VM to its first worker.  With three
  overlapping triggers task and VM may name different workers: the second has
  read the VM on the worker of the first and assigns it there again, so its UPDATE
  leaves the VM out, and the third, which committed in between, has the VM.
- `Deployment`: an allocation that ran before either end of a link had a worker
  counts it as local and never joins it (`Blind`); two allocations give the slice
  a second label, and the veth pair of a worker takes that of the last VM
  (`Relabelled`), or give a VM each tap twice, which QEMU refuses (`Doubled`); after
  a call that was refused or not heard a VM may be sent without its links or its
  label (`Unlabelled`).
- `Console`: an upload that is answered late draws the images over whatever view
  is open, a design included, while `state.view` still names the other; an answered
  action redraws the current view, and a new design is blank again; a new slice
  begun within the 20 ms of the timer of a draft gets that draft's topology;
  loading a draft with a gap in its names gives the next VM a name that is taken,
  and links by name then join the last VM of that name (`Clash`).
- `OpenStackDriver`: a deletion during provisioning can answer DELETED and leave
  resources in a project that is gone.
- `LinuxDriver`: a tap added between the count and del-br loses its bridge
  (`cut`), also when list-ports fails, which counts no tap; the veth-wk of such a
  creation may stay a port of br-wk without its slice's bridge, which `TypeOK`
  therefore does not exclude (`trunks`, not `tunnels`).  A command given up after
  30 seconds acts later all the same: after the rollback it leaves its disk, seed
  or port (`TooLate`), behind a deletion a disk or a process.  The deletion of a VM
  removes the pidfile of its namesakes, so that with a third of the name a
  creation may store the PID of another VM (`Unmarked`; the instance of three
  namesakes that shows it is not among the runs).  A QEMU that started before its
  creation failed, or whose PID was not a number when it was read, has no PID in
  the database, and no deletion kills it.

### Bounds, and why they are enough

- Two slices tell *own* from *other*, one OpenStack and one Linux; two VMs in a
  slice tell *this* VM from the rest of the slice.  The rows of different VMs and
  slices interact only through the pool, the workers and the bridge, which the
  instances share.
- Two handlers give every pairwise race; three (`SliceManager`, `Networking` has
  five requests) let one commit between two others.
- `MaxCrashes` 1 or 2: a crash clears all control, so a second one only repeats
  the recovery of the first.  `MaxBuilds` bounds edits (each edit is one build).
- `Overlapped` is the Linux task, whose second release is the hard one.  With an
  OpenStack task as well (`{1, 3}`) the same properties hold in 2.4 million
  states, three times those of the run.
- Three triggers are the fewest that make task and VM disagree, and `MaxCalls` 3
  lets each run once, or one of them three times.
- `MaxFaults` 2 in `OpenStackDriver`: one failure makes a creation fail, the second
  strikes its rollback.  `NothingLeft` exempts a creation whose rollback was hit in
  both of its runs.  In `LinuxDriver` it is 1: `RolledBack` is about creations that
  failed once, a creation also fails without a fault (a lock, a bridge taken away),
  and a command given up both fails and acts later.  The theorems are for any
  number.
- `Deployment`: `MaxCalls` 2 is slice-manager's allocation and one of the
  dispatcher; three allocations repeat the second.  Three VMs in a row give a VM
  with two links, and two workers put the ends of a link together or apart.
  Workers and labels are symmetric.  `MaxFaults` 1 is one refused or unheard call,
  failing command or restart, at any step.
- `Console`: a stale answer needs two renders, a design taken away by an action
  three, with a return four.  One draft was saved whole and one with a gap in its
  names; three VMs make a ring.  The theorems hold without these bounds.
- `cut` in `LinuxDriver` records the slices to which a tap was added between the
  count of a deletion and its del-br, or whose count failed; `ReadyIsUp` exempts
  only them.  A del-br without a count does not come under `cut`, and the property
  refutes it.  `acted` records the late commands and where their request was then:
  `RolledBack` forgives a disk only to a command that acted when the rollback had
  passed the removal of the disk.
- Two labels for two slices make the pool run out as soon as one leaks.

`CHECK_DEADLOCK FALSE` is set where the clients of an instance send finitely many
requests and the system then rests.  The dispatcher's loop never rests, and its
configurations check deadlock.

### Fairness

- `Dispatcher`: weak fairness of each cycle's steps (the loop is a `while True`
  around a `try`, and every request has a timeout) and of `Age` (the clock
  advances).  None of placement, drivers, deletion or crashes is fair.
- `Deployment` (`LoopPlaces` only): weak fairness of slice-manager, networking and
  the dispatcher; activations of other slices, whose trigger would place the
  tasks, are not promised by anything in the code.
- `OpenStackDriver`: weak fairness of each handler (every call has a timeout of
  10 to 20 seconds, every wait a limit).  Nova is not fair: `EveryRequestAnswers`
  holds even if it never deletes a server.

## 4. What is proved

For every value of the constants allowed by the assumptions of each module:

| theorem | statement |
|---|---|
| `Dispatcher_proofs!TypeCorrect` | `TypeOK` |
| `Dispatcher_proofs!ReadyIsBuilt` | READY means built, for any number of overlapping cycles and crashes |
| `Dispatcher_proofs!LoopImplementsContract` | a dispatcher with one cycle implements `VmContract` |
| `Dispatcher_proofs!UnwiredIsExcused` | a Linux VM lacks interfaces only if networking failed, for any number of cycles |
| `Dispatcher_proofs!OneStory` | one cycle, one task for each VM: task and VM agree, but for the failure of a Linux task released again |
| `Networking_proofs!TypeCorrect`, `BooksBalance`, `LabelBringsNetworks` | types; pool and labels agree, and labels have networks, unless a stale row was written |
| `Placement_proofs!TypeCorrect` | types; free RAM is never negative |
| `Placement_proofs!OneWorker` | task and VM name workers of the right cluster, and the same one as long as two commits at most have placed the VM |
| `Placement_proofs!Robin` | the worker that took a VM takes the next only if no other is eligible |
| `Placement_proofs!TakenStays` | a dispatched task keeps its worker until triggers overlap or monitoring measures |
| `Placement_proofs!ReservationsTally` | until then, what a worker lacks of its RAM is the sum of what its VMs were given |
| `SliceManager_proofs!TypeCorrect` | types and references |
| `SliceManager_proofs!ActiveTasked` | an ACTIVE slice has tasks for its VMs unless an edit ran beside another request on it |
| `SliceManager_proofs!DecisionsStand` | no step takes ACTIVE or REJECTED back to undecided |
| `SliceManager_proofs!KeepsContract` | until requests overlap or slice-manager restarts, every step is one of `SliceContract` or none |
| `SliceManager_proofs!OneByOneProcessedOnce` | until then, no VM gets a second task (what `slices_twice` refutes in general) |
| `LinuxDriver_proofs!TypeCorrect` | types; a port of a tap or of veth-sl is one of an existing bridge |
| `LinuxDriver_proofs!PidsApart` | no stored PID is that of another VM, however often VMs are created, unless a deletion removed the pidfile during a creation |
| `LinuxDriver_proofs!DeletionSweeps` | a deletion that knew a process leaves nothing of its VM, however often it was created, unless a namesake was deleted beside it or a late command acted |
| `LinuxDriver_proofs!ReadyRuns` | a VM answered READY, with no other request about it, runs with disk, tap and port, unless its bridge was cut |
| `LinuxDriver_proofs!RollbackTakesBack` | a creation that failed once leaves no disk, seed or port but those a late command made after the rollback |
| `OpenStackDriver_proofs!TypeCorrect` | types; no more projects than creations |
| `OpenStackDriver_proofs!ReadyWhole` | a slice answered READY is whole until another request comes upon its project |
| `OpenStackDriver_proofs!RollbackClean` | a failed creation without rivals leaves only servers Nova is deleting, unless both runs of its rollback failed or Nova overtook one |
| `OpenStackDriver_proofs!ImagesWhole` | a failed upload leaves no record, an uploaded image stays |
| `Deployment_proofs!TypeCorrect` | types |
| `Deployment_proofs!LinksBeforeLabel` | a READY VM has links and label unless a call was refused, unheard or cut by a restart |
| `Deployment_proofs!DoublesFail` | without such a fault a creation fails only if the links were allocated twice |
| `Deployment_proofs!CutsExplained` | a link is cut only in the ways `CutOnlyIf` names |
| `Deployment_proofs!ListedIsMade` | `GET ovs/commands` lists what the driver ran |
| `Console_proofs!TypeCorrect` | types; ids in a design are unique, links have their ends |
| `Console_proofs!ViewShown`, `LoadingAwaits`, `DesignStays` | late answers: the page shows its view, loading ends, a design stays |
| `Console_proofs!EditsWhatItLoaded` | a design edits the draft it was loaded from |
| `Console_proofs!NamesApart` | names clash only in a design loaded from names other than 1..n |
| `Console_proofs!SavesWhatIsDrawn` | saved and loaded again, a design without a clash has the same VMs and links |

Between them the theorems state every invariant of the passing runs, their action
properties and both refinements.

Arguments:

- *Dispatcher.* `TypeOK` is not inductive: that the cycle past `next` has a task
  is added (`ControlOK`).  READY follows from `built` only because a job that
  ended well has built its scope (`OkMeansBuilt`), which survives until the
  outcome is written.  For the contract with one cycle, all VMs of an
  OpenStack slice have the same outcome (`Uniform`) and the slice being
  dispatched is not READY (`NotYetReady`), so a failure never takes a READY VM
  back; two cycles break exactly that (section 3), hence the assumption
  `OneCycle`.
  For `OutcomesAgree`, a Linux VM is READY only with its task, so what the cycle
  lists, recovers or dispatches has no READY Linux VM (`StoryInv`), unless it was
  released again; `OneTaskEach` is what a second approval breaks (`slices_twice`).
  An OpenStack slice needs no such exemption: its VMs have one status and a slice
  being dispatched is not READY, whoever released the task, so its failure meets no
  READY row.
- *Networking.* The books balance at each commit if what the session read still
  holds; `stale` is set otherwise.  The strengthening adds that a slice that is
  gone has neither label nor networks (`GoneIsBare`) and that a commit with a
  pick has read no label (`PickOK`).
- *Placement.* RAM stays natural because a reservation is taken from the very
  snapshot the eligibility was read in (`ChosenFits`), and commits write that
  snapshot.  Every uncommitted plan is within the cluster (`Matched`).  A commit
  leaves the VM out only if it assigns the worker its session read; until a second
  commit that is the worker the VM has, or none (`Remembered`).  With one
  trigger at a time, what is on its list or in its plan is PENDING (`Alone`), so its
  commit touches no dispatched task.  The round robin needs only that the scan
  begins after the pointer and that worker ids are numbers (`PointerIsLast`).
  `ReservationsAdd` is about a sum over the VMs of a worker.  The fold that computes
  it has no theorem in the library, and its unfolding depends on which element is
  chosen first; `SumStep` shows that taking one VM out takes its RAM out of the sum,
  by taking a smallest counterexample among the subsets of a finite set (hence the
  assumption that `VMs` is finite).  The invariant (`Tally`) counts the plan of the
  one trigger beside the rows.
- *SliceManager.* A session past its first commit holds the row of its slice
  (`Held`).  Until an edit runs beside another request, the builds it holds are
  those of the slice (`Steady`), builds of different slices are apart and new ones
  new (`Apart`, `Own`, `Created`), and once `CreateTasks` has committed, each has
  tasks (`Promised`), so `Finalize` sets ACTIVE over tasks.  `Alone` ties `overlap`
  to the handlers under way; `EditsDraft` says that an edit alone meets a draft,
  which is why its new VMs cannot belong to an ACTIVE slice.  `DecisionsStand`
  needs only types: no handler writes the status it read back, the only values
  written to a live slice are ACTIVE and REJECTED.
  For `SliceContract`, the contract knows no handlers, so the point a handler is at
  has to say how far its slice has come (`Stage`): undecided and without tasks up to
  the commit of `CreateTasks`, undecided and with one task for each VM from there to
  `Finalize`.  This holds in a *calm* slice, whose requests never overlapped, since
  there `Alone` leaves one handler at most and `Steady` gives it the VMs there are; a
  slice nobody works on is decided or has no tasks (`Stands`).  Each step is then read
  off its stage; a step on one slice leaves the others where they are (`Local`).
- *LinuxDriver.* Each command is split into what it does to the worker and how its
  request goes on (`Runs`, `Ends`), in time or late, so a late command is one more
  case of every action and not a second set of them.  `PidIsOwn`
  is not inductive: a PID passes from QEMU through the pidfile of a *name* into
  the database.  `ByName` follows it: pidfile, database and deletions hold only
  PIDs of VMs of their name, and no two VMs have one PID (`Distinct`).  Hence only a
  deletion of the name can disturb a creation between launch and reading
  (`Marked`), and those are `Unmarked`; QEMU's lock on its pidfile keeps the
  launches of namesakes out, and the lock on its disk and display a second launch
  of the VM, however often it is created.  For `KnownIsGone`, until a deletion of
  the name is sent a VM runs under the PID stored for it (`Kept`), so the PID with
  which a deletion starts is that of the process, and each command
  sweeps its part (`Swept`), which no request that is over gives back (`Clean`).
  `ReadyIsUp` follows a creation with its VM to itself command by command
  (`Stands`): what a command made stays, except the seed, which a namesake may
  overwrite or remove, and bridge, port and veth pair, which a deletion of the
  slice's last VM takes; that deletion counts the taps, so it takes them from a
  wired VM only when it counted before the tap was added (`Removing`, `cut`).  Its
  process is nobody else's to store or to kill (`Exclusive`); a process has a
  creation that launched it (`Launchers`), and an open disk a process (`Holding`).
  `RolledBack` says why a rollback is running, a failure or a neighbour (`Undone`),
  so that the one failure allowed has been spent before the rollback begins; the
  command that failed may be late, and what it made is taken back unless it acted
  when the rollback had passed.
- *OpenStackDriver.* Requests meet in the cloud by name, so the invariant first says
  that a project has one name, in Keystone and in every request (`Owned`), and that
  the ids given out never pass the creations begun (`Counted`).  A creation upon
  whose project no other request has come (`Solo`) has exactly what its point says
  (`Built`).  Its rollback is followed stage by stage (`Swept`), with servers that
  Nova is deleting set apart, since Nova may remove a server between list and
  delete, and the run that meets that ends early (`Overtaken`).
  The exemption for rivals had to be stated by the point of a request (`Start`) and
  not by its project: a creation of the same name that has been refused holds no
  project but has swept that of the first.  For images, uploads have
  their own ids.
- *Deployment.* A label shows in many places at once: the row, two sessions, calls
  under way, payloads and hosts.  `LabelsShown` says of all of them together that
  what shows is in use and never ahead of the rounds; `Wiring` that a payload with
  a label has an interface for each link of its VM; `Maps` that a map sent to
  networking names the final worker of a VM or none, which is why two ends are
  computed local only if they are, or if neither was placed.  `Counting` ties rounds
  to calls, `Crossing` veth pairs to remote links, and `Calm` says what else holds as long
  as nothing was refused, unheard or restarted.  The proof goes by the three writers;
  a frame lemma for each says what it leaves to the others.
- *Console.* A render takes a number that no fetch has (`Numbered`), so an answer
  that is not stale belongs to what is on screen: that gives the three theorems
  about late answers.  For the design, `Loading` says that the last pending timer
  will load the draft being edited, so it is loaded when no timer is left; and
  `Sound` that ids grow, links join ids that exist and, without a gap, the name of
  a VM is its id.  Both are needed together, since a load replaces the design.
  The sequences (templates appended, a VM removed) are the longest part.
  `RoundTrip` needs no more: ids are unique (`Sound`), and without a clash so are
  names, so both tables, id to place and name to place, have one entry for each VM.

Model-checked only: the two liveness properties, `ReleasedTaskSettles` and
`EveryRequestAnswers`, since fairness brings in ENABLED, which this prover cannot
handle.  They are shown on the instances only.

Assumptions on constants are few and named where the constants are declared.
Those a proof needed and the code grants: `MaxCalls` is at least 1 in
`Deployment` (an activation calls networking once), a database holds finitely many VMs (`Placement`), and each upload gets the id
that Glance gave it (`OpenStackDriver`).

## 5. Not modelled

- auth, flavors: single inserts guarded by a unique column, and reads.
- api-gateway: a stateless proxy.  Its timeout is the reason requests overlap.
- image-manager: reads a directory.
- Read-only endpoints and mock modes: without state.
- frontend: the internet node of the designer, catalogs and images of VMs, renaming
  (with which a user may give two VMs one name), the login, and the views that
  only show.
- Deletion beside a deployment, down to the hosts: `Dispatcher` has deletions of
  the rows, `LinuxDriver` of the hosts, but not both in one module.
- Who may call what, and the contents of topologies, payloads and commands.

## 6. Plan

Order: the life of a task first (dispatcher), then what it needs (labels,
workers), then who creates it (slice-manager), then the hosts (drivers), their
composition (`Deployment`) and the console.  All of that stands, and so do the
proofs of every safety property the passing runs check.  Next:

1. `LoopImplementsContract` for a VM that only one cycle works on at a time,
   instead of one cycle altogether, as `KeepsContract` has it for slices.
2. Deletion in `Deployment`; three VMs of one name in `LinuxDriver`.
