----------------------- MODULE OpenStackDriver_proofs -----------------------
(***************************************************************************)
(* Requests that interleave call by call: whose project is whose, what a   *)
(* creation has built while no other request came upon its project, and    *)
(* what the two runs of a rollback can leave behind.                       *)
(***************************************************************************)
EXTENDS OpenStackDriver, FiniteSetTheorems, TLAPS

Points  == Building \cup Sweeping \cup Imaging \cup {"done"}
Verdict == {"none", "ready", "failed", "deleted", "uploaded", "error"}

\* Which points a request of each kind is at, and what it has there.
ControlOf(r) ==
  /\ Op[r] = "create" => pc[r] \in Building \cup Sweeping \cup {"done"} /\ answer[r] \in {"none", "ready", "failed"}
  /\ Op[r] = "delete" => pc[r] \in Sweeping \cup {"done"} /\ answer[r] \in {"none", "deleted", "error"}
  /\ Op[r] = "upload" => pc[r] \in {"image", "data", "cleanup", "done"} /\ answer[r] \in {"none", "failed", "uploaded"}
  /\ Op[r] = "remove" => pc[r] \in {"remove", "done"} /\ answer[r] \in {"none", "deleted", "error"}
  /\ pc[r] \in Building \cup {"image", "data", "remove"} => tries[r] = 0
  /\ pc[r] \in Sweeping => tries[r] \in IF Op[r] = "create" THEN {1, 2} ELSE {0}
  /\ pc[r] = "project" \/ (pc[r] = "find" /\ Op[r] = "delete") => proj[r] = NoProject
  /\ pc[r] \in (Building \cup Sweeping) \ {"project", "find"} \/ answer[r] = "ready" => proj[r] # NoProject
  /\ Op[r] \in {"upload", "remove"} => proj[r] = NoProject
  /\ pc[r] \in {"list", "delete"} => at[r] \in 1..4
  /\ pc[r] # "done" => answer[r] = "none"

Control == \A r \in Requests : ControlOf(r)

\* A creation makes one project at most.
Begun == {r \in Requests : pc[r] # "project"}

Counted == used <= Cardinality(Begun)

Base == TypeOK /\ Control

\* A project has one name, in Keystone and in what the requests keep.
Owned ==
  /\ \A n \in Names : project[n] # NoProject => project[n] <= used
  /\ \A r \in Requests : proj[r] # NoProject => proj[r] <= used
  /\ \A n, k \in Names : project[n] = project[k] /\ project[n] # NoProject => n = k
  /\ \A n \in Names, r \in Requests : project[n] = proj[r] /\ proj[r] # NoProject => n = Name(r)
  /\ \A q, r \in Requests : proj[q] = proj[r] /\ proj[r] # NoProject => Name(q) = Name(r)
  /\ \A p \in Projects : p > used => items[p] = {} /\ deleting[p] = {}

\* What a creation has made while no other request came upon its project.
Solo(r) == \A q \in Namesakes(r) : proj[q] = NoProject

Built(r) ==
  /\ Alive(r) /\ deleting[proj[r]] = {}
  /\ pc[r] # "user" => Name(r) \in users
  /\ pc[r] \in {"user", "token"} => items[proj[r]] = {}
  /\ pc[r] = "items" => items[proj[r]] = 1..(at[r] - 1)
  /\ pc[r] \in {"poll", "done"} => items[proj[r]] = Items

Growing ==
  \A r \in Requests :
    Op[r] = "create" /\ Solo(r) /\ (pc[r] \in Building \ {"project"} \/ answer[r] = "ready") => Built(r)

\* What a creation with no rival has left of its project, run by run of the rollback.
Clean(r) ==
  /\ Name(r) \notin users
  /\ proj[r] # NoProject => items[proj[r]] = deleting[proj[r]]

Fresh(r) ==
  tries[r] <= 1 =>
    /\ pc[r] = "find" => deleting[project[Name(r)]] = {}
    /\ pc[r] = "access" \/ (pc[r] = "list" /\ at[r] = 1) => deleting[proj[r]] = {}
    /\ pc[r] = "delete" /\ at[r] = 1 => left[r] \subseteq items[proj[r]] \ deleting[proj[r]]

\* How far the sweep has come.
Past(r, k) == pc[r] \in {"users", "dropuser", "dropproject"} \/ (pc[r] \in {"list", "delete"} /\ at[r] >= k)

Swept(r) ==
  LET there == items[proj[r]]
      gone  == deleting[proj[r]]
  IN /\ pc[r] = "delete" => left[r] \subseteq Stage(at[r])
     /\ pc[r] = "delete" /\ at[r] = 1 => there \cap Servers \subseteq gone \cup left[r]
     /\ pc[r] = "delete" /\ at[r] > 1 => left[r] = there \cap Stage(at[r])
     /\ pc[r] = "wait" \/ Past(r, 2) => there \cap Servers \subseteq gone
     /\ Past(r, 3) => there \cap Ports = {}
     /\ Past(r, 4) => Subnet \notin there
     /\ Past(r, 5) => Net \notin there
     /\ pc[r] = "dropuser" => Name(r) \in users
     /\ pc[r] = "dropproject" => Name(r) \notin users

Sweeps(r) ==
  IF project[Name(r)] = NoProject
  THEN Clean(r) /\ pc[r] \in {"project", "find", "done"} /\ answer[r] # "ready"
  ELSE /\ pc[r] # "project"
       /\ proj[r] # NoProject => Alive(r)
       /\ pc[r] # "find" /\ answer[r] = "none" => proj[r] # NoProject
       /\ Fresh(r) /\ Swept(r)
       /\ tries[r] = 2 => <<r, 1>> \in faults
       /\ answer[r] = "failed" => tries[r] = 2 /\ (<<r, 2>> \in faults \/ Overtaken(r))

Rolling ==
  \A r \in Requests : Op[r] = "create" /\ Rivals(r) = {} => Sweeps(r)

\* What becomes of the image of an upload.
Removers(r) == {q \in Requests : Op[q] = "remove" /\ ImageOf[q] = ImageOf[r] /\ pc[q] = "done"}

Upload(r) ==
  LET image == glance[ImageOf[r]]
  IN /\ pc[r] = "image" => image = "none" /\ at[r] = 1
     /\ pc[r] = "data" => at[r] = 2 /\ (image = "queued" \/ (image = "removed" /\ Removers(r) # {}))
     /\ pc[r] = "cleanup" => at[r] = 2 /\ tries[r] = 1
     /\ answer[r] = "failed" /\ at[r] = 2 => image = "removed" \/ <<r, 1>> \in faults
     /\ answer[r] = "uploaded" => image = "active" \/ (image = "removed" /\ Removers(r) # {})

Uploads == \A r \in Requests : Op[r] = "upload" => Upload(r)
-----------------------------------------------------------------------------
(***************************************************************************)
(* The moves of a request between its points.                              *)
(***************************************************************************)
ControlTypes ==
  /\ pc \in [Requests -> Points]
  /\ proj \in [Requests -> Projects \cup {NoProject}]
  /\ at \in [Requests -> 1..(2 * N + 3)]
  /\ left \in [Requests -> SUBSET Items]
  /\ tries \in [Requests -> 0..2]
  /\ answer \in [Requests -> Verdict]

\* Only the control of r moves.
Only(r) ==
  \A q \in Requests \ {r} :
    /\ pc'[q] = pc[q] /\ proj'[q] = proj[q] /\ at'[q] = at[q]
    /\ left'[q] = left[q] /\ tries'[q] = tries[q] /\ answer'[q] = answer[q]

Turn(r) == ControlTypes' /\ Only(r)

LEMMA Constants ==
  /\ N \in Nat /\ N >= 1 /\ MaxFaults \in Nat /\ NoProject \notin Nat
  /\ IsFiniteSet(Requests) /\ Cardinality(Requests) \in Nat
  /\ \A r \in Requests : Op[r] \in {"create", "delete", "upload", "remove"} /\ Name(r) \in Names /\ ImageOf[r] \in Images
  /\ NoProject \notin Projects /\ Projects \subseteq Nat
BY OpenStackAssumption, FS_CardinalityType DEF Name, Projects

\* The resources of a project are of four kinds.
LEMMA Kinds ==
  /\ Items = Servers \cup Ports \cup {Subnet, Net}
  /\ Servers \cap Ports = {} /\ Subnet # Net
  /\ Subnet \notin Servers \cup Ports /\ Net \notin Servers \cup Ports
  /\ Stage(1) = Servers /\ Stage(2) = Ports /\ Stage(3) = {Subnet} /\ Stage(4) = {Net}
BY Constants DEF Items, Servers, Ports, Subnet, Net, Stage

LEMMA TypesOf == ASSUME Base PROVE ControlTypes
BY DEF Base, TypeOK, ControlTypes, Points, Verdict

LEMMA GotoMoves ==
  ASSUME Base, NEW r \in Requests, NEW point \in Points, NEW i \in 1..(2 * N + 3), Goto(r, point, i)
  PROVE  /\ Turn(r)
         /\ pc'[r] = point /\ at'[r] = i
         /\ proj'[r] = proj[r] /\ left'[r] = left[r] /\ tries'[r] = tries[r] /\ answer'[r] = answer[r]
BY TypesOf DEF Goto, Turn, ControlTypes, Only

LEMMA AnswerMoves ==
  ASSUME Base, NEW r \in Requests, NEW a \in Verdict, Answer(r, a)
  PROVE  /\ Turn(r)
         /\ pc'[r] = "done" /\ answer'[r] = a
         /\ proj'[r] = proj[r] /\ at'[r] = at[r] /\ left'[r] = left[r] /\ tries'[r] = tries[r]
BY TypesOf DEF Answer, Turn, ControlTypes, Only, Points

LEMMA RollbackMoves ==
  ASSUME Base, NEW r \in Requests, tries[r] \in 0..1, Rollback(r)
  PROVE  /\ Turn(r)
         /\ pc'[r] = "find" /\ tries'[r] = tries[r] + 1
         /\ proj'[r] = proj[r] /\ at'[r] = at[r] /\ left'[r] = left[r] /\ answer'[r] = answer[r]
BY TypesOf DEF Rollback, Turn, ControlTypes, Only, Points, Sweeping

LEMMA CleanUpMoves ==
  ASSUME Base, NEW r \in Requests, CleanUp(r)
  PROVE  /\ Turn(r)
         /\ pc'[r] = "cleanup" /\ tries'[r] = 1
         /\ proj'[r] = proj[r] /\ at'[r] = at[r] /\ left'[r] = left[r] /\ answer'[r] = answer[r]
BY TypesOf DEF CleanUp, Turn, ControlTypes, Only, Points, Imaging

\* A run of deprovision_slice is over: it is run once more, or the request answered.
Again(r)     == pc'[r] = "find" /\ tries'[r] = tries[r] + 1 /\ answer'[r] = answer[r]
Ends(r, a)   == pc'[r] = "done" /\ tries'[r] = tries[r] /\ answer'[r] = a
Stays(r)     == proj'[r] = proj[r] /\ at'[r] = at[r] /\ left'[r] = left[r]

LEMMA OverMoves ==
  ASSUME Base, NEW r \in Requests, pc[r] \in Sweeping, NEW a \in {"deleted", "error"}, Over(r, a)
  PROVE  /\ Turn(r) /\ Stays(r)
         /\ \/ Op[r] = "create" /\ tries[r] = 1 /\ Again(r)
            \/ Op[r] = "create" /\ tries[r] = 2 /\ Ends(r, "failed")
            \/ Op[r] = "delete" /\ tries[r] = 0 /\ Ends(r, a)
<1>1. (Op[r] = "create" /\ tries[r] \in {1, 2}) \/ (Op[r] = "delete" /\ tries[r] = 0)
  BY Constants DEF Base, Control, ControlOf, Building, Sweeping, Imaging
<1>2. CASE Op[r] = "create" /\ tries[r] = 1
  BY <1>2, RollbackMoves DEF Over, Stays, Again
<1>3. CASE Op[r] = "create" /\ tries[r] = 2
  BY <1>3, AnswerMoves DEF Over, Stays, Ends, Verdict
<1>4. CASE Op[r] = "delete" /\ tries[r] = 0
  BY <1>4, AnswerMoves DEF Over, Stays, Ends, Verdict
<1> QED
  BY <1>1, <1>2, <1>3, <1>4

LEMMA RefusedMoves ==
  ASSUME Base, NEW r \in Requests, pc[r] # "done", Refused(r)
  PROVE  /\ Turn(r) /\ Stays(r)
         /\ \/ Op[r] = "create" /\ pc[r] \in Building /\ tries[r] = 0 /\ Again(r)
            \/ Op[r] = "create" /\ pc[r] \in Sweeping /\ tries[r] = 1 /\ Again(r)
            \/ Op[r] = "create" /\ pc[r] \in Sweeping /\ tries[r] = 2 /\ Ends(r, "failed")
            \/ Op[r] = "delete" /\ pc[r] \in Sweeping /\ tries[r] = 0 /\ Ends(r, "error")
            \/ Op[r] = "upload" /\ pc[r] = "data" /\ pc'[r] = "cleanup" /\ tries'[r] = 1 /\ answer'[r] = answer[r]
            \/ Op[r] = "upload" /\ pc[r] \in {"image", "cleanup"} /\ Ends(r, "failed")
            \/ Op[r] = "remove" /\ pc[r] = "remove" /\ Ends(r, "error")
<1>0. pc[r] \in Building \cup Sweeping \cup Imaging
  BY TypesOf DEF ControlTypes, Points
<1>1. CASE pc[r] \in Building
  <2>1. Op[r] = "create" /\ tries[r] = 0
    BY <1>1, Constants DEF Base, Control, ControlOf, Building, Sweeping
  <2>2. Rollback(r)
    BY <1>1 DEF Refused, Building, Sweeping
  <2> QED
    BY <1>1, <2>1, <2>2, RollbackMoves DEF Stays, Again
<1>2. CASE pc[r] \in Sweeping
  <2>1. Over(r, "error")
    BY <1>2 DEF Refused, Building, Sweeping
  <2> QED
    BY <1>2, <2>1, OverMoves
<1>3. CASE pc[r] = "data"
  <2>1. CleanUp(r) /\ Op[r] = "upload"
    BY <1>3, Constants DEF Refused, Building, Sweeping, Base, Control, ControlOf
  <2> QED
    BY <1>3, <2>1, CleanUpMoves DEF Stays
<1>4. CASE pc[r] \in {"image", "cleanup"}
  <2>1. Answer(r, "failed") /\ Op[r] = "upload"
    BY <1>4, Constants DEF Refused, Building, Sweeping, Base, Control, ControlOf
  <2> QED
    BY <1>4, <2>1, AnswerMoves DEF Stays, Ends, Verdict
<1>5. CASE pc[r] = "remove"
  <2>1. Answer(r, "error") /\ Op[r] = "remove"
    BY <1>5, Constants DEF Refused, Building, Sweeping, Base, Control, ControlOf
  <2> QED
    BY <1>5, <2>1, AnswerMoves DEF Stays, Ends, Verdict
<1> QED
  BY <1>0, <1>1, <1>2, <1>3, <1>4, <1>5 DEF Imaging

\* A refused call, one that fails of itself and the end of a sweep keep the
\* control of a request in order.
LEMMA RefusedControl ==
  ASSUME Base, NEW r \in Requests, pc[r] # "done", Refused(r)
  PROVE  Turn(r) /\ ControlOf(r)'
<1> USE DEF Base, Control, ControlOf
<1>1. /\ Turn(r) /\ Stays(r)
      /\ \/ Op[r] = "create" /\ pc[r] \in Building /\ tries[r] = 0 /\ Again(r)
         \/ Op[r] = "create" /\ pc[r] \in Sweeping /\ tries[r] = 1 /\ Again(r)
         \/ Op[r] = "create" /\ pc[r] \in Sweeping /\ tries[r] = 2 /\ Ends(r, "failed")
         \/ Op[r] = "delete" /\ pc[r] \in Sweeping /\ tries[r] = 0 /\ Ends(r, "error")
         \/ Op[r] = "upload" /\ pc[r] = "data" /\ pc'[r] = "cleanup" /\ tries'[r] = 1 /\ answer'[r] = answer[r]
         \/ Op[r] = "upload" /\ pc[r] \in {"image", "cleanup"} /\ Ends(r, "failed")
         \/ Op[r] = "remove" /\ pc[r] = "remove" /\ Ends(r, "error")
  BY RefusedMoves
<1>2. answer[r] = "none" /\ (Op[r] \in {"upload", "remove"} => proj[r] = NoProject)
  OBVIOUS
<1> QED
  BY <1>1, <1>2 DEF Stays, Again, Ends, Building, Sweeping

LEMMA OverControl ==
  ASSUME Base, NEW r \in Requests, pc[r] \in Sweeping, NEW a \in {"deleted", "error"}, Over(r, a)
  PROVE  Turn(r) /\ ControlOf(r)'
<1> USE DEF Base, Control, ControlOf
<1>1. /\ Turn(r) /\ Stays(r)
      /\ \/ Op[r] = "create" /\ tries[r] = 1 /\ Again(r)
         \/ Op[r] = "create" /\ tries[r] = 2 /\ Ends(r, "failed")
         \/ Op[r] = "delete" /\ tries[r] = 0 /\ Ends(r, a)
  BY OverMoves
<1>2. answer[r] = "none"
  BY DEF Sweeping
<1> QED
  BY <1>1, <1>2 DEF Stays, Again, Ends, Building, Sweeping

LEMMA MishapControl ==
  ASSUME Base, NEW r \in Requests, pc[r] # "done", Mishap(r)
  PROVE  /\ Turn(r) /\ ControlOf(r)' /\ Refused(r)
         /\ faults' = faults \cup {<<r, tries[r]>>} /\ faults' \subseteq Requests \X (0..2)
BY RefusedControl DEF Mishap, Base, TypeOK

\* Going on to a point that a request of this kind is at.
LEMMA GotoControl ==
  ASSUME Base, NEW r \in Requests, NEW point \in Points, NEW i \in 1..(2 * N + 3), Goto(r, point, i),
         answer[r] = "none",
         \/ pc[r] \in Building \ {"project"} /\ point \in {"token", "items", "poll"}
         \/ pc[r] \in Sweeping \ {"find"} /\ point \in {"list", "wait", "users", "dropuser", "dropproject"} /\ (point = "list" => i \in 1..4)
         \/ pc[r] = "image" /\ point = "data"
  PROVE  Turn(r) /\ ControlOf(r)'
<1>1. /\ Turn(r) /\ pc'[r] = point /\ at'[r] = i
      /\ proj'[r] = proj[r] /\ left'[r] = left[r] /\ tries'[r] = tries[r] /\ answer'[r] = answer[r]
  BY GotoMoves
<1>2. CASE pc[r] \in Building \ {"project"} /\ point \in {"token", "items", "poll"}
  BY <1>1, <1>2, Constants DEF Base, Control, ControlOf, Building, Sweeping
<1>3. CASE pc[r] = "image" /\ point = "data"
  BY <1>1, <1>3, Constants DEF Base, Control, ControlOf, Building, Sweeping
<1>4. CASE pc[r] \in Sweeping \ {"find"} /\ point \in {"list", "wait", "users", "dropuser", "dropproject"} /\ (point = "list" => i \in 1..4)
  BY <1>1, <1>4, Constants DEF Base, Control, ControlOf, Building, Sweeping
<1> QED
  BY <1>2, <1>3, <1>4
-----------------------------------------------------------------------------
(***************************************************************************)
(* Typing: one request, one call at a time.                                *)
(***************************************************************************)
\* What a step of r may do, to itself and to the cloud.
Kept(r) ==
  /\ Turn(r) /\ ControlOf(r)' /\ pc'[r] # Start(r)
  /\ faults' \subseteq Requests \X (0..2) /\ faults \subseteq faults' /\ faults' \subseteq faults \cup {<<r, tries[r]>>}

LEMMA RefusedKept ==
  ASSUME Base, NEW r \in Requests, pc[r] # "done", (Refused(r) /\ UNCHANGED faults) \/ Mishap(r)
  PROVE  Kept(r)
<1>1. pc'[r] # Start(r)
  BY RefusedMoves DEF Mishap, Start, Again, Ends
<1> QED
  BY <1>1, RefusedControl, MishapControl DEF Kept, Base, TypeOK

LEMMA OverKept ==
  ASSUME Base, NEW r \in Requests, pc[r] \in Sweeping, NEW a \in {"deleted", "error"}, Over(r, a) /\ UNCHANGED faults
  PROVE  Kept(r)
<1>1. pc'[r] # Start(r)
  BY OverMoves DEF Start, Again, Ends
<1> QED
  BY <1>1, OverControl DEF Kept, Base, TypeOK

LEMMA GotoKept ==
  ASSUME Base, NEW r \in Requests, NEW point \in Points, NEW i \in 1..(2 * N + 3), Goto(r, point, i), UNCHANGED faults,
         pc[r] # "done",
         \/ pc[r] \in Building \ {"project"} /\ point \in {"token", "items", "poll"}
         \/ pc[r] \in Sweeping \ {"find"} /\ point \in {"list", "wait", "users", "dropuser", "dropproject"} /\ (point = "list" => i \in 1..4)
         \/ pc[r] = "image" /\ point = "data"
  PROVE  Kept(r)
<1>1. answer[r] = "none"
  BY DEF Base, Control, ControlOf
<1>2. pc'[r] # Start(r)
  BY GotoMoves, Constants DEF Start
<1> QED
  BY <1>1, <1>2, GotoControl DEF Kept, Base, TypeOK

LEMMA AnswerKept ==
  ASSUME Base, NEW r \in Requests, NEW a \in Verdict, Answer(r, a), UNCHANGED faults, pc[r] # "done",
         \/ Op[r] = "create" /\ a = "ready" /\ pc[r] = "poll"
         \/ Op[r] = "upload" /\ a \in {"uploaded", "failed"}
         \/ Op[r] = "remove" /\ a = "deleted"
  PROVE  Kept(r)
<1>1. /\ Turn(r) /\ pc'[r] = "done" /\ answer'[r] = a
      /\ proj'[r] = proj[r] /\ at'[r] = at[r] /\ left'[r] = left[r] /\ tries'[r] = tries[r]
  BY AnswerMoves
<1>2. ControlOf(r)'
  BY <1>1 DEF Base, Control, ControlOf, Building, Sweeping
<1>3. pc'[r] # Start(r)
  BY <1>1, Constants DEF Start
<1> QED
  BY <1>1, <1>2, <1>3 DEF Kept, Base, TypeOK

LEMMA PointsAre ==
  /\ Building \subseteq Points /\ Sweeping \subseteq Points /\ Imaging \subseteq Points /\ "done" \in Points
  /\ Building = {"project", "user", "token", "items", "poll"}
  /\ Sweeping = {"find", "access", "list", "delete", "wait", "users", "dropuser", "dropproject"}
  /\ Imaging = {"image", "data", "cleanup", "remove"}
BY DEF Points, Building, Sweeping, Imaging

\* The stages of the sweep, one after the other.
LEMMA DeletedGoes ==
  ASSUME Base, NEW r \in Requests, Deleted(r)
  PROVE  \/ at[r] = 1 /\ Goto(r, "wait", 1)
         \/ at[r] \in {2, 3} /\ at[r] + 1 \in 1..4 /\ Goto(r, "list", at[r] + 1)
         \/ at[r] = 4 /\ Goto(r, "users", 4)
<1> HIDE DEF Goto
<1>1. /\ at[r] \in 1..4
      /\ CASE at[r] = 1 -> Goto(r, "wait", 1)
           [] at[r] \in {2, 3} -> Goto(r, "list", at[r] + 1)
           [] at[r] = 4 -> Goto(r, "users", 4)
  BY DEF Deleted, Base, Control, ControlOf
<1>2. CASE at[r] = 1
  BY <1>1, <1>2
<1>3. CASE at[r] \in {2, 3}
  <2>1. at[r] # 1 /\ at[r] # 4 /\ at[r] + 1 \in 1..4
    BY <1>3
  <2>2. Goto(r, "list", at[r] + 1)
    BY <1>1, <1>3, <2>1
  <2> QED
    BY <1>3, <2>1, <2>2
<1>4. CASE at[r] = 4
  BY <1>1, <1>4
<1> QED
  BY <1>1, <1>2, <1>3, <1>4

\* There was one project for each creation before this one.
LEMMA RoomForOne ==
  ASSUME Base, Counted, NEW r \in Requests, pc[r] = "project"
  PROVE  used + 1 \in Projects
<1>1. Begun \subseteq Requests \ {r}
  BY DEF Begun
<1>2. IsFiniteSet(Requests \ {r}) /\ Cardinality(Requests \ {r}) = Cardinality(Requests) - 1
  BY Constants, FS_RemoveElement
<1>3. Cardinality(Begun) <= Cardinality(Requests \ {r})
  BY <1>1, <1>2, FS_Subset
<1>4. Cardinality(Begun) \in Nat
  BY <1>1, <1>2, FS_Subset, FS_CardinalityType
<1> QED
  BY <1>2, <1>3, <1>4, Constants DEF Counted, Projects, Base, TypeOK

LEMMA StepKept ==
  ASSUME Base, Counted, NEW r \in Requests, Handle(r) \/ Fault(r)
  PROVE  Kept(r)
<1> USE Constants, PointsAre
<1>1. CASE CreateProject(r)
  <2>1. pc[r] = "project"
    BY <1>1 DEF CreateProject
  <2>2. CASE (Refused(r) /\ UNCHANGED faults) \/ Mishap(r)
    BY <2>1, <2>2, RefusedKept
  <2>3. CASE /\ pc' = [pc EXCEPT ![r] = "user"] /\ proj' = [proj EXCEPT ![r] = used + 1]
             /\ UNCHANGED <<at, left, tries, answer, faults>>
    <3>1. used + 1 \in Projects
      BY <2>1, RoomForOne
    <3>2. Turn(r) /\ pc'[r] = "user" /\ proj'[r] = used + 1
      BY <2>3, <3>1, TypesOf DEF Turn, ControlTypes, Only
    <3>3. ControlOf(r)'
      BY <2>1, <2>3, <3>1, <3>2 DEF Base, Control, ControlOf
    <3>4. pc'[r] # Start(r)
      BY <3>2 DEF Start
    <3> QED
      BY <2>3, <3>2, <3>3, <3>4 DEF Kept, Base, TypeOK
  <2> QED
    BY <1>1, <2>2, <2>3 DEF CreateProject, Returned
<1>2. CASE CreateUser(r)
  BY <1>2, RefusedKept, GotoKept DEF CreateUser, Returned
<1>3. CASE GetToken(r)
  BY <1>3, RefusedKept, GotoKept DEF GetToken
<1>4. CASE CreateItem(r)
  BY <1>4, RefusedKept, GotoKept, TypesOf DEF CreateItem, Returned, Last, ControlTypes
<1>5. CASE CreatedAll(r)
  BY <1>5, GotoKept DEF CreatedAll
<1>6. CASE Poll(r)
  <2>1. pc[r] = "poll" /\ UNCHANGED faults /\ Op[r] = "create" /\ at[r] \in 1..(2 * N + 3)
    BY <1>6, TypesOf DEF Poll, Base, Control, ControlOf, ControlTypes
  <2> QED
    BY <1>6, <2>1, RefusedKept, GotoKept, AnswerKept DEF Poll, Last, Verdict
<1>7. CASE Find(r)
  <2>1. pc[r] = "find" /\ UNCHANGED faults
    BY <1>7 DEF Find
  <2>2. CASE project[Name(r)] = NoProject
    BY <1>7, <2>1, <2>2, OverKept DEF Find
  <2>3. CASE project[Name(r)] # NoProject
    <3>1. proj' = [proj EXCEPT ![r] = project[Name(r)]] /\ pc' = [pc EXCEPT ![r] = "access"] /\ UNCHANGED <<at, left, tries, answer>>
      BY <1>7, <2>3 DEF Find
    <3>2. project[Name(r)] \in Projects
      BY <2>3 DEF Base, TypeOK
    <3>3. Turn(r) /\ pc'[r] = "access" /\ proj'[r] # NoProject
      BY <2>3, <3>1, <3>2, TypesOf DEF Turn, ControlTypes, Only
    <3>4. ControlOf(r)'
      BY <2>1, <3>1, <3>3 DEF Base, Control, ControlOf
    <3>5. pc'[r] # Start(r)
      BY <3>3 DEF Start
    <3> QED
      BY <2>1, <3>3, <3>4, <3>5 DEF Kept, Base, TypeOK
  <2> QED
    BY <2>2, <2>3
<1>8. CASE Access(r)
  BY <1>8, OverKept, GotoKept DEF Access
<1>9. CASE List(r)
  <2>1. pc[r] = "list" /\ UNCHANGED faults
    BY <1>9 DEF List
  <2>2. CASE at[r] = 1 /\ ~Alive(r)
    BY <1>9, <2>1, <2>2, OverKept DEF List
  <2>3. CASE ~(at[r] = 1 /\ ~Alive(r))
    <3>1. left' = [left EXCEPT ![r] = items[proj[r]] \cap Stage(at[r])] /\ pc' = [pc EXCEPT ![r] = "delete"] /\ UNCHANGED <<proj, at, tries, answer>>
      BY <1>9, <2>3 DEF List
    <3>2. proj[r] \in Projects
      BY <2>1, TypesOf DEF Base, Control, ControlOf, ControlTypes
    <3>3. items[proj[r]] \cap Stage(at[r]) \in SUBSET Items
      BY <3>2 DEF Base, TypeOK
    <3>4. Turn(r) /\ pc'[r] = "delete"
      BY <3>1, <3>3, TypesOf DEF Turn, ControlTypes, Only
    <3>5. ControlOf(r)'
      BY <2>1, <3>1, <3>4 DEF Base, Control, ControlOf
    <3>6. pc'[r] # Start(r)
      BY <3>4 DEF Start
    <3> QED
      BY <2>1, <3>4, <3>5, <3>6 DEF Kept, Base, TypeOK
  <2> QED
    BY <2>2, <2>3
<1>10. CASE Delete(r)
  <2>1. pc[r] = "delete"
    BY <1>10 DEF Delete
  <2>2. CASE Mishap(r) \/ (Over(r, "error") /\ UNCHANGED faults)
    BY <2>1, <2>2, RefusedKept, OverKept
  <2>3. ASSUME NEW i, left' = [left EXCEPT ![r] = @ \ {i}], UNCHANGED <<pc, proj, at, tries, answer, faults>> PROVE Kept(r)
    <3>1. left[r] \ {i} \in SUBSET Items
      BY TypesOf DEF ControlTypes
    <3>2. Turn(r)
      BY <2>3, <3>1, TypesOf DEF Turn, ControlTypes, Only
    <3>3. ControlOf(r)'
      BY <2>3 DEF Base, Control, ControlOf
    <3>4. pc'[r] # Start(r)
      BY <2>1, <2>3 DEF Start
    <3> QED
      BY <2>3, <3>2, <3>3, <3>4 DEF Kept, Base, TypeOK
  <2> QED
    BY <1>10, <2>2, <2>3 DEF Delete, Returned
<1>11. CASE Deleted(r)
  <2>1. pc[r] = "delete" /\ UNCHANGED faults /\ at[r] + 1 \in 1..(2 * N + 3)
    BY <1>11 DEF Deleted, Base, Control, ControlOf
  <2> QED
    BY <1>11, <2>1, DeletedGoes, GotoKept
<1>12. CASE Wait(r)
  BY <1>12, OverKept, GotoKept DEF Wait
<1>13. CASE FindUser(r)
  BY <1>13, GotoKept DEF FindUser
<1>14. CASE DropUser(r)
  BY <1>14, RefusedKept, OverKept, GotoKept DEF DropUser, Returned
<1>15. CASE DropProject(r)
  BY <1>15, RefusedKept, OverKept DEF DropProject, Returned
<1>16. CASE CreateImage(r)
  BY <1>16, RefusedKept, GotoKept DEF CreateImage, Returned
<1>17. CASE SendData(r)
  <2>1. pc[r] = "data" /\ Op[r] = "upload"
    BY <1>17 DEF SendData, Base, Control, ControlOf
  <2> QED
    BY <1>17, <2>1, RefusedKept, AnswerKept DEF SendData, Returned, Verdict
<1>18. CASE RemoveImage(r)
  <2>1. (pc[r] = "cleanup" /\ Op[r] = "upload") \/ (pc[r] = "remove" /\ Op[r] = "remove")
    BY <1>18 DEF RemoveImage, Base, Control, ControlOf
  <2>2. (Refused(r) /\ UNCHANGED faults) \/ Mishap(r) \/ (Answer(r, IF pc[r] = "remove" THEN "deleted" ELSE "failed") /\ UNCHANGED faults)
    BY <1>18 DEF RemoveImage, Returned
  <2> QED
    BY <2>1, <2>2, RefusedKept, AnswerKept DEF Verdict
<1>19. CASE Fault(r)
  BY <1>19, RefusedKept DEF Fault
<1> QED
  BY <1>1, <1>2, <1>3, <1>4, <1>5, <1>6, <1>7, <1>8, <1>9, <1>10, <1>11, <1>12, <1>13, <1>14, <1>15, <1>16, <1>17, <1>18,
     <1>19 DEF Handle
-----------------------------------------------------------------------------
\* The cloud's part of the type invariant.
CloudOK ==
  /\ project \in [Names -> Projects \cup {NoProject}]
  /\ used \in Nat /\ users \subseteq Names
  /\ items \in [Projects -> SUBSET Items]
  /\ deleting \in [Projects -> SUBSET Servers] /\ \A p \in Projects : deleting[p] \subseteq items[p]
  /\ glance \in [Images -> {"none", "queued", "active", "removed"}]

LEMMA StepCloud ==
  ASSUME Base, Counted, NEW r \in Requests, Handle(r) \/ Fault(r)
  PROVE  CloudOK'
<1> USE Constants DEF CloudOK
<1>0. CloudOK /\ (pc[r] \in (Building \cup Sweeping) \ {"project", "find"} => proj[r] \in Projects) /\ at[r] \in Nat
  BY DEF Base, TypeOK, Control, ControlOf
<1>a. CASE UNCHANGED cloud
  BY <1>0, <1>a DEF cloud, slices
<1>1. CASE CreateProject(r)
  <2>1. used + 1 \in Projects
    BY <1>1, RoomForOne DEF CreateProject
  <2>2. CASE project' = [project EXCEPT ![Name(r)] = used + 1] /\ used' = used + 1
    BY <1>0, <1>1, <2>1, <2>2 DEF CreateProject
  <2>3. CASE UNCHANGED <<project, used>>
    BY <1>0, <1>1, <2>3 DEF CreateProject
  <2> QED
    BY <1>1, <2>2, <2>3 DEF CreateProject
<1>2. CASE CreateUser(r)
  BY <1>0, <1>2 DEF CreateUser
<1>3. CASE CreateItem(r)
  <2>1. at[r] \in Items /\ proj[r] \in Projects
    BY <1>0, <1>3, TypesOf DEF CreateItem, Last, Items, Building, ControlTypes
  <2>2. items' = [items EXCEPT ![proj[r]] = @ \cup {at[r]}] \/ UNCHANGED items
    BY <1>3 DEF CreateItem
  <2> QED
    BY <1>0, <1>3, <2>1, <2>2 DEF CreateItem
<1>4. CASE Delete(r)
  <2>1. proj[r] \in Projects
    BY <1>0, <1>4 DEF Delete, Sweeping
  <2>2. PICK i \in left[r] :
          \/ /\ Deletable(r, i)
             /\ IF i \in Servers
                THEN deleting' = [deleting EXCEPT ![proj[r]] = @ \cup {i}] /\ UNCHANGED items
                ELSE /\ items' = [items EXCEPT ![proj[r]] = @ \ (IF i = Net THEN {Net, Subnet} ELSE {i})]
                     /\ UNCHANGED deleting
          \/ UNCHANGED <<items, deleting>>
    BY <1>4 DEF Delete
  <2>3. UNCHANGED <<project, used, users, glance>>
    BY <1>4 DEF Delete
  <2>4. CASE Deletable(r, i) /\ i \in Servers /\ deleting' = [deleting EXCEPT ![proj[r]] = @ \cup {i}] /\ UNCHANGED items
    BY <1>0, <2>1, <2>3, <2>4 DEF Deletable
  <2>5. CASE i \notin Servers /\ items' = [items EXCEPT ![proj[r]] = @ \ (IF i = Net THEN {Net, Subnet} ELSE {i})] /\ UNCHANGED deleting
    <3>1. Servers \cap (IF i = Net THEN {Net, Subnet} ELSE {i}) = {}
      BY <2>5, Kinds
    <3> QED
      BY <1>0, <2>1, <2>3, <2>5, <3>1
  <2>6. CASE UNCHANGED <<items, deleting>>
    BY <1>0, <2>3, <2>6
  <2> QED
    BY <2>2, <2>4, <2>5, <2>6
<1>5. CASE DropUser(r)
  BY <1>0, <1>5 DEF DropUser
<1>6. CASE DropProject(r)
  BY <1>0, <1>6 DEF DropProject
<1>7. CASE CreateImage(r)
  BY <1>0, <1>7 DEF CreateImage, slices
<1>8. CASE SendData(r)
  BY <1>0, <1>8 DEF SendData, slices
<1>9. CASE RemoveImage(r)
  BY <1>0, <1>9 DEF RemoveImage, slices
<1> QED
  BY <1>a, <1>1, <1>2, <1>3, <1>4, <1>5, <1>6, <1>7, <1>8, <1>9
  DEF Handle, GetToken, CreatedAll, Poll, Find, Access, List, Deleted, Wait, FindUser, Fault

LEMMA StepBase ==
  ASSUME Base, Counted, NEW r \in Requests, Handle(r) \/ Fault(r)
  PROVE  Base'
<1>1. Kept(r) /\ CloudOK'
  BY StepKept, StepCloud
<1>2. TypeOK'
  BY <1>1 DEF Kept, Turn, ControlTypes, CloudOK, TypeOK, Points, Verdict
<1>3. \A q \in Requests \ {r} : ControlOf(q)'
  BY <1>1 DEF Base, Control, ControlOf, Kept, Turn, Only
<1> QED
  BY <1>1, <1>2, <1>3 DEF Base, Control, Kept

\* Nova's removal of a server disturbs only its project.
LEMMA NovaBase ==
  ASSUME Base, NEW p \in Projects, NEW i \in Servers, NovaDeletes(p, i)
  PROVE  Base'
<1>1. CloudOK'
  BY DEF Base, TypeOK, NovaDeletes, CloudOK
<1>2. TypeOK'
  BY <1>1 DEF Base, TypeOK, NovaDeletes, CloudOK, control
<1>3. Control'
  BY DEF Base, Control, ControlOf, NovaDeletes, control
<1> QED
  BY <1>2, <1>3 DEF Base

LEMMA BaseInit == Init => Base /\ Counted
<1> SUFFICES ASSUME Init PROVE Base /\ Counted
  OBVIOUS
<1> USE Constants
<1>1. \A r \in Requests : Start(r) \in Points /\ pc[r] = Start(r)
  BY DEF Init, Start, Points, Building, Sweeping, Imaging
<1>2. TypeOK
  BY <1>1 DEF Init, TypeOK, Points
<1>3. Control
  BY DEF Init, Control, ControlOf, Start, Building, Sweeping
<1>4. Counted
  <2>1. IsFiniteSet(Begun)
    BY FS_Subset DEF Begun
  <2> QED
    BY <2>1, FS_CardinalityType DEF Init, Counted
<1> QED
  BY <1>2, <1>3, <1>4 DEF Base

\* used grows with the creation that begins; no request goes back to its first call.
LEMMA StepCounted ==
  ASSUME Base, Counted, NEW r \in Requests, Handle(r) \/ Fault(r)
  PROVE  Counted'
<1>0. IsFiniteSet(Begun) /\ IsFiniteSet(Begun') /\ Cardinality(Begun) \in Nat /\ Cardinality(Begun') \in Nat /\ used \in Nat
  BY Constants, FS_Subset, FS_CardinalityType DEF Begun, Base, TypeOK
<1>1. Kept(r)
  BY StepKept
<1>2. CASE pc[r] = "project" /\ used' = used + 1
  <2>1. Op[r] = "create"
    BY <1>2, Constants DEF Base, Control, ControlOf, Sweeping
  <2>2. Begun' = Begun \cup {r} /\ r \notin Begun
    BY <1>1, <1>2, <2>1 DEF Begun, Kept, Turn, Only, Start
  <2>3. Cardinality(Begun') = Cardinality(Begun) + 1
    BY <1>0, <2>2, FS_AddElement
  <2> QED
    BY <1>0, <1>2, <2>3 DEF Counted
<1>3. CASE used' = used
  <2>1. pc[r] # "project" => pc'[r] # "project"
    BY <1>1, Constants DEF Kept, ControlOf, Base, Control, Start, Sweeping
  <2>2. Begun \subseteq Begun'
    BY <1>1, <2>1 DEF Begun, Kept, Turn, Only
  <2>3. Cardinality(Begun) <= Cardinality(Begun')
    BY <1>0, <2>2, FS_Subset
  <2> QED
    BY <1>0, <1>3, <2>3 DEF Counted
<1>4. used' = used \/ (pc[r] = "project" /\ used' = used + 1)
  BY DEF Handle, CreateProject, CreateUser, GetToken, CreateItem, CreatedAll, Poll, Find, Access, List, Delete, Deleted,
         Wait, FindUser, DropUser, DropProject, CreateImage, SendData, RemoveImage, Fault, cloud, slices
<1> QED
  BY <1>2, <1>3, <1>4
-----------------------------------------------------------------------------
(***************************************************************************)
(* What a step of q leaves to the other requests.                          *)
(***************************************************************************)
LEMMA RefusedStays ==
  ASSUME Base, NEW q \in Requests, pc[q] # "done", Refused(q) \/ Mishap(q)
  PROVE  proj'[q] = proj[q]
BY RefusedMoves DEF Mishap, Stays

LEMMA OverStays ==
  ASSUME Base, NEW q \in Requests, pc[q] \in Sweeping, NEW a \in {"deleted", "error"}, Over(q, a)
  PROVE  proj'[q] = proj[q]
BY OverMoves DEF Stays

\* The projects: most steps leave them alone, a creation adds one, a sweep drops one.
Joins(q)   == proj'[q] = proj[q] \/ (proj'[q] = project[Name(q)] /\ project[Name(q)] # NoProject)
Drops(q)   == project' = [project EXCEPT ![Name(q)] = NoProject] /\ used' = used /\ proj'[q] = proj[q] /\ proj[q] # NoProject
Creates(q) ==
  /\ pc[q] = "project" /\ project[Name(q)] = NoProject
  /\ project' = [project EXCEPT ![Name(q)] = used + 1] /\ used' = used + 1
  /\ (proj'[q] = NoProject /\ Mishap(q)) \/ (proj'[q] = used + 1 /\ pc'[q] = "user")

LEMMA StepProjects ==
  ASSUME Base, NEW q \in Requests, Handle(q) \/ Fault(q)
  PROVE  \/ UNCHANGED <<project, used>> /\ Joins(q)
         \/ Drops(q)
         \/ Creates(q)
<1> USE PointsAre
<1>1. CASE CreateProject(q)
  <2>1. pc[q] = "project" /\ proj[q] = NoProject
    BY <1>1 DEF CreateProject, Base, Control, ControlOf
  <2>2. CASE project[Name(q)] # NoProject /\ Refused(q) /\ UNCHANGED <<project, used, faults>>
    BY <2>1, <2>2, RefusedStays DEF Joins
  <2>3. CASE project[Name(q)] = NoProject /\ project' = [project EXCEPT ![Name(q)] = used + 1] /\ used' = used + 1 /\ Mishap(q)
    BY <2>1, <2>3, RefusedStays DEF Creates
  <2>4. CASE /\ project[Name(q)] = NoProject /\ project' = [project EXCEPT ![Name(q)] = used + 1] /\ used' = used + 1
             /\ pc' = [pc EXCEPT ![q] = "user"] /\ proj' = [proj EXCEPT ![q] = used + 1]
    BY <2>1, <2>4 DEF Creates, Base, TypeOK
  <2> QED
    BY <1>1, <2>2, <2>3, <2>4 DEF CreateProject, Returned
<1>2. CASE Find(q)
  <2>1. pc[q] = "find" /\ UNCHANGED <<project, used>>
    BY <1>2 DEF Find, cloud, slices
  <2>2. CASE project[Name(q)] = NoProject
    BY <1>2, <2>1, <2>2, OverStays DEF Find, Joins
  <2>3. CASE project[Name(q)] # NoProject
    BY <1>2, <2>1, <2>3 DEF Find, Joins, Base, TypeOK
  <2> QED
    BY <2>2, <2>3
<1>3. CASE DropProject(q)
  <2>1. pc[q] = "dropproject" /\ proj[q] # NoProject
    BY <1>3 DEF DropProject, Base, Control, ControlOf
  <2> QED
    BY <1>3, <2>1, RefusedStays, OverStays DEF DropProject, Returned, Joins, Drops
<1>4. CASE CreateUser(q) \/ GetToken(q) \/ CreateItem(q) \/ CreatedAll(q) \/ Poll(q)
  BY <1>4, RefusedStays DEF CreateUser, GetToken, CreateItem, CreatedAll, Poll, Returned, Joins, Goto, Answer, cloud, slices
<1>5. CASE Access(q) \/ List(q) \/ Delete(q) \/ Deleted(q) \/ Wait(q) \/ FindUser(q) \/ DropUser(q)
  <2>1. pc[q] \in Sweeping /\ UNCHANGED <<project, used>>
    BY <1>5 DEF Access, List, Delete, Deleted, Wait, FindUser, DropUser, cloud, slices
  <2>2. CASE Deleted(q)
    BY <2>1, <2>2, DeletedGoes DEF Joins, Goto
  <2>3. CASE ~Deleted(q)
    <3>1. Over(q, "error") \/ Refused(q) \/ Mishap(q) \/ UNCHANGED proj
      BY <1>5, <2>3 DEF Access, List, Delete, Wait, FindUser, DropUser, Returned, Goto
    <3> QED
      BY <2>1, <3>1, RefusedStays, OverStays DEF Joins
  <2> QED
    BY <2>2, <2>3
<1>6. CASE CreateImage(q) \/ SendData(q) \/ RemoveImage(q)
  BY <1>6, RefusedStays DEF CreateImage, SendData, RemoveImage, Returned, Joins, Goto, Answer, slices
<1>7. CASE Fault(q)
  BY <1>7, RefusedStays DEF Fault, Joins, cloud, slices
<1> QED
  BY <1>1, <1>2, <1>3, <1>4, <1>5, <1>6, <1>7 DEF Handle

Elsewhere(q) ==
  /\ \A n \in Names \ {Name(q)} : project'[n] = project[n] /\ (n \in users' <=> n \in users)
  /\ \A p \in Projects \ {proj[q]} : items'[p] = items[p] /\ deleting'[p] = deleting[p]
  /\ \A i \in Images \ {ImageOf[q]} : glance'[i] = glance[i]
  /\ Op[q] \in {"upload", "remove"} => UNCHANGED slices
  /\ Op[q] \in {"create", "delete"} => UNCHANGED glance
  /\ proj[q] # NoProject => proj'[q] # NoProject
  /\ proj'[q] = NoProject /\ project[Name(q)] # NoProject => UNCHANGED slices

LEMMA StepElsewhere ==
  ASSUME Base, NEW q \in Requests, Handle(q) \/ Fault(q)
  PROVE  Elsewhere(q)
<1> USE PointsAre, Constants DEF Elsewhere
<1>1. \/ UNCHANGED <<project, used>> /\ Joins(q)
      \/ Drops(q)
      \/ Creates(q)
  BY StepProjects
<1>2. proj[q] # NoProject => proj'[q] # NoProject
  BY <1>1 DEF Joins, Drops, Creates, Base, Control, ControlOf
<1>3. \A n \in Names \ {Name(q)} : project'[n] = project[n]
  BY <1>1 DEF Drops, Creates, Base, TypeOK
<1>4. \A p \in Projects \ {proj[q]} : items'[p] = items[p] /\ deleting'[p] = deleting[p]
  <2>1. CASE CreateItem(q)
    <3>1. (items' = [items EXCEPT ![proj[q]] = @ \cup {at[q]}] \/ items' = items) /\ deleting' = deleting
      BY <2>1 DEF CreateItem
    <3> QED
      BY <3>1 DEF Base, TypeOK
  <2>2. CASE Delete(q)
    <3>1. PICK i \in left[q] :
             \/ IF i \in Servers
                THEN deleting' = [deleting EXCEPT ![proj[q]] = @ \cup {i}] /\ UNCHANGED items
                ELSE /\ items' = [items EXCEPT ![proj[q]] = @ \ (IF i = Net THEN {Net, Subnet} ELSE {i})]
                     /\ UNCHANGED deleting
             \/ UNCHANGED <<items, deleting>>
      BY <2>2 DEF Delete
    <3> QED
      BY <3>1 DEF Base, TypeOK
  <2>3. CASE UNCHANGED <<items, deleting>>
    BY <2>3
  <2> QED
    BY <2>1, <2>2, <2>3 DEF Handle, CreateProject, CreateUser, GetToken, CreatedAll, Poll, Find, Access, List, Deleted,
       Wait, FindUser, DropUser, DropProject, CreateImage, SendData, RemoveImage, Fault, cloud, slices
<1>5. \A n \in Names \ {Name(q)} : n \in users' <=> n \in users
  BY DEF Handle, CreateProject, CreateUser, GetToken, CreateItem, CreatedAll, Poll, Find, Access, List, Delete, Deleted,
     Wait, FindUser, DropUser, DropProject, CreateImage, SendData, RemoveImage, Fault, cloud, slices
<1>6. \/ pc[q] \in Building \cup Sweeping /\ Op[q] \in {"create", "delete"} /\ UNCHANGED glance
      \/ pc[q] \in Imaging /\ Op[q] \in {"upload", "remove"} /\ UNCHANGED slices
  <2>1. (Op[q] \in {"create", "delete"} /\ pc[q] \in Building \cup Sweeping \cup {"done"})
         \/ (Op[q] \in {"upload", "remove"} /\ pc[q] \in Imaging \cup {"done"})
    BY DEF Base, Control, ControlOf
  <2>2. CASE pc[q] \in Building \cup Sweeping
    BY <2>1, <2>2 DEF Handle, CreateProject, CreateUser, GetToken, CreateItem, CreatedAll, Poll, Find, Access, List, Delete, Deleted,
     Wait, FindUser, DropUser, DropProject, CreateImage, SendData, RemoveImage, Fault, cloud, slices
  <2>3. CASE pc[q] \in Imaging
    BY <2>1, <2>3 DEF Handle, CreateProject, CreateUser, GetToken, CreateItem, CreatedAll, Poll, Find, Access, List, Delete, Deleted,
     Wait, FindUser, DropUser, DropProject, CreateImage, SendData, RemoveImage, Fault, cloud, slices
  <2>4. pc[q] # "done"
    BY DEF Handle, CreateProject, CreateUser, GetToken, CreateItem, CreatedAll, Poll, Find, Access, List, Delete, Deleted,
     Wait, FindUser, DropUser, DropProject, CreateImage, SendData, RemoveImage, Fault
  <2> QED
    BY <2>1, <2>2, <2>3, <2>4
<1>7. \A i \in Images \ {ImageOf[q]} : glance'[i] = glance[i]
  BY ZenonT(60) DEF Handle, CreateProject, CreateUser, GetToken, CreateItem, CreatedAll, Poll, Find, Access, List, Delete, Deleted,
     Wait, FindUser, DropUser, DropProject, CreateImage, SendData, RemoveImage, Fault, cloud, slices, Base, TypeOK
\* A request with no project that finds one of its name changes nothing.
<1>8. proj'[q] = NoProject /\ project[Name(q)] # NoProject => UNCHANGED slices
  <2> SUFFICES ASSUME proj'[q] = NoProject, project[Name(q)] # NoProject PROVE UNCHANGED slices
    OBVIOUS
  <2>1. proj[q] = NoProject
    BY <1>2
  <2>2. pc[q] \in {"project", "find"} \cup Imaging
    BY <1>6, <2>1 DEF Base, Control, ControlOf
  <2> QED
    BY <1>6, <2>2 DEF Handle, CreateProject, CreateUser, GetToken, CreateItem, CreatedAll, Poll, Find, Access, List, Delete, Deleted,
     Wait, FindUser, DropUser, DropProject, CreateImage, SendData, RemoveImage, Fault, cloud, slices
<1> QED
  BY <1>2, <1>3, <1>4, <1>5, <1>6, <1>7, <1>8
-----------------------------------------------------------------------------
(***************************************************************************)
(* Projects have one owner.                                                *)
(***************************************************************************)
LEMMA StepOwned ==
  ASSUME Base, Counted, Owned, NEW q \in Requests, Handle(q) \/ Fault(q)
  PROVE  Owned'
<1> USE Constants
<1>0. /\ Base' /\ Kept(q) /\ Elsewhere(q)
      /\ \/ UNCHANGED <<project, used>> /\ Joins(q)
         \/ Drops(q)
         \/ Creates(q)
  BY StepBase, StepKept, StepElsewhere, StepProjects
<1>1. /\ used \in Nat /\ used' \in Nat /\ used <= used'
      /\ project \in [Names -> Projects \cup {NoProject}] /\ proj \in [Requests -> Projects \cup {NoProject}]
  BY <1>0 DEF Base, TypeOK, Drops, Creates
<1>a. /\ \A n \in Names : project[n] # NoProject => project[n] \in Nat /\ project[n] <= used
      /\ \A r \in Requests : proj[r] # NoProject => proj[r] \in Nat /\ proj[r] <= used
  BY <1>1 DEF Owned
<1>2. \A p \in Projects : p > used' => items'[p] = {} /\ deleting'[p] = {}
  <2> SUFFICES ASSUME NEW p \in Projects, p > used' PROVE items'[p] = {} /\ deleting'[p] = {}
    OBVIOUS
  <2>a. p \in Nat
    OBVIOUS
  <2>0. p > used
    BY <1>1, <2>a
  <2>1. p > used /\ p # proj[q]
    BY <2>0, <1>1, <1>a
  <2> QED
    BY <1>0, <2>1 DEF Owned, Elsewhere
<1>3. \A r \in Requests \ {q} : proj'[r] = proj[r]
  BY <1>0 DEF Kept, Turn, Only
<1>4. CASE UNCHANGED <<project, used>> /\ Joins(q)
  BY <1>1, <1>2, <1>3, <1>4 DEF Joins, Owned, Name
<1>5. CASE Drops(q)
  BY <1>1, <1>2, <1>3, <1>5 DEF Drops, Owned, Name
<1>6. CASE Creates(q)
  <2>1. /\ project'[Name(q)] = used + 1 /\ used' = used + 1 /\ proj'[q] \in {NoProject, used + 1}
        /\ \A n \in Names \ {Name(q)} : project'[n] = project[n]
    BY <1>1, <1>6 DEF Creates
  <2>2. /\ \A n \in Names : project[n] # NoProject => project[n] < used + 1
        /\ \A r \in Requests : proj[r] # NoProject => proj[r] < used + 1
    BY <1>1, <1>a
  <2>3. \A n \in Names : project'[n] # NoProject => project'[n] <= used'
    BY <1>1, <1>a, <2>1
  <2>4. \A r \in Requests : proj'[r] # NoProject => proj'[r] <= used'
    BY <1>1, <1>a, <1>3, <2>1
  <2>5. \A n, k \in Names : project'[n] = project'[k] /\ project'[n] # NoProject => n = k
    BY <1>1, <2>1, <2>2 DEF Owned
  <2>6. \A n \in Names, r \in Requests : project'[n] = proj'[r] /\ proj'[r] # NoProject => n = Name(r)
    BY <1>1, <1>3, <2>1, <2>2 DEF Owned
  <2>7. \A k, r \in Requests : proj'[k] = proj'[r] /\ proj'[r] # NoProject => Name(k) = Name(r)
    BY <1>1, <1>3, <2>1, <2>2 DEF Owned
  <2> QED
    BY <1>2, <2>3, <2>4, <2>5, <2>6, <2>7 DEF Owned, Name
<1> QED
  BY <1>0, <1>4, <1>5, <1>6

LEMMA NovaOwned ==
  ASSUME Base, Owned, NEW p \in Projects, NEW i \in Servers, NovaDeletes(p, i)
  PROVE  Owned'
BY DEF Base, TypeOK, Owned, NovaDeletes, control, Name

LEMMA OwnedInit == Init => Owned
BY Constants DEF Init, Owned
-----------------------------------------------------------------------------
(***************************************************************************)
(* Building.                                                               *)
(***************************************************************************)
\* No other request has come upon a project of the name of r, or yet does.
LEMMA SoloBefore ==
  ASSUME Base, NEW q \in Requests, Kept(q), Elsewhere(q), NEW r \in Requests, Solo(r)'
  PROVE  Solo(r)
<1>1. \A k \in Requests : proj[k] # NoProject => proj'[k] # NoProject
  BY DEF Kept, Turn, Only, Elsewhere
<1> QED
  BY <1>1 DEF Solo, Namesakes

\* What the step of another request leaves of a project that r has to itself.
LEMMA Untouched ==
  ASSUME Base, Owned, NEW q \in Requests, Kept(q), Elsewhere(q), NEW r \in Requests \ {q},
         Op[r] = "create", Alive(r), proj[r] # NoProject,
         q \in Namesakes(r) => proj'[q] = NoProject
  PROVE  /\ project'[Name(r)] = project[Name(r)] /\ (Name(r) \in users' <=> Name(r) \in users)
         /\ items'[proj[r]] = items[proj[r]] /\ deleting'[proj[r]] = deleting[proj[r]]
<1> USE Constants
<1>0. proj[r] \in Projects
  BY DEF Base, TypeOK
<1>1. CASE UNCHANGED slices
  BY <1>1 DEF slices
<1>2. CASE q \in Namesakes(r)
  <2>1. project[Name(q)] # NoProject
    BY <1>2 DEF Namesakes, Alive, Name
  <2> QED
    BY <1>1, <1>2, <2>1 DEF Elsewhere
<1>3. CASE Op[q] \in {"create", "delete"} /\ Name(q) # Name(r)
  <2>1. proj[q] # proj[r]
    BY <1>3 DEF Owned
  <2> QED
    BY <1>0, <1>3, <2>1 DEF Elsewhere
<1>4. Op[q] \in {"upload", "remove"} => UNCHANGED slices
  BY DEF Elsewhere
<1> QED
  BY <1>1, <1>2, <1>3, <1>4 DEF Namesakes, Name

\* A refused call sends a creation to its rollback.
LEMMA RefusedCreation ==
  ASSUME Base, NEW r \in Requests, Op[r] = "create", pc[r] # "done", Refused(r) \/ Mishap(r)
  PROVE  pc'[r] \in {"find", "done"} /\ answer'[r] # "ready"
BY RefusedMoves DEF Mishap, Again, Ends, Base, Control, ControlOf

LEMMA OverCreation ==
  ASSUME Base, NEW r \in Requests, Op[r] = "create", pc[r] \in Sweeping, NEW a \in {"deleted", "error"}, Over(r, a)
  PROVE  pc'[r] \in {"find", "done"} /\ answer'[r] # "ready"
BY OverMoves DEF Again, Ends, Base, Control, ControlOf, Sweeping

Grown(r) == pc[r] \in Building \ {"project"} \/ answer[r] = "ready"

LEMMA StepGrows ==
  ASSUME Base, Counted, Owned, NEW r \in Requests, Handle(r) \/ Fault(r), Op[r] = "create", Grown(r)',
         Grown(r) => Built(r)
  PROVE  Built(r)'
<1> USE Constants, PointsAre
<1>0. Base' /\ Kept(r) /\ TypeOK /\ TypeOK'
  BY StepBase, StepKept DEF Base
<1>1. CASE CreateProject(r)
  <2>1. pc[r] = "project"
    BY <1>1 DEF CreateProject
  <2>2. /\ project' = [project EXCEPT ![Name(r)] = used + 1]
        /\ pc' = [pc EXCEPT ![r] = "user"]
        /\ proj' = [proj EXCEPT ![r] = used + 1]
        /\ UNCHANGED <<items, deleting>>
    BY <1>1, <2>1, RefusedCreation DEF CreateProject, Returned, Grown
  <2>3. used + 1 \in Projects /\ used + 1 > used
    BY <2>1, RoomForOne DEF Base, TypeOK
  <2>4. items[used + 1] = {} /\ deleting[used + 1] = {}
    BY <2>3 DEF Owned
  <2>5. pc'[r] = "user" /\ proj'[r] = used + 1 /\ project'[Name(r)] = used + 1
    BY <1>0, <2>2 DEF TypeOK
  <2> QED
    BY <2>2, <2>4, <2>5 DEF Built, Alive, Name
<1>2. CASE CreateUser(r)
  <2>1. pc[r] = "user"
    BY <1>2 DEF CreateUser
  <2>2. users' = users \cup {Name(r)} /\ Goto(r, "token", 1) /\ UNCHANGED <<project, items, deleting>>
    BY <1>2, <2>1, RefusedCreation DEF CreateUser, Returned, Grown
  <2>3. pc'[r] = "token" /\ proj'[r] = proj[r]
    BY <2>2, GotoMoves
  <2> QED
    BY <2>1, <2>2, <2>3 DEF Built, Alive, Name, Grown
<1>3. CASE GetToken(r)
  <2>1. pc[r] = "token" /\ UNCHANGED cloud
    BY <1>3 DEF GetToken
  <2>2. Goto(r, "items", 1)
    BY <1>3, <2>1, RefusedCreation DEF GetToken, Grown
  <2>3. pc'[r] = "items" /\ proj'[r] = proj[r] /\ at'[r] = 1
    BY <2>2, GotoMoves
  <2> QED
    BY <2>1, <2>3 DEF Built, Alive, Name, Grown, cloud, slices
<1>4. CASE CreateItem(r)
  <2>1. pc[r] = "items" /\ at[r] <= Last
    BY <1>4 DEF CreateItem
  <2>2. items' = [items EXCEPT ![proj[r]] = @ \cup {at[r]}] /\ Goto(r, "items", at[r] + 1) /\ UNCHANGED <<project, users, deleting>>
    BY <1>4, <2>1, RefusedCreation DEF CreateItem, Returned, Grown
  <2>3. at[r] \in 1..(2 * N + 3) /\ at[r] + 1 \in 1..(2 * N + 3) /\ proj[r] \in Projects
    BY <1>0, <2>1 DEF TypeOK, Last, Base, Control, ControlOf
  <2>4. pc'[r] = "items" /\ proj'[r] = proj[r] /\ at'[r] = at[r] + 1
    BY <2>2, <2>3, GotoMoves
  <2>5. Built(r)
    BY <2>1 DEF Grown
  <2>6. items'[proj[r]] = 1..at[r]
    BY <1>0, <2>1, <2>2, <2>3, <2>5 DEF Built, TypeOK
  <2>7. at'[r] - 1 = at[r]
    BY <2>3, <2>4
  <2> QED
    BY <2>1, <2>2, <2>4, <2>5, <2>6, <2>7 DEF Built, Alive, Name
<1>5. CASE CreatedAll(r)
  <2>1. pc[r] = "items" /\ at[r] > Last /\ UNCHANGED cloud /\ Goto(r, "poll", N + 3)
    BY <1>5 DEF CreatedAll
  <2>2. pc'[r] = "poll" /\ proj'[r] = proj[r]
    BY <2>1, GotoMoves
  <2>a. at[r] \in 1..(2 * N + 3) /\ at[r] > 2 * N + 2
    BY <1>0, <2>1 DEF TypeOK, Last
  <2>3. at[r] - 1 = 2 * N + 2
    BY <2>a
  <2> QED
    BY <2>1, <2>2, <2>3 DEF Built, Alive, Name, Grown, cloud, slices, Items
<1>6. CASE Poll(r)
  <2>1. pc[r] = "poll" /\ UNCHANGED cloud
    BY <1>6 DEF Poll
  <2>2. Answer(r, "ready") \/ Goto(r, "poll", at[r] + 1)
    BY <1>6, <2>1, RefusedCreation DEF Poll, Grown
  <2>3. pc'[r] \in {"poll", "done"} /\ UNCHANGED proj
    BY <1>0, <2>2 DEF Answer, Goto, TypeOK
  <2> QED
    BY <2>1, <2>3 DEF Built, Alive, Name, Grown, cloud, slices
<1>7. ~Find(r)
  BY RefusedCreation, OverCreation, <1>0 DEF Find, Grown, TypeOK, Base, Control, ControlOf
<1>8. ~Access(r)
  BY OverCreation, GotoMoves, <1>0 DEF Access, Grown, TypeOK, Base, Control, ControlOf
<1>9. ~List(r)
  BY OverCreation, <1>0 DEF List, Grown, TypeOK, Base, Control, ControlOf
<1>10. ~Delete(r)
  BY RefusedCreation, OverCreation, <1>0 DEF Delete, Returned, Grown, TypeOK, Base, Control, ControlOf
<1>11. ~Deleted(r)
  <2> SUFFICES ASSUME Deleted(r) PROVE FALSE
    OBVIOUS
  <2>1. pc[r] = "delete"
    BY DEF Deleted
  <2> QED
    BY <2>1, DeletedGoes, GotoMoves, <1>0 DEF Grown, Base, Control, ControlOf
<1>12. ~Wait(r)
  BY OverCreation, GotoMoves, <1>0 DEF Wait, Grown, TypeOK, Base, Control, ControlOf
<1>13. ~FindUser(r)
  BY GotoMoves, <1>0 DEF FindUser, Grown, TypeOK, Base, Control, ControlOf
<1>14. ~DropUser(r)
  BY RefusedCreation, OverCreation, GotoMoves, <1>0 DEF DropUser, Returned, Grown, TypeOK, Base, Control, ControlOf
<1>15. ~DropProject(r)
  BY RefusedCreation, OverCreation, <1>0 DEF DropProject, Returned, Grown, TypeOK, Base, Control, ControlOf
<1>16. ~(CreateImage(r) \/ SendData(r) \/ RemoveImage(r))
  BY DEF CreateImage, SendData, RemoveImage, Base, Control, ControlOf
<1>17. ~Fault(r)
  BY RefusedCreation DEF Fault, Grown
<1> QED
  BY <1>1, <1>2, <1>3, <1>4, <1>5, <1>6, <1>7, <1>8, <1>9, <1>10, <1>11, <1>12, <1>13, <1>14, <1>15, <1>16, <1>17 DEF Handle

LEMMA StepGrowing ==
  ASSUME Base, Counted, Owned, Growing, NEW q \in Requests, Handle(q) \/ Fault(q)
  PROVE  Growing'
<1>0. Kept(q) /\ Elsewhere(q)
  BY StepKept, StepElsewhere
<1> SUFFICES ASSUME NEW r \in Requests, Op[r] = "create", Solo(r)', Grown(r)' PROVE Built(r)'
  BY DEF Growing, Grown
<1>1. Solo(r)
  BY <1>0, SoloBefore
<1>2. CASE q = r
  <2>1. Grown(r) => Built(r)
    BY <1>1 DEF Growing, Grown
  <2> QED
    BY <1>2, <2>1, StepGrows
<1>3. CASE q # r
  <2>1. pc'[r] = pc[r] /\ answer'[r] = answer[r] /\ proj'[r] = proj[r] /\ at'[r] = at[r]
    BY <1>0, <1>3 DEF Kept, Turn, Only
  <2>2. Built(r) /\ proj[r] # NoProject
    BY <1>1, <2>1, PointsAre DEF Growing, Grown, Base, Control, ControlOf
  <2>3. q \in Namesakes(r) => proj'[q] = NoProject
    BY DEF Solo, Namesakes
  <2>4. /\ project'[Name(r)] = project[Name(r)] /\ (Name(r) \in users' <=> Name(r) \in users)
        /\ items'[proj[r]] = items[proj[r]] /\ deleting'[proj[r]] = deleting[proj[r]]
    BY <1>0, <1>3, <2>2, <2>3, Untouched DEF Built
  <2> QED
    BY <2>1, <2>2, <2>4 DEF Built, Alive, Name
<1> QED
  BY <1>2, <1>3

LEMMA NovaGrowing ==
  ASSUME Base, Growing, NEW p \in Projects, NEW i \in Servers, NovaDeletes(p, i)
  PROVE  Growing'
<1>0. UNCHANGED <<pc, proj, at, left, tries, answer, project, users>>
  BY DEF NovaDeletes, control
<1> SUFFICES ASSUME NEW r \in Requests, Op[r] = "create", Solo(r)', Grown(r)' PROVE Built(r)'
  BY DEF Growing, Grown
<1>1. Built(r) /\ proj[r] \in Projects
  BY <1>0, PointsAre DEF Growing, Grown, Solo, Namesakes, Base, TypeOK, Control, ControlOf
<1>2. p # proj[r]
  BY <1>1 DEF NovaDeletes, Built
<1>3. items'[proj[r]] = items[proj[r]] /\ deleting'[proj[r]] = deleting[proj[r]]
  BY <1>1, <1>2 DEF NovaDeletes, Base, TypeOK
<1> QED
  BY <1>0, <1>1, <1>3 DEF Built, Alive, Name

LEMMA GrowingInit == Init => Growing
BY Constants DEF Init, Growing, Start, Building
-----------------------------------------------------------------------------
(***************************************************************************)
(* Rolling back.                                                           *)
(***************************************************************************)
\* With no rival begun, no other request has a project of that name.
LEMMA AloneIsSolo ==
  ASSUME Base, NEW r \in Requests, Rivals(r) = {}
  PROVE  Solo(r)
BY DEF Base, Control, ControlOf, Rivals, Solo, Namesakes, Start

LEMMA AloneBefore ==
  ASSUME Base, NEW q \in Requests, Kept(q), NEW r \in Requests, Rivals(r)' = {}
  PROVE  Rivals(r) = {} /\ q \notin Namesakes(r)
<1>1. q \notin Namesakes(r)
  BY DEF Rivals, Namesakes, Kept
<1> QED
  BY <1>1 DEF Rivals, Namesakes, Kept, Turn, Only

\* A step of a request that is no namesake.
LEMMA OtherSweeps ==
  ASSUME Base, Owned, NEW q \in Requests, Kept(q), Elsewhere(q), NEW r \in Requests \ {q},
         Op[r] = "create", q \notin Namesakes(r), Sweeps(r)
  PROVE  Sweeps(r)'
<1> USE Constants
<1>1. /\ pc'[r] = pc[r] /\ proj'[r] = proj[r] /\ at'[r] = at[r]
      /\ left'[r] = left[r] /\ tries'[r] = tries[r] /\ answer'[r] = answer[r]
      /\ faults \subseteq faults' /\ Name(r)' = Name(r)
  BY DEF Kept, Turn, Only, Name
<1>2. /\ project'[Name(r)] = project[Name(r)] /\ (Name(r) \in users' <=> Name(r) \in users)
      /\ proj[r] # NoProject => items'[proj[r]] = items[proj[r]] /\ deleting'[proj[r]] = deleting[proj[r]]
      /\ project[Name(r)] # NoProject => deleting'[project[Name(r)]] = deleting[project[Name(r)]]
  <2>1. CASE UNCHANGED slices
    BY <2>1 DEF slices
  <2>2. CASE Op[q] \in {"create", "delete"} /\ Name(q) # Name(r)
    <3>1. /\ proj[r] # NoProject => proj[r] \in Projects \ {proj[q]}
          /\ project[Name(r)] # NoProject => project[Name(r)] \in Projects \ {proj[q]}
      BY <2>2 DEF Owned, Base, TypeOK
    <3> QED
      BY <2>2, <3>1 DEF Elsewhere
  <2> QED
    BY <2>1, <2>2 DEF Elsewhere, Namesakes, Name
<1>3. CASE project[Name(r)] = NoProject
  BY <1>1, <1>2, <1>3 DEF Sweeps, Clean
<1>4. CASE project[Name(r)] # NoProject
  <2>1. pc[r] \in {"access", "list", "delete", "wait", "users", "dropuser", "dropproject"} => proj[r] # NoProject
    BY PointsAre DEF Base, Control, ControlOf
  <2>2. Fresh(r)'
    BY <1>1, <1>2, <1>4, <2>1 DEF Sweeps, Fresh
  <2>3. Swept(r)'
    <3>1. CASE proj[r] # NoProject
      BY <1>1, <1>2, <1>4, <3>1 DEF Sweeps, Swept, Past, Stage
    <3>2. CASE proj[r] = NoProject
      BY <1>1, <2>1, <3>2 DEF Swept, Past
    <3> QED
      BY <3>1, <3>2
  <2>4. Overtaken(r) => Overtaken(r)'
    BY <1>1, <1>2 DEF Overtaken
  <2> QED
    BY <1>1, <1>2, <1>4, <2>2, <2>3, <2>4 DEF Sweeps, Alive
<1> QED
  BY <1>3, <1>4

\* A call that fails, of itself or after its work.
LEMMA FaultSweeps ==
  ASSUME Base, NEW r \in Requests, Op[r] = "create", Sweeps(r), project[Name(r)] # NoProject, Mishap(r),
         pc[r] # "done", project'[Name(r)] = project[Name(r)],
         pc[r] \in Building => deleting'[project[Name(r)]] = {}
  PROVE  Sweeps(r)'
<1>1. /\ Turn(r) /\ Stays(r) /\ faults' = faults \cup {<<r, tries[r]>>}
      /\ \/ pc[r] \in Building /\ tries[r] = 0 /\ Again(r)
         \/ pc[r] \in Sweeping /\ tries[r] = 1 /\ Again(r)
         \/ pc[r] \in Sweeping /\ tries[r] = 2 /\ Ends(r, "failed")
  BY RefusedMoves DEF Mishap
<1>2. Name(r)' = Name(r) /\ (proj[r] # NoProject => Alive(r)) /\ answer[r] = "none"
  BY DEF Name, Sweeps, Base, Control, ControlOf
<1>3. proj'[r] # NoProject => Alive(r)'
  BY <1>1, <1>2 DEF Alive, Stays
<1>4. CASE pc[r] \in Building /\ tries[r] = 0 /\ Again(r)
  BY <1>1, <1>2, <1>3, <1>4 DEF Sweeps, Again, Fresh, Swept, Past
<1>5. CASE pc[r] \in Sweeping /\ tries[r] = 1 /\ Again(r)
  BY <1>1, <1>2, <1>3, <1>5 DEF Sweeps, Again, Fresh, Swept, Past
<1>6. CASE pc[r] \in Sweeping /\ tries[r] = 2 /\ Ends(r, "failed")
  BY <1>1, <1>2, <1>3, <1>6 DEF Sweeps, Ends, Fresh, Swept, Past
<1> QED
  BY <1>1, <1>4, <1>5, <1>6

\* Going on while building.
LEMMA BuildingSweeps ==
  ASSUME Base, NEW r \in Requests, Op[r] = "create", Sweeps(r), project[Name(r)] # NoProject, pc[r] \in Building,
         project'[Name(r)] = project[Name(r)], proj'[r] = proj[r], tries'[r] = tries[r],
         \/ pc'[r] \in {"token", "items", "poll"} /\ answer'[r] = answer[r]
         \/ pc'[r] = "done" /\ answer'[r] = "ready"
  PROVE  Sweeps(r)'
<1>1. /\ Name(r)' = Name(r) /\ (proj[r] # NoProject => Alive(r)) /\ answer[r] = "none" /\ tries[r] = 0
      /\ proj[r] # NoProject
  BY DEF Name, Sweeps, Base, Control, ControlOf, Building
<1> QED
  BY <1>1 DEF Sweeps, Alive, Fresh, Swept, Past

\* The first call, and what finds no project.
LEMMA BeginSweeps ==
  ASSUME Base, Counted, Owned, NEW r \in Requests, Op[r] = "create", Sweeps(r), project[Name(r)] = NoProject,
         Handle(r) \/ Fault(r)
  PROVE  Sweeps(r)'
<1> USE Constants, PointsAre
<1>0. /\ pc[r] \in {"project", "find"} /\ Clean(r) /\ answer[r] = "none" /\ Name(r)' = Name(r)
      /\ Base' /\ TypeOK /\ TypeOK'
  BY StepBase DEF Sweeps, Base, Control, ControlOf, Name, Handle, CreateProject, CreateUser, GetToken, CreateItem, CreatedAll, Poll,
     Find, Access, List, Delete, Deleted, Wait, FindUser, DropUser, DropProject, CreateImage, SendData, RemoveImage, Fault
<1>1. CASE CreateProject(r)
  <2>1. pc[r] = "project" /\ proj[r] = NoProject /\ tries[r] = 0
    BY <1>1 DEF CreateProject, Base, Control, ControlOf
  <2>2. /\ project' = [project EXCEPT ![Name(r)] = used + 1] /\ UNCHANGED <<users, items, deleting>>
        /\ \/ /\ pc' = [pc EXCEPT ![r] = "user"] /\ proj' = [proj EXCEPT ![r] = used + 1]
              /\ UNCHANGED <<at, left, tries, answer>>
           \/ Mishap(r)
    BY <1>0, <1>1 DEF CreateProject, Returned
  <2>3. used + 1 \in Projects /\ used + 1 > used /\ used + 1 # NoProject
    BY <2>1, RoomForOne DEF Base, TypeOK
  <2>4. deleting'[used + 1] = {} /\ project'[Name(r)] = used + 1
    BY <1>0, <2>2, <2>3 DEF Owned, TypeOK
  <2>5. CASE pc' = [pc EXCEPT ![r] = "user"] /\ proj' = [proj EXCEPT ![r] = used + 1] /\ UNCHANGED <<at, left, tries, answer>>
    <3>1. pc'[r] = "user" /\ proj'[r] = used + 1 /\ tries'[r] = 0 /\ answer'[r] = "none"
      BY <1>0, <2>1, <2>5 DEF TypeOK
    <3> QED
      BY <1>0, <2>3, <2>4, <3>1 DEF Sweeps, Alive, Fresh, Swept, Past
  <2>6. CASE Mishap(r)
    <3>1. pc'[r] = "find" /\ proj'[r] = NoProject /\ tries'[r] = 1 /\ answer'[r] = "none"
      BY <1>0, <2>1, <2>6, RefusedMoves DEF Mishap, Stays, Again
    <3> QED
      BY <1>0, <2>3, <2>4, <3>1 DEF Sweeps, Alive, Fresh, Swept, Past
  <2> QED
    BY <2>2, <2>5, <2>6
<1>2. CASE Find(r) \/ Fault(r)
  <2>1. UNCHANGED cloud /\ (Refused(r) \/ (pc[r] = "find" /\ Over(r, "deleted")))
    BY <1>0, <1>2 DEF Find, Fault, Mishap
  <2>2. pc'[r] \in {"find", "done"} /\ answer'[r] # "ready" /\ proj'[r] = proj[r]
    BY <1>0, <2>1, RefusedCreation, OverCreation, RefusedStays, OverStays
  <2> QED
    BY <1>0, <2>1, <2>2 DEF Sweeps, Clean, cloud, slices
<1> QED
  BY <1>0, <1>1, <1>2 DEF Handle, CreateUser, GetToken, CreateItem, CreatedAll, Poll,
     Access, List, Delete, Deleted, Wait, FindUser, DropUser, DropProject, CreateImage, SendData, RemoveImage

\* Building: whatever is refused, nothing of it is being deleted yet.
LEMMA BuildSweeps ==
  ASSUME Base, Counted, Owned, Growing, NEW r \in Requests, Op[r] = "create", Rivals(r) = {}, Sweeps(r),
         project[Name(r)] # NoProject, pc[r] \in Building, Handle(r) \/ Fault(r)
  PROVE  Sweeps(r)'
<1> USE Constants, PointsAre
<1>0. Kept(r) /\ TypeOK
  BY StepKept DEF Base
<1>1. pc[r] # "project" /\ Built(r) /\ tries[r] = 0 /\ proj[r] # NoProject /\ Alive(r)
  BY AloneIsSolo DEF Growing, Sweeps, Base, Control, ControlOf
<1>2. project[Name(r)] = proj[r] /\ deleting[proj[r]] = {}
  BY <1>1 DEF Built, Alive
<1>3. UNCHANGED <<project, deleting>>
  BY <1>1 DEF Handle, CreateProject, CreateUser, GetToken, CreateItem, CreatedAll, Poll, Find, Access, List, Delete, Deleted,
     Wait, FindUser, DropUser, DropProject, CreateImage, SendData, RemoveImage, Fault, cloud, slices
<1>4. CASE Mishap(r)
  BY <1>2, <1>3, <1>4, FaultSweeps
\* Nothing is in the way of a creation that is alone.
<1>5. CASE Refused(r) /\ ~Mishap(r)
  <2>1. /\ pc'[r] = "find" /\ tries'[r] = 1 /\ answer'[r] = "none" /\ proj'[r] = proj[r]
    BY <1>1, <1>5, RefusedMoves DEF Stays, Again, Base, Control, ControlOf
  <2> QED
    BY <1>1, <1>2, <1>3, <2>1 DEF Sweeps, Alive, Fresh, Swept, Past, Name
<1>6. CASE ~Refused(r) /\ ~Mishap(r)
  <2>1. \/ \E point \in {"token", "items", "poll"}, i \in 1..(2 * N + 3) : Goto(r, point, i)
        \/ Answer(r, "ready")
    <3>1. at[r] \in 1..(2 * N + 3)
      BY <1>0 DEF TypeOK
    <3>2. CASE CreateUser(r)
      BY <1>6, <3>2 DEF CreateUser, Returned
    <3>3. CASE GetToken(r)
      BY <1>6, <3>3 DEF GetToken
    <3>4. CASE CreateItem(r)
      BY <1>6, <3>1, <3>4 DEF CreateItem, Returned, Last
    <3>5. CASE CreatedAll(r)
      BY <3>5 DEF CreatedAll
    <3>6. CASE Poll(r)
      BY <1>6, <3>1, <3>6 DEF Poll, Last
    <3> QED
      BY <1>1, <1>6, <3>2, <3>3, <3>4, <3>5, <3>6 DEF Handle, CreateProject, Find, Access, List, Delete, Deleted,
         Wait, FindUser, DropUser, DropProject, CreateImage, SendData, RemoveImage, Fault
  <2>2. CASE Answer(r, "ready")
    BY <1>2, <1>3, <2>2, AnswerMoves, BuildingSweeps DEF Verdict
  <2>3. CASE \E point \in {"token", "items", "poll"}, i \in 1..(2 * N + 3) : Goto(r, point, i)
    <3>1. PICK point \in {"token", "items", "poll"}, i \in 1..(2 * N + 3) : Goto(r, point, i)
      BY <2>3
    <3>2. pc'[r] = point /\ proj'[r] = proj[r] /\ tries'[r] = tries[r] /\ answer'[r] = answer[r]
      BY <3>1, GotoMoves
    <3> QED
      BY <1>1, <1>2, <1>3, <3>1, <3>2, BuildingSweeps
  <2> QED
    BY <2>1, <2>2, <2>3
<1> QED
  BY <1>4, <1>5, <1>6

\* Going on with the sweep.
LEMMA OnSweeps ==
  ASSUME NEW r \in Requests, Op[r] = "create", Sweeps(r), project[Name(r)] # NoProject,
         project'[Name(r)] = project[Name(r)], pc'[r] \in Sweeping \ {"find"}, proj[r] # NoProject, proj'[r] = proj[r],
         tries'[r] = tries[r], answer[r] = "none", answer'[r] = "none", faults \subseteq faults', Fresh(r)', Swept(r)'
  PROVE  Sweeps(r)'
<1>1. Name(r)' = Name(r) /\ Alive(r)'
  BY DEF Name, Sweeps, Alive
<1> QED
  BY <1>1, PointsAre DEF Sweeps

\* The sweep, stage by stage.
LEMMA SweepSweeps ==
  ASSUME Base, Counted, Owned, NEW r \in Requests, Op[r] = "create", Sweeps(r),
         project[Name(r)] # NoProject, pc[r] \in Sweeping, Handle(r) \/ Fault(r)
  PROVE  Sweeps(r)'
<1> USE Constants, PointsAre
<1>0. /\ Kept(r) /\ TypeOK /\ Base' /\ TypeOK' /\ Name(r)' = Name(r) /\ answer[r] = "none"
      /\ pc[r] # "find" => proj[r] \in Projects /\ proj[r] # NoProject /\ Alive(r)
      /\ tries[r] \in {1, 2} /\ (tries[r] = 2 => <<r, 1>> \in faults)
      /\ faults \subseteq faults'
  <2>1. Kept(r) /\ Base' /\ Name(r)' = Name(r)
    BY StepKept, StepBase DEF Name
  <2>2. answer[r] = "none" /\ tries[r] \in {1, 2} /\ (pc[r] # "find" => proj[r] # NoProject)
    BY DEF Base, Control, ControlOf
  <2>3. TypeOK /\ TypeOK' /\ (proj[r] # NoProject => proj[r] \in Projects)
    BY <2>1 DEF Base, TypeOK
  <2>4. (tries[r] = 2 => <<r, 1>> \in faults) /\ (proj[r] # NoProject => Alive(r))
    BY DEF Sweeps
  <2> QED
    BY <2>1, <2>2, <2>3, <2>4 DEF Kept
<1>1. CASE Fault(r)
  BY <1>1, FaultSweeps DEF Fault, cloud, slices, Building
<1>2. CASE Find(r)
  <2>1. pc'[r] = "access" /\ proj'[r] = project[Name(r)] /\ UNCHANGED <<tries, answer, cloud>>
    BY <1>0, <1>2 DEF Find, TypeOK
  <2> QED
    BY <1>0, <1>2, <2>1 DEF Find, Sweeps, Alive, Fresh, Swept, Past, cloud, slices
<1>3. CASE Access(r)
  <2>1. pc[r] = "access" /\ Goto(r, "list", 1) /\ UNCHANGED cloud
    BY <1>0, <1>3 DEF Access
  <2>2. pc'[r] = "list" /\ at'[r] = 1 /\ proj'[r] = proj[r] /\ tries'[r] = tries[r] /\ answer'[r] = "none"
    BY <1>0, <2>1, GotoMoves
  <2> QED
    BY <1>0, <2>1, <2>2 DEF Sweeps, Alive, Fresh, Swept, Past, cloud, slices
<1>4. CASE List(r)
  <2>1. pc[r] = "list" /\ UNCHANGED cloud /\ at[r] \in 1..4
    BY <1>4 DEF List, Base, Control, ControlOf
  <2>2. left' = [left EXCEPT ![r] = items[proj[r]] \cap Stage(at[r])] /\ pc' = [pc EXCEPT ![r] = "delete"] /\ UNCHANGED <<proj, at, tries, answer>>
    BY <1>0, <1>4, <2>1 DEF List
  <2>3. pc'[r] = "delete" /\ left'[r] = items[proj[r]] \cap Stage(at[r])
    BY <1>0, <2>2 DEF TypeOK
  <2>4. UNCHANGED <<project, users, items, deleting>>
    BY <2>1 DEF cloud, slices
  <2>5. Fresh(r)'
    BY <1>0, <2>1, <2>2, <2>3, <2>4 DEF Sweeps, Fresh
  <2>6. Stage(at[r])' = Stage(at[r]) /\ Stage(at'[r]) = Stage(at[r])
    BY <2>2
  <2>7. Swept(r)'
    BY <1>0, <2>1, <2>2, <2>3, <2>4, <2>6, Kinds DEF Sweeps, Swept, Past
  <2> QED
    BY <1>0, <2>1, <2>2, <2>3, <2>4, <2>5, <2>7, OnSweeps
<1>5. CASE Deleted(r)
  <2>1. pc[r] = "delete" /\ UNCHANGED cloud /\ left[r] = {} /\ at[r] \in 1..4
    BY <1>5 DEF Deleted, Base, Control, ControlOf
  <2>2. UNCHANGED <<project, users, items, deleting>>
    BY <2>1 DEF cloud, slices
  <2>3. Swept(r)
    BY DEF Sweeps
  <2>4. proj'[r] = proj[r] /\ tries'[r] = tries[r] /\ answer'[r] = "none"
    BY <1>0, <1>5, DeletedGoes DEF Goto
  <2>5. pc'[r] \in {"list", "wait", "users"} /\ (pc'[r] = "list" => at'[r] # 1) /\ Swept(r)'
    <3>1. CASE at[r] = 1
      <4>1. pc'[r] = "wait" /\ at'[r] = 1
        BY <1>5, <3>1, DeletedGoes, GotoMoves
      <4> QED
        BY <2>1, <2>2, <2>3, <2>4, <3>1, <4>1 DEF Swept, Past
    <3>2. CASE at[r] = 2
      <4>1. pc'[r] = "list" /\ at'[r] = 3
        BY <1>5, <3>2, DeletedGoes, GotoMoves
      <4> QED
        BY <2>1, <2>2, <2>3, <2>4, <3>2, <4>1, Kinds DEF Swept, Past
    <3>3. CASE at[r] = 3
      <4>1. pc'[r] = "list" /\ at'[r] = 4
        BY <1>5, <3>3, DeletedGoes, GotoMoves
      <4> QED
        BY <2>1, <2>2, <2>3, <2>4, <3>3, <4>1, Kinds DEF Swept, Past
    <3>4. CASE at[r] = 4
      <4>1. pc'[r] = "users" /\ at'[r] = 4
        BY <1>5, <3>4, DeletedGoes, GotoMoves
      <4> QED
        BY <2>1, <2>2, <2>3, <2>4, <3>4, <4>1, Kinds DEF Swept, Past
    <3> QED
      BY <2>1, <3>1, <3>2, <3>3, <3>4
  <2>6. Fresh(r)'
    BY <2>5 DEF Fresh
  <2> QED
    BY <1>0, <2>1, <2>2, <2>4, <2>5, <2>6, OnSweeps
<1>6. CASE Wait(r)
  <2>1. pc[r] = "wait" /\ UNCHANGED cloud /\ Goto(r, "list", 2)
    BY <1>0, <1>6 DEF Wait
  <2>2. pc'[r] = "list" /\ at'[r] = 2 /\ proj'[r] = proj[r] /\ tries'[r] = tries[r] /\ answer'[r] = "none"
    BY <1>0, <2>1, GotoMoves
  <2> QED
    BY <1>0, <2>1, <2>2 DEF Sweeps, Alive, Fresh, Swept, Past, cloud, slices
<1>7. CASE FindUser(r)
  <2>1. pc[r] = "users" /\ UNCHANGED cloud
    BY <1>7 DEF FindUser
  <2>2. /\ pc'[r] = (IF Name(r) \in users THEN "dropuser" ELSE "dropproject")
        /\ proj'[r] = proj[r] /\ tries'[r] = tries[r] /\ answer'[r] = "none"
    BY <1>0, <1>7, GotoMoves DEF FindUser
  <2> QED
    BY <1>0, <2>1, <2>2 DEF Sweeps, Alive, Fresh, Swept, Past, cloud, slices
<1>8. CASE DropUser(r)
  <2>1. pc[r] = "dropuser" /\ Name(r) \in users /\ users' = users \ {Name(r)} /\ UNCHANGED <<project, items, deleting>>
    BY <1>8 DEF DropUser, Sweeps, Swept
  <2>2. Mishap(r) \/ Goto(r, "dropproject", 4)
    BY <1>8, <2>1 DEF DropUser, Returned
  <2>3. CASE Mishap(r)
    BY <2>1, <2>3, FaultSweeps
  <2>4. CASE Goto(r, "dropproject", 4)
    <3>1. pc'[r] = "dropproject" /\ proj'[r] = proj[r] /\ tries'[r] = tries[r] /\ answer'[r] = "none"
      BY <1>0, <2>4, GotoMoves
    <3> QED
      BY <1>0, <2>1, <3>1 DEF Sweeps, Alive, Fresh, Swept, Past
  <2> QED
    BY <2>2, <2>3, <2>4
\* Servers that Nova is deleting are all that is left.
<1>9. CASE DropProject(r)
  <2>1. /\ pc[r] = "dropproject" /\ project' = [project EXCEPT ![Name(r)] = NoProject] /\ UNCHANGED <<users, items, deleting>>
        /\ Mishap(r) \/ Over(r, "deleted")
    BY <1>0, <1>9 DEF DropProject, Returned
  <2>2. pc'[r] \in {"find", "done"} /\ answer'[r] # "ready" /\ proj'[r] = proj[r]
    BY <1>0, <2>1, RefusedCreation, OverCreation, RefusedStays, OverStays
  <2>3. items[proj[r]] = deleting[proj[r]] /\ Name(r) \notin users
    <3>1. /\ Past(r, 2) /\ Past(r, 3) /\ Past(r, 4) /\ Past(r, 5)
      BY <2>1 DEF Past
    <3>2. /\ items[proj[r]] \cap Servers \subseteq deleting[proj[r]] /\ items[proj[r]] \cap Ports = {}
          /\ Subnet \notin items[proj[r]] /\ Net \notin items[proj[r]] /\ Name(r) \notin users
      BY <2>1, <3>1 DEF Sweeps, Swept
    <3>3. items[proj[r]] \subseteq Items /\ deleting[proj[r]] \subseteq items[proj[r]]
      BY <1>0, <2>1 DEF TypeOK
    <3>4. ASSUME NEW i \in items[proj[r]] PROVE i \in deleting[proj[r]]
      <4>1. i \in Servers \/ i \in Ports \/ i = Subnet \/ i = Net
        BY <3>3, Kinds
      <4> QED
        BY <3>2, <4>1
    <3> QED
      BY <3>2, <3>3, <3>4
  <2> QED
    BY <1>0, <2>1, <2>2, <2>3 DEF Sweeps, Clean, TypeOK
<1>10. CASE Delete(r)
  <2>1. pc[r] = "delete" /\ UNCHANGED <<project, used, users, glance>> /\ at[r] \in 1..4
    BY <1>10 DEF Delete, Base, Control, ControlOf
  <2>2. PICK i \in left[r] :
          \/ /\ Deletable(r, i)
             /\ IF i \in Servers
                THEN deleting' = [deleting EXCEPT ![proj[r]] = @ \cup {i}] /\ UNCHANGED items
                ELSE /\ items' = [items EXCEPT ![proj[r]] = @ \ (IF i = Net THEN {Net, Subnet} ELSE {i})]
                     /\ UNCHANGED deleting
             /\ \/ left' = [left EXCEPT ![r] = @ \ {i}] /\ UNCHANGED <<pc, proj, at, tries, answer>>
                \/ Mishap(r)
          \/ ~Deletable(r, i) /\ Over(r, "error") /\ UNCHANGED <<items, deleting, faults>>
    BY <1>10 DEF Delete, Returned
  <2>3. CASE Mishap(r)
    BY <2>1, <2>3, FaultSweeps
  <2>4. CASE ~Deletable(r, i) /\ Over(r, "error") /\ UNCHANGED <<items, deleting, faults>>
    \* Only a server that Nova has removed, and only in the second run.
    <3>1. Swept(r) /\ Fresh(r)
      BY DEF Sweeps
    <3>2. at[r] = 1 /\ i \notin items[proj[r]]
      BY <1>0, <2>1, <2>4, <3>1, Kinds DEF Deletable, Swept, Past
    <3>3. tries[r] = 2
      BY <1>0, <2>1, <3>1, <3>2 DEF Fresh
    <3>4. Stays(r) /\ Ends(r, "failed")
      BY <2>4, <3>3, OverMoves
    <3>5. Overtaken(r)'
      BY <1>0, <2>1, <2>2, <2>4, <3>2, <3>4 DEF Overtaken, Stays
    <3> QED
      BY <1>0, <2>1, <3>3, <3>4, <3>5 DEF Sweeps, Alive, Fresh, Swept, Past, Stays, Ends
  <2>5. CASE /\ Deletable(r, i) /\ i \in Servers /\ deleting' = [deleting EXCEPT ![proj[r]] = @ \cup {i}] /\ UNCHANGED items
             /\ left' = [left EXCEPT ![r] = @ \ {i}] /\ UNCHANGED <<pc, proj, at, tries, answer>>
    <3>1. deleting'[proj[r]] = deleting[proj[r]] \cup {i} /\ left'[r] = left[r] \ {i}
      BY <1>0, <2>5 DEF TypeOK
    <3>2. at[r] = 1
      BY <2>1, <2>5, Kinds DEF Sweeps, Swept
    <3>3. Fresh(r)'
      BY <1>0, <2>1, <2>5, <3>1, <3>2 DEF Sweeps, Fresh
    <3>4. Swept(r)'
      BY <1>0, <2>1, <2>5, <3>1, <3>2, Kinds DEF Sweeps, Swept, Past
    <3> QED
      BY <1>0, <2>1, <2>5, <3>3, <3>4, OnSweeps
  <2>6. CASE /\ Deletable(r, i) /\ i \notin Servers
             /\ items' = [items EXCEPT ![proj[r]] = @ \ (IF i = Net THEN {Net, Subnet} ELSE {i})] /\ UNCHANGED deleting
             /\ left' = [left EXCEPT ![r] = @ \ {i}] /\ UNCHANGED <<pc, proj, at, tries, answer>>
    <3>1. /\ items'[proj[r]] = items[proj[r]] \ (IF i = Net THEN {Net, Subnet} ELSE {i}) /\ left'[r] = left[r] \ {i}
      BY <1>0, <2>6 DEF TypeOK
    <3>2. at[r] # 1 /\ Swept(r)
      BY <2>1, <2>6, Kinds DEF Sweeps, Swept
    <3>3. Fresh(r)'
      BY <2>1, <2>6, <3>2 DEF Fresh
    <3>4. Swept(r)'
      <4>1. CASE at[r] = 2
        BY <1>0, <2>1, <2>6, <3>1, <3>2, <4>1, Kinds DEF Swept, Past
      <4>2. CASE at[r] = 3
        BY <1>0, <2>1, <2>6, <3>1, <3>2, <4>2, Kinds DEF Swept, Past
      <4>3. CASE at[r] = 4
        BY <1>0, <2>1, <2>6, <3>1, <3>2, <4>3, Kinds DEF Swept, Past
      <4> QED
        BY <2>1, <3>2, <4>1, <4>2, <4>3
    <3> QED
      BY <1>0, <2>1, <2>6, <3>3, <3>4, OnSweeps
  <2> QED
    BY <2>2, <2>3, <2>4, <2>5, <2>6
<1> QED
  BY <1>1, <1>2, <1>3, <1>4, <1>5, <1>6, <1>7, <1>8, <1>9, <1>10 DEF Handle, CreateProject, CreateUser, GetToken,
     CreateItem, CreatedAll, Poll, CreateImage, SendData, RemoveImage

LEMMA StepRolling ==
  ASSUME Base, Counted, Owned, Growing, Rolling, NEW q \in Requests, Handle(q) \/ Fault(q)
  PROVE  Rolling'
<1>0. Kept(q) /\ Elsewhere(q)
  BY StepKept, StepElsewhere
<1> SUFFICES ASSUME NEW r \in Requests, Op[r] = "create", Rivals(r)' = {} PROVE Sweeps(r)'
  BY DEF Rolling
<1>1. Rivals(r) = {} /\ q \notin Namesakes(r) /\ Sweeps(r)
  BY <1>0, AloneBefore DEF Rolling
<1>2. CASE q # r
  BY <1>0, <1>1, <1>2, OtherSweeps
<1>3. CASE q = r
  <2>1. pc[r] \in Building \cup Sweeping
    BY <1>3 DEF Base, Control, ControlOf, Handle, CreateProject, CreateUser, GetToken, CreateItem, CreatedAll, Poll, Find, Access,
       List, Delete, Deleted, Wait, FindUser, DropUser, DropProject, CreateImage, SendData, RemoveImage, Fault, Building, Sweeping, Imaging
  <2> QED
    BY <1>1, <1>3, <2>1, BeginSweeps, BuildSweeps, SweepSweeps
<1> QED
  BY <1>2, <1>3

\* A server goes from what there is and from what is being deleted, and was in no list.
LEMMA NovaRolling ==
  ASSUME Base, Rolling, NEW p \in Projects, NEW i \in Servers, NovaDeletes(p, i)
  PROVE  Rolling'
<1> USE Constants
<1>0. UNCHANGED <<pc, proj, at, left, tries, answer, project, users, faults>> /\ i \in deleting[p] /\ TypeOK
  BY DEF NovaDeletes, control, Base
<1> SUFFICES ASSUME NEW r \in Requests, Op[r] = "create", Rivals(r)' = {} PROVE Sweeps(r)'
  BY DEF Rolling
<1>1. Sweeps(r) /\ Name(r)' = Name(r)
  BY <1>0 DEF Rolling, Rivals, Namesakes, Name
<1>2. \A k \in Projects : /\ items'[k] = IF k = p THEN items[k] \ {i} ELSE items[k]
                          /\ deleting'[k] = IF k = p THEN deleting[k] \ {i} ELSE deleting[k]
  BY <1>0 DEF NovaDeletes, TypeOK
<1>3. (proj[r] # NoProject => proj[r] \in Projects) /\ (project[Name(r)] # NoProject => project[Name(r)] \in Projects)
  BY <1>0 DEF TypeOK
<1>4. CASE project[Name(r)] = NoProject
  BY <1>0, <1>1, <1>2, <1>3, <1>4 DEF Sweeps, Clean
<1>5. CASE project[Name(r)] # NoProject
  <2>1. pc[r] \in {"access", "list", "delete", "wait", "users", "dropuser", "dropproject"} => proj[r] \in Projects
    BY <1>3, PointsAre DEF Base, Control, ControlOf
  <2>2. Fresh(r)'
    BY <1>0, <1>1, <1>2, <1>3, <1>5, <2>1, ZenonT(60) DEF Sweeps, Fresh
  <2>3. Swept(r)'
    <3>1. CASE proj[r] \in Projects
      <4>1. Swept(r) /\ Stage(at[r])' = Stage(at[r]) /\ (pc[r] = "delete" => at[r] \in 1..4)
        BY <1>0, <1>1, <1>5 DEF Sweeps, Base, Control, ControlOf, Stage
      <4>2. \A k \in 2..4 : Stage(k) \cap {i} = {}
        <5>1. \A k \in 2..4 : k = 2 \/ k = 3 \/ k = 4
          OBVIOUS
        <5> QED
          BY <5>1, Kinds
      <4>3. at[r] > 1 /\ pc[r] = "delete" => left'[r] = items'[proj[r]] \cap Stage(at[r])
        <5> SUFFICES ASSUME at[r] > 1, pc[r] = "delete" PROVE left'[r] = items'[proj[r]] \cap Stage(at[r])
          OBVIOUS
        <5>1. at[r] \in 2..4
          BY <4>1
        <5>2. left'[r] = items[proj[r]] \cap Stage(at[r])
          BY <1>0, <4>1 DEF Swept
        <5>3. items'[proj[r]] = items[proj[r]] \/ items'[proj[r]] = items[proj[r]] \ {i}
          BY <1>2, <3>1
        <5> QED
          BY <4>2, <5>1, <5>2, <5>3
      <4> QED
        BY <1>0, <1>1, <1>2, <3>1, <4>1, <4>3, ZenonT(60) DEF Swept, Past
    <3>2. CASE proj[r] \notin Projects
      BY <1>0, <2>1, <3>2 DEF Swept, Past
    <3> QED
      BY <3>1, <3>2
  <2>4. Overtaken(r) => Overtaken(r)'
    BY <1>0, <1>2, <1>3 DEF Overtaken
  <2> QED
    BY <1>0, <1>1, <1>5, <2>2, <2>3, <2>4 DEF Sweeps, Alive
<1> QED
  BY <1>4, <1>5

LEMMA RollingInit == Init => Rolling
BY Constants DEF Init, Rolling, Sweeps, Clean, Start
-----------------------------------------------------------------------------
(***************************************************************************)
(* Images.                                                                 *)
(***************************************************************************)
LEMMA OwnUpload ==
  ASSUME Base, Counted, NEW r \in Requests, Op[r] = "upload", Upload(r), Handle(r) \/ Fault(r)
  PROVE  Upload(r)'
<1> USE Constants
<1>0. /\ pc[r] \in {"image", "data", "cleanup"} /\ answer[r] = "none" /\ Kept(r)
      /\ glance \in [Images -> {"none", "queued", "active", "removed"}] /\ ImageOf[r] \in Images
      /\ faults \subseteq faults'
  <2>1. Kept(r)
    BY StepKept
  <2>2. pc[r] # "done"
    BY DEF Handle, CreateProject, CreateUser, GetToken, CreateItem, CreatedAll, Poll, Find, Access, List, Delete, Deleted,
       Wait, FindUser, DropUser, DropProject, CreateImage, SendData, RemoveImage, Fault, Building, Sweeping, Imaging
  <2> QED
    BY <2>1, <2>2 DEF Base, TypeOK, Control, ControlOf, Kept
<1>1. CASE pc[r] = "image"
  <2>1. at[r] = 1
    BY <1>1 DEF Upload
  <2>2. \/ Mishap(r)
        \/ glance' = [glance EXCEPT ![ImageOf[r]] = "queued"] /\ Goto(r, "data", 2)
    BY <1>1 DEF Handle, CreateProject, CreateUser, GetToken, CreateItem, CreatedAll, Poll, Find, Access, List, Delete, Deleted,
       Wait, FindUser, DropUser, DropProject, CreateImage, SendData, RemoveImage, Fault, Returned
  <2>3. CASE Mishap(r)
    <3>1. pc'[r] = "done" /\ at'[r] = 1 /\ answer'[r] = "failed"
      BY <1>1, <2>1, <2>3, RefusedMoves DEF Mishap, Stays, Ends, Building, Sweeping
    <3> QED
      BY <3>1 DEF Upload
  <2>4. CASE glance' = [glance EXCEPT ![ImageOf[r]] = "queued"] /\ Goto(r, "data", 2)
    <3>1. pc'[r] = "data" /\ at'[r] = 2 /\ answer'[r] = "none" /\ glance'[ImageOf[r]] = "queued"
      BY <1>0, <2>4, GotoMoves, PointsAre
    <3> QED
      BY <3>1 DEF Upload
  <2> QED
    BY <2>2, <2>3, <2>4
<1>2. CASE pc[r] = "data"
  <2>1. at[r] = 2
    BY <1>2 DEF Upload
  <2>2. \/ Refused(r)
        \/ glance' = [glance EXCEPT ![ImageOf[r]] = "active"] /\ Answer(r, "uploaded")
    BY <1>2 DEF Handle, CreateProject, CreateUser, GetToken, CreateItem, CreatedAll, Poll, Find, Access, List, Delete, Deleted,
       Wait, FindUser, DropUser, DropProject, CreateImage, SendData, RemoveImage, Fault, Returned, Mishap
  <2>3. CASE Refused(r)
    <3>1. pc'[r] = "cleanup" /\ at'[r] = 2 /\ answer'[r] = "none" /\ tries'[r] = 1
      BY <1>0, <1>2, <2>1, <2>3, RefusedMoves DEF Stays, Ends, Building, Sweeping
    <3> QED
      BY <3>1 DEF Upload
  <2>4. CASE glance' = [glance EXCEPT ![ImageOf[r]] = "active"] /\ Answer(r, "uploaded")
    <3>1. pc'[r] = "done" /\ answer'[r] = "uploaded" /\ glance'[ImageOf[r]] = "active"
      BY <1>0, <2>4, AnswerMoves DEF Verdict
    <3> QED
      BY <3>1 DEF Upload
  <2> QED
    BY <2>2, <2>3, <2>4
<1>3. CASE pc[r] = "cleanup"
  <2>1. at[r] = 2 /\ tries[r] = 1
    BY <1>3 DEF Upload
  <2>2. \/ glance'[ImageOf[r]] = "removed" /\ (Refused(r) \/ Answer(r, "failed"))
        \/ Mishap(r)
    BY <1>0, <1>3 DEF Handle, CreateProject, CreateUser, GetToken, CreateItem, CreatedAll, Poll, Find, Access, List, Delete, Deleted,
       Wait, FindUser, DropUser, DropProject, CreateImage, SendData, RemoveImage, Fault, Returned, Mishap
  <2>3. CASE Refused(r) \/ Answer(r, "failed")
    <3>1. pc'[r] = "done" /\ answer'[r] = "failed" /\ at'[r] = 2
      BY <1>3, <2>1, <2>3, RefusedMoves, AnswerMoves DEF Stays, Ends, Building, Sweeping, Verdict
    <3> QED
      BY <2>1, <2>2, <3>1 DEF Upload, Mishap
  <2> QED
    BY <2>2, <2>3 DEF Mishap
<1> QED
  BY <1>0, <1>1, <1>2, <1>3

\* Another request changes the image of an upload only to remove it, once it is listed.
LEMMA OtherUpload ==
  ASSUME Base, Counted, NEW q \in Requests, NEW r \in Requests \ {q}, Op[r] = "upload", Upload(r), Handle(q) \/ Fault(q)
  PROVE  Upload(r)'
<1> USE Constants
<1>0. /\ pc'[r] = pc[r] /\ at'[r] = at[r] /\ tries'[r] = tries[r] /\ answer'[r] = answer[r] /\ faults \subseteq faults'
      /\ glance \in [Images -> {"none", "queued", "active", "removed"}] /\ Elsewhere(q)
  BY StepKept, StepElsewhere DEF Kept, Turn, Only, Base, TypeOK
<1>1. pc[q] # "done" /\ \A k \in Requests \ {q} : pc'[k] = pc[k]
  BY StepKept DEF Kept, Turn, Only, Handle, CreateProject, CreateUser, GetToken, CreateItem, CreatedAll, Poll, Find, Access, List, Delete, Deleted,
       Wait, FindUser, DropUser, DropProject, CreateImage, SendData, RemoveImage, Fault, Building, Sweeping, Imaging
<1>2. Removers(r) \subseteq Removers(r)'
  BY <1>1 DEF Removers
<1>3. CASE glance'[ImageOf[r]] = glance[ImageOf[r]]
  BY <1>0, <1>2, <1>3 DEF Upload
<1>4. CASE glance'[ImageOf[r]] # glance[ImageOf[r]]
  <2>1. ImageOf[q] = ImageOf[r] /\ Op[q] = "remove"
    BY <1>0, <1>4, OpenStackAssumption DEF Elsewhere
  <2>2. pc[q] = "remove"
    BY <1>1, <2>1 DEF Base, Control, ControlOf
  <2>3. RemoveImage(q)
    BY <1>4, <2>2 DEF Handle, CreateProject, CreateUser, GetToken, CreateItem, CreatedAll, Poll, Find, Access, List, Delete, Deleted,
       Wait, FindUser, DropUser, DropProject, CreateImage, SendData, Fault, cloud
  <2>4. glance[ImageOf[r]] # "none" /\ glance'[ImageOf[r]] = "removed"
    BY <1>0, <1>4, <2>1, <2>3 DEF RemoveImage, Sent
  <2>5. pc'[q] = "done"
    BY <2>2, <2>3, RefusedMoves, AnswerMoves DEF RemoveImage, Returned, Mishap, Ends, Verdict, Building, Sweeping
  <2>6. q \in Removers(r)'
    BY <2>1, <2>5 DEF Removers
  <2> QED
    BY <1>0, <2>4, <2>6 DEF Upload
<1> QED
  BY <1>3, <1>4

LEMMA NovaUploads ==
  ASSUME Base, Uploads, NEW p \in Projects, NEW i \in Servers, NovaDeletes(p, i)
  PROVE  Uploads'
BY DEF NovaDeletes, control, Uploads, Upload, Removers

LEMMA UploadsInit == Init => Uploads
BY Constants DEF Init, Uploads, Upload, Start
-----------------------------------------------------------------------------
(***************************************************************************)
(* The theorems.                                                           *)
(***************************************************************************)
\* The inductive invariant.
IInv == Base /\ Counted /\ Owned /\ Growing /\ Rolling /\ Uploads

LEMMA Inductive == IInv /\ [Next]_vars => IInv'
<1> SUFFICES ASSUME IInv, [Next]_vars PROVE IInv'
  OBVIOUS
<1> USE DEF IInv
<1>1. ASSUME NEW q \in Requests, Handle(q) \/ Fault(q) PROVE IInv'
  <2>1. Base' /\ Counted' /\ Owned' /\ Growing' /\ Rolling'
    BY <1>1, StepBase, StepCounted, StepOwned, StepGrowing, StepRolling
  <2>2. Uploads'
    BY <1>1, OwnUpload, OtherUpload DEF Uploads
  <2> QED
    BY <2>1, <2>2
<1>2. ASSUME NEW p \in Projects, NEW i \in Servers, NovaDeletes(p, i) PROVE IInv'
  <2>1. Counted'
    BY <1>2 DEF NovaDeletes, control, Counted, Begun
  <2> QED
    BY <1>2, <2>1, NovaBase, NovaOwned, NovaGrowing, NovaRolling, NovaUploads
<1>3. CASE UNCHANGED vars
  <2> USE <1>3 DEF vars, cloud, slices, control
  <2>1. Base' /\ Counted'
    BY DEF Base, TypeOK, Control, ControlOf, Counted, Begun
  <2>2. Owned'
    BY DEF Owned, Name
  <2>3. Growing'
    BY DEF Growing, Solo, Namesakes, Built, Alive, Name
  <2>4. Rolling'
    BY DEF Rolling, Rivals, Namesakes, Sweeps, Clean, Fresh, Swept, Past, Overtaken, Alive, Name
  <2>5. Uploads'
    BY DEF Uploads, Upload, Removers
  <2> QED
    BY <2>1, <2>2, <2>3, <2>4, <2>5
<1> QED
  BY <1>1, <1>2, <1>3 DEF Next

\* What every step keeps: the five parts, for any interleaving of the calls.
THEOREM Invariance == Spec => []IInv
<1>1. Init => IInv
  BY BaseInit, OwnedInit, GrowingInit, RollingInit, UploadsInit DEF IInv
<1> QED
  BY <1>1, Inductive, PTL DEF Spec

\* Types, for any number of requests and faults: the rollback runs at most twice,
\* no request makes a second project, and only servers are ever left to Nova.
THEOREM TypeCorrect == Spec => []TypeOK
<1>1. IInv => TypeOK
  BY DEF IInv, Base
<1> QED
  BY <1>1, Invariance, PTL

\* What provision_slice answers READY has every resource of the slice, and keeps
\* it while no other request has found the project by its name.
THEOREM ReadyWhole == Spec => []ReadyIsWhole
<1>1. IInv => ReadyIsWhole
  <2> SUFFICES ASSUME IInv, NEW r \in Requests, answer[r] = "ready", Solo(r) PROVE Whole(r)
    BY DEF ReadyIsWhole, Solo
  <2>1. Op[r] = "create" /\ pc[r] = "done"
    BY Constants DEF IInv, Base, Control, ControlOf
  <2>2. Built(r)
    BY <2>1 DEF IInv, Growing
  <2> QED
    BY <2>1, <2>2 DEF Built, Whole
<1> QED
  BY <1>1, Invariance, PTL

\* The two runs of the rollback leave no orphans of a creation that had no rival,
\* unless a call failed in each of them or Nova was ahead of the second.
THEOREM RollbackClean == Spec => []NothingLeft
<1>1. IInv => NothingLeft
  <2> SUFFICES ASSUME IInv, NEW r \in Requests, Op[r] = "create", answer[r] = "failed", Rivals(r) = {},
                      ~({<<r, 1>>, <<r, 2>>} \subseteq faults), ~Overtaken(r)
               PROVE  project[Name(r)] = NoProject /\ Clean(r)
    BY DEF NothingLeft, Clean
  <2>1. Sweeps(r)
    BY DEF IInv, Rolling
  <2> QED
    BY <2>1 DEF Sweeps
<1> QED
  BY <1>1, Invariance, PTL

\* A failed upload leaves no record of its image unless the clean-up failed too,
\* and an uploaded image is there until a request removes it.
THEOREM ImagesWhole == Spec => []ImagesAreWhole
<1>1. IInv => ImagesAreWhole
  BY DEF IInv, Uploads, Upload, Removers, ImagesAreWhole
<1> QED
  BY <1>1, Invariance, PTL
=============================================================================
