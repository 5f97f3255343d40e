-------------------------- MODULE OpenStackDriver --------------------------
(***************************************************************************)
(* openstack-driver: create_slice, delete_slice, upload_image and          *)
(* delete_image (app/main.py) over the orchestrator (app/orchestrator.py)  *)
(* and the OpenStack APIs it calls.                                        *)
(*                                                                         *)
(* Provisioning creates a project, its user and, one call after another, a *)
(* private network, its subnet, a port and a server per VM.  Any failure   *)
(* runs deprovision_slice twice, in provision_slice and in the handler.    *)
(* deprovision_slice finds the project by name and sweeps servers, ports,  *)
(* subnets, networks, user and project; one failed call ends the sweep.    *)
(* An upload registers an image and then sends its data; servers boot from *)
(* images.  Every call is a step of its own, and the requests interleave.  *)
(***************************************************************************)
EXTENDS Integers, FiniteSets

CONSTANTS
  Requests, Op,  \* what each request asks of the driver
  Names, NameOf, \* the slice_id of a request: the name of slice and project
  Images,        \* image ids of Glance
  ImageOf,       \* the image a slice boots from, or that is uploaded or removed
  N,             \* VMs of a slice
  NoProject,
  MaxFaults      \* bound on the calls and instances that fail of themselves

ASSUME OpenStackAssumption ==
  /\ Op \in [Requests -> {"create", "delete", "upload", "remove"}]
  /\ NameOf \in [Requests -> Names] /\ ImageOf \in [Requests -> Images]
  /\ IsFiniteSet(Requests)
  /\ \A q, r \in Requests :  \* Glance gives every upload an id of its own
       Op[q] = "upload" /\ Op[r] = "upload" /\ ImageOf[q] = ImageOf[r] => q = r
  /\ N \in Nat \ {0} /\ MaxFaults \in Nat /\ NoProject \notin Nat

\* The resources of a project, numbered in the order they are created.
Net      == 1
Subnet   == 2
Ports    == 3..(N + 2)
Servers  == (N + 3)..(2 * N + 2)
Items    == 1..(2 * N + 2)
Projects == 1..Cardinality(Requests)

\* What creating a resource takes: a subnet or a port its network, a server its port.
Needs(i) == IF i = Net THEN {} ELSE IF i \in Servers THEN {i - N} ELSE {Net}

VARIABLES
  project,   \* the project of each name
  used,      \* projects created so far
  users,     \* the names with a user
  items,     \* the resources of each project, also once it is gone
  deleting,  \* the servers Nova has been asked to delete
  glance,    \* per image: "none" so far, "queued" (no data), "active" or "removed"
  pc,        \* per request: control point
  proj,      \* per request: project_id
  at,        \* per request: next resource to create, or stage of the sweep
  left,      \* per request: what the stage has listed and not yet deleted
  tries,     \* per request: runs of the rollback, or of an upload's clean-up
  answer,    \* per request: "none", "ready", "failed", "deleted", "uploaded" or "error"
  faults     \* the requests that a call failed, with their tries at that time

slices  == <<project, used, users, items, deleting>>
cloud   == <<slices, glance>>
control == <<pc, proj, at, left, tries, answer>>
vars    == <<cloud, control, faults>>

Building == {"project", "user", "token", "items", "poll"}
Sweeping == {"find", "access", "list", "delete", "wait", "users", "dropuser", "dropproject"}

Imaging  == {"image", "data", "cleanup", "remove"}

Name(r)  == NameOf[r]
Alive(r) == project[Name(r)] = proj[r]

\* What each stage of the sweep lists: for networks, never the provider's.
Stage(k) == CASE k = 1 -> Servers [] k = 2 -> Ports [] k = 3 -> {Subnet} [] k = 4 -> {Net}

\* Where the handler of a request begins.
Start(r) == CASE Op[r] = "create" -> "project" [] Op[r] = "delete" -> "find"
              [] Op[r] = "upload" -> "image"   [] Op[r] = "remove" -> "remove"
-----------------------------------------------------------------------------
Init ==
  /\ project = [n \in Names |-> NoProject]
  /\ used = 0 /\ users = {}
  /\ items = [p \in Projects |-> {}]
  /\ deleting = [p \in Projects |-> {}]
  /\ glance = [i \in Images |->
       IF \E r \in Requests : Op[r] = "upload" /\ ImageOf[r] = i THEN "none" ELSE "active"]
  /\ pc = [r \in Requests |-> Start(r)]
  /\ proj = [r \in Requests |-> NoProject]
  /\ at = [r \in Requests |-> 1]
  /\ left = [r \in Requests |-> {}]
  /\ tries = [r \in Requests |-> 0]
  /\ answer = [r \in Requests |-> "none"]
  /\ faults = {}

Goto(r, point, i) ==
  /\ pc' = [pc EXCEPT ![r] = point]
  /\ at' = [at EXCEPT ![r] = i]
  /\ UNCHANGED <<proj, left, tries, answer>>

Answer(r, a) ==
  /\ pc' = [pc EXCEPT ![r] = "done"]
  /\ answer' = [answer EXCEPT ![r] = a]
  /\ UNCHANGED <<proj, at, left, tries>>

\* rollback_slice: deprovision_slice from the start.
Rollback(r) ==
  /\ pc' = [pc EXCEPT ![r] = "find"]
  /\ tries' = [tries EXCEPT ![r] = @ + 1]
  /\ UNCHANGED <<proj, at, left, answer>>

\* deprovision_slice is over, with `a` the answer to a deletion.  rollback_slice
\* swallows what it raised; create_slice runs it once more and answers 500.
\* (The faults: a handler that does not run it again, and one that repeats it.)
OverOnce(r, a) == Answer(r, IF Op[r] = "delete" THEN a ELSE "failed")

OverAgain(r, a) == IF Op[r] = "delete" THEN Answer(r, a) ELSE Rollback(r)

Over(r, a) ==
  IF Op[r] = "create" /\ tries[r] = 1
  THEN Rollback(r)
  ELSE Answer(r, IF Op[r] = "delete" THEN a ELSE "failed")

CleanUp(r) ==
  /\ pc' = [pc EXCEPT ![r] = "cleanup"]
  /\ tries' = [tries EXCEPT ![r] = 1]
  /\ UNCHANGED <<proj, at, left, answer>>

\* A failed upload of data removes the record of the image.
\* (Abandon is the fault of an upload that does not.)
Abandon(r) ==
  CASE pc[r] \in Building           -> Rollback(r)
    [] pc[r] \in Sweeping           -> Over(r, "error")
    [] pc[r] \in Imaging            -> Answer(r, "failed")

Refused(r) ==
  CASE pc[r] \in Building           -> Rollback(r)
    [] pc[r] \in Sweeping           -> Over(r, "error")
    [] pc[r] = "data"               -> CleanUp(r)
    [] pc[r] \in {"image","cleanup"} -> Answer(r, "failed")
    [] pc[r] = "remove"             -> Answer(r, "error")

\* An image is named in a request once it has been listed.
Sent(r) == Op[r] \in {"create", "remove"} => glance[ImageOf[r]] # "none"

Mishap(r) ==
  /\ Cardinality(faults) < MaxFaults
  /\ faults' = faults \cup {<<r, tries[r]>>}
  /\ Refused(r)

\* A call that did its work returns, or its answer is lost.
Returned(r, continue) ==
  \/ continue /\ UNCHANGED faults
  \/ Mishap(r)

\* A call that fails of itself, having done nothing; while polling, also an
\* instance in ERROR or not ACTIVE after 45 seconds.
Fault(r) ==
  /\ pc[r] \in Building \cup Sweeping \cup Imaging /\ Sent(r)
  /\ Mishap(r)
  /\ UNCHANGED cloud
-----------------------------------------------------------------------------
(***************************************************************************)
(* _provision_slice_raw.                                                   *)
(***************************************************************************)
\* Names of projects are unique: 409 when there is one.
CreateProject(r) ==
  /\ pc[r] = "project" /\ Sent(r)
  /\ \/ /\ project[Name(r)] = NoProject
        /\ project' = [project EXCEPT ![Name(r)] = used + 1]
        /\ used' = used + 1
        /\ Returned(r, /\ pc' = [pc EXCEPT ![r] = "user"]
                       /\ proj' = [proj EXCEPT ![r] = used + 1]
                       /\ UNCHANGED <<at, left, tries, answer>>)
     \/ /\ project[Name(r)] # NoProject
        /\ Refused(r)
        /\ UNCHANGED <<project, used, faults>>
  /\ UNCHANGED <<users, items, deleting, glance>>

CreateUser(r) ==
  /\ pc[r] = "user"
  /\ \/ /\ Name(r) \notin users
        /\ users' = users \cup {Name(r)}
        /\ Returned(r, Goto(r, "token", 1))
     \/ Name(r) \in users /\ Refused(r) /\ UNCHANGED <<users, faults>>
  /\ UNCHANGED <<project, used, items, deleting, glance>>

\* The user's role, its token for the project, and the id of the provider network.
Scoped(r) == Alive(r) /\ Name(r) \in users

GetToken(r) ==
  /\ pc[r] = "token"
  /\ IF Scoped(r) THEN Goto(r, "items", 1) ELSE Refused(r)
  /\ UNCHANGED <<cloud, faults>>

\* (LastButOne is the fault of a loop that stops before the last server.)
LastButOne == 2 * N + 1
Last       == 2 * N + 2

CreateItem(r) ==
  LET p == proj[r]
      possible == /\ Scoped(r) /\ Needs(at[r]) \subseteq items[p]
                  /\ at[r] \in Servers => glance[ImageOf[r]] = "active"
  IN /\ pc[r] = "items" /\ at[r] <= Last
     /\ \/ /\ possible
           /\ items' = [items EXCEPT ![p] = @ \cup {at[r]}]
           /\ Returned(r, Goto(r, "items", at[r] + 1))
        \/ ~possible /\ Refused(r) /\ UNCHANGED <<items, faults>>
     /\ UNCHANGED <<project, used, users, deleting, glance>>

CreatedAll(r) ==
  /\ pc[r] = "items" /\ at[r] > Last
  /\ Goto(r, "poll", N + 3)
  /\ UNCHANGED <<cloud, faults>>

\* The last round of polling, one get_server at a time: a server being deleted
\* still shows ACTIVE.  A console URL that cannot be had is tolerated.
Poll(r) ==
  /\ pc[r] = "poll"
  /\ IF at[r] > Last THEN Answer(r, "ready")
     ELSE IF Scoped(r) /\ at[r] \in items[proj[r]] THEN Goto(r, "poll", at[r] + 1)
     ELSE Refused(r)
  /\ UNCHANGED <<cloud, faults>>
-----------------------------------------------------------------------------
(***************************************************************************)
(* deprovision_slice.                                                      *)
(***************************************************************************)
Find(r) ==
  /\ pc[r] = "find"
  /\ IF project[Name(r)] = NoProject THEN Over(r, "deleted")
     ELSE /\ proj' = [proj EXCEPT ![r] = project[Name(r)]]
          /\ pc' = [pc EXCEPT ![r] = "access"]
          /\ UNCHANGED <<at, left, tries, answer>>
  /\ UNCHANGED <<cloud, faults>>

\* A token for the project, from its user or from the administrator.
Access(r) ==
  /\ pc[r] = "access"
  /\ IF Alive(r) THEN Goto(r, "list", 1) ELSE Over(r, "error")
  /\ UNCHANGED <<cloud, faults>>

\* Nova lists with the token of the project, Neutron with the administrator's.
List(r) ==
  /\ pc[r] = "list"
  /\ IF at[r] = 1 /\ ~Alive(r) THEN Over(r, "error")
     ELSE /\ left' = [left EXCEPT ![r] = items[proj[r]] \cap Stage(at[r])]
          /\ pc' = [pc EXCEPT ![r] = "delete"]
          /\ UNCHANGED <<proj, at, tries, answer>>
  /\ UNCHANGED <<cloud, faults>>

\* 404 when it is gone, 409 for a subnet or a network that has ports.
Deletable(r, i) ==
  LET there == items[proj[r]]
  IN /\ i \in there
     /\ i \in Servers => Alive(r)
     /\ i \in {Net, Subnet} => there \cap Ports = {}

\* Deleting a server is only a request to Nova; a network takes its subnet along.
Delete(r) ==
  LET p == proj[r]
  IN /\ pc[r] = "delete"
     /\ \E i \in left[r] :
          \/ /\ Deletable(r, i)
             /\ IF i \in Servers
                THEN deleting' = [deleting EXCEPT ![p] = @ \cup {i}] /\ UNCHANGED items
                ELSE /\ items' = [items EXCEPT ![p] = @ \ (IF i = Net THEN {Net, Subnet} ELSE {i})]
                     /\ UNCHANGED deleting
             /\ Returned(r, /\ left' = [left EXCEPT ![r] = @ \ {i}]
                            /\ UNCHANGED <<pc, proj, at, tries, answer>>)
          \/ ~Deletable(r, i) /\ Over(r, "error") /\ UNCHANGED <<items, deleting, faults>>
     /\ UNCHANGED <<project, used, users, glance>>

Deleted(r) ==
  /\ pc[r] = "delete" /\ left[r] = {}
  /\ CASE at[r] = 1 -> Goto(r, "wait", 1)
       [] at[r] \in {2, 3} -> Goto(r, "list", at[r] + 1)
       [] at[r] = 4 -> Goto(r, "users", 4)
  /\ UNCHANGED <<cloud, faults>>

\* Up to 30 seconds for the servers to disappear, and on with or without them.
\* (WaitForever is the fault of a wait without that limit.)
WaitForever(r) ==
  /\ pc[r] = "wait" /\ items[proj[r]] \cap Servers = {}
  /\ Goto(r, "list", 2)
  /\ UNCHANGED <<cloud, faults>>

Wait(r) ==
  /\ pc[r] = "wait"
  /\ IF Alive(r) THEN Goto(r, "list", 2) ELSE Over(r, "error")
  /\ UNCHANGED <<cloud, faults>>

FindUser(r) ==
  /\ pc[r] = "users"
  /\ Goto(r, IF Name(r) \in users THEN "dropuser" ELSE "dropproject", 4)
  /\ UNCHANGED <<cloud, faults>>

DropUser(r) ==
  /\ pc[r] = "dropuser"
  /\ users' = users \ {Name(r)}
  /\ IF Name(r) \in users THEN Returned(r, Goto(r, "dropproject", 4))
     ELSE Over(r, "error") /\ UNCHANGED faults
  /\ UNCHANGED <<project, used, items, deleting, glance>>

DropProject(r) ==
  /\ pc[r] = "dropproject"
  /\ IF Alive(r)
     THEN /\ project' = [project EXCEPT ![Name(r)] = NoProject]
          /\ Returned(r, Over(r, "deleted"))
     ELSE Over(r, "error") /\ UNCHANGED <<project, faults>>
  /\ UNCHANGED <<used, users, items, deleting, glance>>
-----------------------------------------------------------------------------
(***************************************************************************)
(* upload_image and delete_image.                                          *)
(***************************************************************************)
\* From here on the upload knows the id of its image (at = 2).
CreateImage(r) ==
  /\ pc[r] = "image"
  /\ glance' = [glance EXCEPT ![ImageOf[r]] = "queued"]
  /\ Returned(r, Goto(r, "data", 2))
  /\ UNCHANGED slices

\* 404 when the image has been removed meanwhile.
SendData(r) ==
  /\ pc[r] = "data"
  /\ \/ /\ glance[ImageOf[r]] = "queued"
        /\ glance' = [glance EXCEPT ![ImageOf[r]] = "active"]
        /\ Returned(r, Answer(r, "uploaded"))
     \/ glance[ImageOf[r]] = "removed" /\ Refused(r) /\ UNCHANGED <<glance, faults>>
  /\ UNCHANGED slices

\* Both the clean-up of an upload, whose failure is only logged, and delete_image.
RemoveImage(r) ==
  /\ pc[r] \in {"cleanup", "remove"} /\ Sent(r)
  /\ \/ /\ glance[ImageOf[r]] # "removed"
        /\ glance' = [glance EXCEPT ![ImageOf[r]] = "removed"]
        /\ Returned(r, Answer(r, IF pc[r] = "remove" THEN "deleted" ELSE "failed"))
     \/ glance[ImageOf[r]] = "removed" /\ Refused(r) /\ UNCHANGED <<glance, faults>>
  /\ UNCHANGED slices
-----------------------------------------------------------------------------
\* Nova removes a server it was asked to delete; nothing says when.
NovaDeletes(p, i) ==
  /\ i \in deleting[p]
  /\ deleting' = [deleting EXCEPT ![p] = @ \ {i}]
  /\ items' = [items EXCEPT ![p] = @ \ {i}]
  /\ UNCHANGED <<project, used, users, glance, control, faults>>

Handle(r) ==
  \/ CreateProject(r) \/ CreateUser(r) \/ GetToken(r)
  \/ CreateItem(r) \/ CreatedAll(r) \/ Poll(r)
  \/ Find(r) \/ Access(r) \/ List(r) \/ Delete(r) \/ Deleted(r) \/ Wait(r)
  \/ FindUser(r) \/ DropUser(r) \/ DropProject(r)
  \/ CreateImage(r) \/ SendData(r) \/ RemoveImage(r)

Next ==
  \/ \E r \in Requests : Handle(r) \/ Fault(r)
  \/ \E p \in Projects, i \in Servers : NovaDeletes(p, i)

Spec == Init /\ [][Next]_vars

\* A handler runs to its answer: each call has a timeout, and Nova is not relied on.
FairSpec == Spec /\ \A r \in Requests : WF_vars(Handle(r))
-----------------------------------------------------------------------------
(***************************************************************************)
(* Properties.                                                             *)
(***************************************************************************)
\* Type invariant.  Only servers are left to Nova, and the rollback runs at
\* most twice (provision_slice and create_slice).
TypeOK ==
  /\ project \in [Names -> Projects \cup {NoProject}]
  /\ used \in Nat /\ users \subseteq Names
  /\ items \in [Projects -> SUBSET Items]
  /\ deleting \in [Projects -> SUBSET Servers] /\ \A p \in Projects : deleting[p] \subseteq items[p]
  /\ glance \in [Images -> {"none", "queued", "active", "removed"}]
  /\ pc \in [Requests -> Building \cup Sweeping \cup Imaging \cup {"done"}]
  /\ proj \in [Requests -> Projects \cup {NoProject}]
  /\ at \in [Requests -> 1..(2 * N + 3)]
  /\ left \in [Requests -> SUBSET Items]
  /\ tries \in [Requests -> 0..2]
  /\ answer \in [Requests -> {"none", "ready", "failed", "deleted", "uploaded", "error"}]
  /\ faults \subseteq Requests \X (0..2)

Namesakes(r) == {q \in Requests \ {r} : Op[q] \in {"create", "delete"} /\ NameOf[q] = NameOf[r]}

Whole(r) ==
  /\ Alive(r) /\ Name(r) \in users
  /\ items[proj[r]] = Items /\ deleting[proj[r]] = {}

\* A slice answered READY has its project, user and every resource, and keeps
\* them unless another request has come upon a project of that name.
ReadyIsWhole ==
  \A r \in Requests :
    answer[r] = "ready" => Whole(r) \/ \E q \in Namesakes(r) : proj[q] # NoProject

\* The sweep ended at a server that Nova had removed since it was listed.
Overtaken(r) == proj[r] # NoProject /\ at[r] = 1 /\ ~(left[r] \subseteq items[proj[r]])

\* The requests of the same name that have begun.
Rivals(r) == {q \in Namesakes(r) : pc[q] # Start(q)}

\* The rollback leaves no orphans (main.py create_slice): a creation that was not
\* answered READY, with no rival, leaves nothing but servers that Nova is deleting,
\* unless a fault hit both runs of its rollback.
NothingLeft ==
  \A r \in Requests :
    (/\ Op[r] = "create" /\ answer[r] = "failed"
     /\ Rivals(r) = {} /\ ~({<<r, 1>>, <<r, 2>>} \subseteq faults) /\ ~Overtaken(r))
       => /\ project[Name(r)] = NoProject /\ Name(r) \notin users
          /\ proj[r] # NoProject => items[proj[r]] = deleting[proj[r]]

\* Slices are created "de forma aislada" (main.py create_slice): a slice that was
\* answered READY is not taken apart by the creation of another.  Violated when
\* they have the same name: the rollback of the second finds the first's project.
ReadyStaysUp ==
  \A r \in Requests :
    (answer[r] = "ready" /\ \A q \in Namesakes(r) : Op[q] = "create") => Whole(r)

\* "Si la subida de datos falla, se elimina el registro de metadatos huérfano"
\* (orchestrator.py upload_image).  A failed upload leaves a record only when the
\* answer to its creation was lost, so that its id is not known, or when the
\* clean-up failed too; and an uploaded image is there until it is removed.
ImagesAreWhole ==
  \A r \in Requests : Op[r] = "upload" =>
    LET removed == \E q \in Requests : Op[q] = "remove" /\ ImageOf[q] = ImageOf[r] /\ pc[q] = "done"
    IN /\ (answer[r] = "failed" /\ at[r] = 2 /\ <<r, 1>> \notin faults) => glance[ImageOf[r]] = "removed"
       /\ answer[r] = "uploaded" => glance[ImageOf[r]] = "active" \/ removed

\* Every request is answered, whatever fails and even if Nova never deletes.
\* (What has been sent is final once the uploads are answered.)
EveryRequestAnswers == <>[](\A r \in Requests : Sent(r) => pc[r] = "done")
=============================================================================
