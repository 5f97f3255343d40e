------------------------------ MODULE Console ------------------------------
(***************************************************************************)
(* frontend: the single-page console.  One thread of JavaScript that the   *)
(* user's clicks, the answers of the gateway and a 20 ms timer interleave. *)
(*                                                                         *)
(* js/nav.js picks a view; each render function of js/views takes a number *)
(* (js/ui.js beginRender), blanks #content, asks the gateway and writes    *)
(* the answer unless a newer number has been taken (isStale).  The         *)
(* designer, js/views/designer.js, edits the topology of a slice: new ones *)
(* and stored drafts, which it loads from a timer and saves whole.         *)
(*                                                                         *)
(* Views that work alike are one: "slices" stands for every list of slices *)
(* and "images" for the views whose actions redraw themselves (images,     *)
(* users).  Left out: the internet node, images and flavors of VMs, and    *)
(* renaming, with which a user may give two VMs one name anyway.           *)
(***************************************************************************)
EXTENDS Naturals, Sequences, FiniteSets

CONSTANTS
  Drafts,       \* stored drafts that can be edited
  NoDraft,
  Original,     \* their topologies at the start
  MaxVmId,      \* bound on the VM ids of a design
  MaxLinks,     \* bound on its links
  MaxRenders,   \* bound on renders
  MaxRequests   \* bound on the clicks that send a request of their own

VmIds  == 1..MaxVmId

\* A topology as it travels has the names of its VMs, in order, and links between names.
Topologies == [vms : UNION {[1..n -> VmIds] : n \in 0..MaxVmId}, links : SUBSET (VmIds \X VmIds)]

ASSUME ConsoleAssumption ==
  /\ NoDraft \notin Drafts
  /\ MaxVmId \in Nat /\ MaxLinks \in Nat /\ MaxRenders \in Nat \ {0} /\ MaxRequests \in Nat
  /\ Original \in [Drafts -> Topologies]

VARIABLES
  view,      \* state.view
  seq,       \* state.renderSeq
  content,   \* what #content shows, why it was drawn and whether it has its data
  fetches,   \* renders that wait for the gateway
  requests,  \* the other requests under way
  timers,    \* what the pending timers will load: [of, data]
  td,        \* TD, the design
  stored,    \* the drafts at slice-manager
  clicks

vars == <<view, seq, content, fetches, requests, timers, td, stored, clicks>>

Views  == {"slices", "images", "new"}
Empty == [vms |-> <<>>, links |-> {}]

Blank(d) == [vms |-> <<>>, links |-> {}, next |-> 1, editing |-> d,
             loaded |-> NoDraft, gap |-> FALSE, saving |-> FALSE]

Drawn == content.of = "new"
Ids   == {td.vms[i].id : i \in DOMAIN td.vms}

\* isStale.  (NeverStale is the fault of a view that does not ask.)
NeverStale(f) == FALSE
Stale(f)      == f.seq # seq
-----------------------------------------------------------------------------
(***************************************************************************)
(* Renders.  beginRender returns the new number.                           *)
(***************************************************************************)
\* (Postfix is the fault of returning the number before it is incremented.)
Postfix   == seq
NewNumber == seq + 1

\* The code keeps TD, which nothing reads until a new design replaces it.
RenderList(v, by) ==
  /\ seq' = seq + 1
  /\ content' = [of |-> v, by |-> by, shown |-> FALSE]
  /\ fetches' = fetches \cup {[of |-> v, by |-> by, seq |-> NewNumber]}
  /\ td' = Blank(NoDraft)
  /\ UNCHANGED timers

\* renderNewSlice: a fresh design, to be loaded when the timer fires.
\* (KeepNumber is the fault of leaving the fetches of the old view valid.)
DrawDesigner(d, data, by) ==
  /\ content' = [of |-> "new", by |-> by, shown |-> TRUE]
  /\ td' = Blank(d)
  /\ timers' = Append(timers, [of |-> d, data |-> data])
  /\ UNCHANGED fetches

KeepNumber(d, data, by) == DrawDesigner(d, data, by) /\ UNCHANGED seq

RenderNewSlice(d, data, by) == DrawDesigner(d, data, by) /\ seq' = seq + 1

Render(v, by) ==
  /\ seq < MaxRenders
  /\ IF v = "new" THEN RenderNewSlice(NoDraft, Empty, by) ELSE RenderList(v, by)
-----------------------------------------------------------------------------
Init ==
  /\ view = "slices" /\ seq = 1
  /\ content = [of |-> "slices", by |-> "user", shown |-> FALSE]
  /\ fetches = {[of |-> "slices", by |-> "user", seq |-> 1]}
  /\ requests = {} /\ timers = <<>>
  /\ td = Blank(NoDraft)
  /\ stored = Original
  /\ clicks = 0

\* The user picks a view.
Navigate(v) ==
  /\ view' = v
  /\ Render(v, "user")
  /\ UNCHANGED <<requests, stored, clicks>>

\* The gateway answers a render, with data or an error; both are written.
Answered(f) ==
  /\ f \in fetches
  /\ fetches' = fetches \ {f}
  /\ content' = IF Stale(f) THEN content ELSE [of |-> f.of, by |-> f.by, shown |-> TRUE]
  /\ UNCHANGED <<view, seq, requests, timers, td, stored, clicks>>

Click(r) ==
  /\ clicks < MaxRequests
  /\ clicks' = clicks + 1
  /\ requests' = requests \cup {[r EXCEPT !.no = clicks + 1]}
  /\ UNCHANGED <<view, seq, content, fetches, timers, stored>>

Request(kind, d, data) ==
  [no |-> 0, kind |-> kind, from |-> seq, draft |-> d, served |-> FALSE, data |-> data]

\* approve, reject, delete, deploy or import, from a list of slices; upload or
\* delete an image, create a user.
Act ==
  /\ content.shown /\ ~Drawn
  /\ Click(Request(content.of, NoDraft, Empty))
  /\ UNCHANGED td

\* editSlice asks for the draft before it opens the designer.
EditSlice(d) ==
  /\ content.of = "slices" /\ content.shown
  /\ Click(Request("edit", d, Empty))
  /\ UNCHANGED td

\* slice-manager serves an edit or a save.
Serve(r) ==
  /\ r \in requests /\ ~r.served /\ r.kind \in {"edit", "save"}
  /\ LET d == r.draft
         answer == [r EXCEPT !.served = TRUE, !.data = IF r.kind = "edit" THEN stored[d] ELSE Empty]
     IN /\ requests' = (requests \ {r}) \cup {answer}
        /\ stored' = IF r.kind = "save" /\ d \in Drafts THEN [stored EXCEPT ![d] = r.data] ELSE stored
  /\ UNCHANGED <<view, seq, content, fetches, timers, td, clicks>>

\* The answer of a request.  Actions on slices draw the current view again, those
\* of images and users their own; a save goes to the list of slices.
Succeeds(r) ==
  /\ r \in requests
  /\ \/ /\ r.kind = "slices"
        /\ Render(view, "action") /\ UNCHANGED view
     \/ /\ r.kind = "images"
        /\ Render("images", "image") /\ UNCHANGED view
     \/ /\ r.kind = "edit" /\ r.served /\ seq < MaxRenders
        /\ view' = "new"
        /\ RenderNewSlice(r.draft, r.data, "edit")
     \/ /\ r.kind = "save" /\ r.served
        /\ view' = "slices"
        /\ Render("slices", "save")
  /\ requests' = requests \ {r}
  /\ UNCHANGED <<stored, clicks>>

\* An error, also when the request was served, only leaves a message; the button
\* of a save works again if its design is still on screen.
FailsWith(r) ==
  /\ r \in requests
  /\ requests' = requests \ {r}
  /\ td' = IF r.kind = "save" /\ r.from = seq THEN [td EXCEPT !.saving = FALSE] ELSE td
  /\ UNCHANGED <<view, seq, content, fetches, timers, stored, clicks>>
-----------------------------------------------------------------------------
(***************************************************************************)
(* The designer.                                                           *)
(***************************************************************************)
Edit(design) == td' = design /\ UNCHANGED <<view, seq, content, fetches, requests, timers, stored, clicks>>

\* What the name of a VM stands for: nameToId keeps the last VM of that name, and
\* so does slice-manager when it resolves the ends of a link.
Named(vms, name) == CHOOSE i \in DOMAIN vms : vms[i] = name /\ \A j \in DOMAIN vms : vms[j] = name => j <= i

\* A link with an end of no VM's name is dropped.
Kept(t) == {l \in t.links : {l[1], l[2]} \subseteq {t.vms[i] : i \in DOMAIN t.vms}}

\* tdLoadFromExport numbers the VMs from 1 and keeps their names.
Load(t, d) ==
  [td EXCEPT !.vms = [i \in DOMAIN t.vms |-> [id |-> i, name |-> t.vms[i]]],
             !.links = {<<Named(t.vms, l[1]), Named(t.vms, l[2])>> : l \in Kept(t)},
             !.next = Len(t.vms) + 1,
             !.loaded = d,
             !.gap = t.vms # [i \in DOMAIN t.vms |-> i]]

\* tdInitCanvas, on the canvas that is there when the timer fires.
\* (LoadOnce is the fault of not replacing what the design has.)
LoadOnce(t, d) == IF td.vms = <<>> THEN Load(t, d) ELSE td

Loaded(t, d) == Load(t, d)

TimerFires ==
  /\ timers # <<>>
  /\ timers' = Tail(timers)
  /\ LET t == Head(timers)
     IN td' = IF Drawn /\ t.of # NoDraft THEN Loaded(t.data, t.of) ELSE td
  /\ UNCHANGED <<view, seq, content, fetches, requests, stored, clicks>>

\* The canvas has its listeners once the timers have fired; nobody is quicker.
Editable == Drawn /\ timers = <<>>

\* tdAddVM.  (CountName is the fault of naming a VM by how many there are.)
CountName(id) == Len(td.vms) + 1
NewName(id)   == id

NewVM(id) == [id |-> id, name |-> NewName(id)]

Adding(n, links) ==
  [td EXCEPT !.vms = @ \o [i \in 1..n |-> NewVM(td.next + (i - 1))],
             !.links = @ \cup links, !.next = @ + n]

AddVM == Editable /\ td.next <= MaxVmId /\ Edit(Adding(1, {}))

\* The links of a template over n new VMs, numbered from 0.
Shape(kind, n) ==
  CASE kind = "line" -> {<<i - 1, i>> : i \in 1..(n - 1)}
    [] kind = "ring" -> {<<i, (i + 1) % n>> : i \in 0..(n - 1)}
    [] kind = "star" -> {<<0, i>> : i \in 1..(n - 1)}

\* tdApplyTemplate adds a template to what has been drawn.
ApplyTemplate(kind, n) ==
  LET id(i) == td.next + i
      drawn == {<<id(l[1]), id(l[2])>> : l \in Shape(kind, n)}
  IN /\ Editable /\ n >= (IF kind = "line" THEN 2 ELSE 3)
     /\ id(n) - 1 <= MaxVmId /\ Cardinality(td.links \cup drawn) <= MaxLinks
     /\ Edit(Adding(n, drawn))

Connect(a, b) ==
  /\ Editable /\ a \in Ids /\ b \in Ids \ {a}
  /\ {<<a, b>>, <<b, a>>} \cap td.links = {} /\ Cardinality(td.links) < MaxLinks
  /\ Edit([td EXCEPT !.links = @ \cup {<<a, b>>}])

Place(a)  == CHOOSE i \in DOMAIN td.vms : td.vms[i].id = a
NameOf(a) == td.vms[Place(a)].name

\* tdDeleteSelected: there is one VM of that id.  (KeepLinks is the fault of leaving
\* the links of a VM.)
KeepLinks(a) == td.links
LinksWithout(a) == {l \in td.links : a \notin {l[1], l[2]}}

DeleteVM(a) ==
  /\ Editable /\ a \in Ids
  /\ Edit([td EXCEPT !.vms = SubSeq(@, 1, Place(a) - 1) \o SubSeq(@, Place(a) + 1, Len(@)),
                       !.links = LinksWithout(a)])

DeleteLink(l) ==
  /\ Editable /\ l \in td.links
  /\ Edit([td EXCEPT !.links = @ \ {l}])

\* tdSubmit sends names of VMs, in order, and links between names.
\* (PayloadOfIds is the fault of sending the ids of the ends of a link.)
PayloadOfIds == [vms |-> [i \in DOMAIN td.vms |-> td.vms[i].name], links |-> td.links]

Payload ==
  [vms   |-> [i \in DOMAIN td.vms |-> td.vms[i].name],
   links |-> {<<NameOf(l[1]), NameOf(l[2])>> : l \in td.links}]

\* tdSubmit: a new slice, the draft being edited, or a copy of it.  Only the
\* button of a copy stays enabled.
Submit(d) ==
  /\ Editable /\ td.vms # <<>> /\ td.links # {}
  /\ d \in {td.editing, NoDraft} /\ (d = td.editing => ~td.saving)
  /\ Click(Request("save", d, Payload))
  /\ td' = [td EXCEPT !.saving = TRUE]
-----------------------------------------------------------------------------
Gateway == \/ \E f \in fetches : Answered(f)
           \/ \E r \in requests : Serve(r) \/ Succeeds(r) \/ FailsWith(r)

User == \/ \E v \in Views : Navigate(v)
        \/ Act
        \/ \E d \in Drafts : EditSlice(d)
        \/ AddVM
        \/ \E kind \in {"line", "ring", "star"}, n \in 2..MaxVmId : ApplyTemplate(kind, n)
        \/ \E a, b \in VmIds : Connect(a, b)
        \/ \E a \in VmIds : DeleteVM(a)
        \/ \E l \in td.links : DeleteLink(l)
        \/ \E d \in Drafts \cup {NoDraft} : Submit(d)

Next == Gateway \/ User \/ TimerFires

Spec == Init /\ [][Next]_vars
-----------------------------------------------------------------------------
(***************************************************************************)
(* Properties.                                                             *)
(***************************************************************************)
\* Type invariant.  Ids in a design are unique and its links have their ends.
TypeOK ==
  /\ view \in Views /\ seq \in 1..MaxRenders /\ clicks \in 0..MaxRequests
  /\ content \in [of : Views, by : {"user", "action", "image", "edit", "save"}, shown : BOOLEAN]
  /\ \A f \in fetches : f.of \in Views \ {"new"} /\ f.seq \in 1..seq
  /\ \A r \in requests : r.kind \in {"slices", "images", "edit", "save"} /\ r.data \in Topologies
  /\ \A i \in DOMAIN timers : timers[i].data \in Topologies
  /\ stored \in [Drafts -> Topologies]
  /\ \A i, j \in DOMAIN td.vms : td.vms[i].id = td.vms[j].id => i = j
  /\ Ids \subseteq 1..(td.next - 1)
  /\ td.links \subseteq Ids \X Ids

\* "si el usuario navega antes de que termine su fetch ... la vista vieja no debe
\* escribir sobre la nueva" (ui.js): #content shows state.view, except when an
\* action on images or users has drawn its own view over another.
ShowsItsView == content.of = view \/ content.by = "image"

\* A view that says it is loading has a fetch whose answer will be written.
LoadingEnds == ~content.shown => \E f \in fetches : f.of = content.of /\ f.seq = seq

\* Late data never takes the designer off the screen: only a new render does,
\* chosen by the user or following a request of theirs.
DesignKept == [][Drawn /\ content'.of # "new" => seq' > seq]_vars

\* A design that edits a draft was loaded from that draft, so that saving never
\* writes the topology of one draft over another.
EditsItsDraft == Editable /\ td.editing # NoDraft => td.loaded = td.editing

Clash == \E i, j \in DOMAIN td.vms : i # j /\ td.vms[i].name = td.vms[j].name

\* Links travel by name (tdSubmit), so names must not coincide.  They do only in
\* a design loaded from a draft whose names are not 1..n: one from which a VM was
\* deleted before it was saved.
ClashOnlyAfterGap == Clash => td.gap

\* What a design saves is, loaded again, the topology that was drawn.
RoundTrip ==
  ~Clash => LET again == Load(Payload, td.editing)
            IN /\ [i \in DOMAIN again.vms |-> again.vms[i].name] = Payload.vms
               /\ again.links = {<<Place(l[1]), Place(l[2])>> : l \in td.links}
=============================================================================
