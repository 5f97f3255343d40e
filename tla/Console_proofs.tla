--------------------------- MODULE Console_proofs ---------------------------
(***************************************************************************)
(* The console shows what the user asked for last, whatever answers are    *)
(* late, a design that edits a draft was loaded from it, and what a design *)
(* saves is what was drawn: for any drafts, designs, renders and requests. *)
(***************************************************************************)
EXTENDS Console, SequenceTheorems, WellFoundedInduction, TLAPS

\* A fetch that is not stale is the one of the view on screen: numbers grow, and
\* each is given to one render.
Numbered ==
  /\ seq \in Nat
  /\ \A f \in fetches : /\ f.seq \in Nat /\ f.seq <= seq /\ f.of # "new"
                        /\ f.seq = seq => f.of = content.of /\ f.by = content.by

\* Whoever draws, the new number is one that no fetch has.
LEMMA RenderNumbers ==
  ASSUME Numbered, NEW v, NEW by, Render(v, by)
  PROVE  /\ Numbered' /\ seq' = seq + 1 /\ content'.of = v /\ content'.by = by
         /\ LoadingEnds'
<1>1. CASE v = "new"
  BY <1>1 DEF Render, RenderNewSlice, DrawDesigner, Numbered, LoadingEnds
<1>2. CASE v # "new"
  <2>1. RenderList(v, by)
    BY <1>2 DEF Render
  <2>2. /\ seq' = seq + 1
        /\ content' = [of |-> v, by |-> by, shown |-> FALSE]
        /\ fetches' = fetches \cup {[of |-> v, by |-> by, seq |-> seq + 1]}
    BY <2>1 DEF RenderList, NewNumber
  <2> DEFINE new == [of |-> v, by |-> by, seq |-> seq + 1]
  <2>3. new.of = v /\ new.by = by /\ new.seq = seq + 1 /\ new \in fetches'
    BY <2>2
  <2>4. content'.of = v /\ content'.by = by /\ LoadingEnds'
    BY <2>2, <2>3 DEF LoadingEnds
  <2>5. Numbered'
    <3>1. ASSUME NEW f \in fetches PROVE f.seq <= seq + 1 /\ f.seq # seq + 1
      BY DEF Numbered
    <3>2. seq + 1 \in Nat /\ \A f \in fetches' : f \in fetches \/ f = new
      BY <2>2 DEF Numbered
    <3> HIDE DEF new
    <3> QED
      BY <1>2, <2>2, <2>3, <2>4, <3>1, <3>2 DEF Numbered
  <2> QED
    BY <2>2, <2>4, <2>5
<1> QED
  BY <1>1, <1>2

LEMMA DesignerNumbers ==
  ASSUME Numbered, NEW d, NEW data, NEW by, RenderNewSlice(d, data, by)
  PROVE  /\ Numbered' /\ seq' = seq + 1 /\ content'.of = "new" /\ content'.by = by
         /\ LoadingEnds'
BY DEF RenderNewSlice, DrawDesigner, Numbered, LoadingEnds

ScreenInv == Numbered /\ ShowsItsView /\ LoadingEnds

LEMMA ScreenInit == Init => ScreenInv
BY DEF Init, ScreenInv, Numbered, ShowsItsView, LoadingEnds

\* What a step does to the screen: a render, an answer, or nothing.
LEMMA ScreenAnswered ==
  ASSUME ScreenInv, NEW f \in fetches, Answered(f)
  PROVE  ScreenInv' /\ (Drawn => content'.of = "new")
<1>1. CASE Stale(f)
  BY <1>1 DEF Answered, ScreenInv, Numbered, ShowsItsView, LoadingEnds, Stale, Drawn
<1>2. CASE ~Stale(f)
  <2>1. f.seq = seq /\ f.of = content.of /\ f.by = content.by
    BY <1>2 DEF Stale, ScreenInv, Numbered
  <2>2. content' = [of |-> f.of, by |-> f.by, shown |-> TRUE]
    BY <1>2 DEF Answered
  <2> QED
    BY <2>1, <2>2 DEF Answered, ScreenInv, Numbered, ShowsItsView, LoadingEnds, Drawn
<1> QED
  BY <1>1, <1>2

LEMMA ScreenSucceeds ==
  ASSUME ScreenInv, NEW r \in requests, Succeeds(r)
  PROVE  ScreenInv' /\ seq' > seq
<1> USE DEF ScreenInv
<1>1. CASE r.kind = "slices" /\ Render(view, "action") /\ UNCHANGED view
  BY <1>1, RenderNumbers DEF Numbered, ShowsItsView
<1>2. CASE r.kind = "images" /\ Render("images", "image") /\ UNCHANGED view
  BY <1>2, RenderNumbers DEF Numbered, ShowsItsView
<1>3. CASE view' = "new" /\ RenderNewSlice(r.draft, r.data, "edit")
  BY <1>3, DesignerNumbers DEF Numbered, ShowsItsView
<1>4. CASE view' = "slices" /\ Render("slices", "save")
  BY <1>4, RenderNumbers DEF Numbered, ShowsItsView
<1> QED
  BY <1>1, <1>2, <1>3, <1>4 DEF Succeeds

screen == <<view, seq, content, fetches>>

LEMMA ScreenStutters ==
  ASSUME ScreenInv, UNCHANGED screen
  PROVE  ScreenInv' /\ (Drawn => content'.of = "new")
BY DEF ScreenInv, Numbered, ShowsItsView, LoadingEnds, screen, Drawn

\* Every step, with what it must not do to a design on screen.
LEMMA ScreenNext ==
  ScreenInv /\ [Next]_vars => ScreenInv' /\ (Drawn /\ content'.of # "new" => seq' > seq)
<1> SUFFICES ASSUME ScreenInv, [Next]_vars
             PROVE  ScreenInv' /\ (Drawn /\ content'.of # "new" => seq' > seq)
  OBVIOUS
<1>1. ASSUME NEW f \in fetches, Answered(f)
      PROVE  ScreenInv' /\ (Drawn => content'.of = "new")
  BY <1>1, ScreenAnswered
<1>2. ASSUME NEW r \in requests, Succeeds(r)
      PROVE  ScreenInv' /\ seq' > seq
  BY <1>2, ScreenSucceeds
<1>3. ASSUME NEW v \in Views, Navigate(v)
      PROVE  ScreenInv' /\ seq' > seq
  <2>1. Render(v, "user") /\ view' = v
    BY <1>3 DEF Navigate
  <2> QED
    BY <2>1, RenderNumbers DEF ScreenInv, Numbered, ShowsItsView
<1>4. ASSUME NEW r \in requests, Serve(r) \/ FailsWith(r) PROVE UNCHANGED screen
  BY <1>4 DEF Serve, FailsWith, screen
<1>5. CASE Act \/ \E d \in Drafts : EditSlice(d)
  BY <1>5, ScreenStutters DEF Act, EditSlice, Click, screen
<1>6. CASE TimerFires
  BY <1>6, ScreenStutters DEF TimerFires, screen
<1>7. CASE \E d \in Drafts \cup {NoDraft} : Submit(d)
  BY <1>7, ScreenStutters DEF Submit, Click, screen
<1>8. CASE \/ AddVM
           \/ \E kind \in {"line", "ring", "star"}, n \in 2..MaxVmId : ApplyTemplate(kind, n)
           \/ \E a, b \in VmIds : Connect(a, b)
           \/ \E a \in VmIds : DeleteVM(a)
           \/ \E l \in td.links : DeleteLink(l)
  <2>1. UNCHANGED screen
    BY <1>8 DEF AddVM, ApplyTemplate, Connect, DeleteVM, DeleteLink, Edit, screen
  <2> QED
    BY <2>1, ScreenStutters
<1>9. CASE UNCHANGED vars
  BY <1>9, ScreenStutters DEF vars, screen
<1> QED
  BY <1>1, <1>2, <1>3, <1>4, <1>5, <1>6, <1>7, <1>8, <1>9, ScreenStutters
  DEF Next, Gateway, User

LEMMA Screen == Spec => []ScreenInv
BY ScreenInit, ScreenNext, PTL DEF Spec

\* #content shows the view the user is in, whatever answers come late; only the
\* actions on images and users draw over another view.
THEOREM ViewShown == Spec => []ShowsItsView
<1>1. ScreenInv => ShowsItsView
  BY DEF ScreenInv
<1> QED
  BY <1>1, Screen, PTL

\* A view that says it is loading waits for an answer that will be written.
THEOREM LoadingAwaits == Spec => []LoadingEnds
<1>1. ScreenInv => LoadingEnds
  BY DEF ScreenInv
<1> QED
  BY <1>1, Screen, PTL

\* No late answer takes the designer off the screen.
THEOREM DesignStays == Spec => DesignKept
<1>1. ScreenInv /\ [Next]_vars => [Drawn /\ content'.of # "new" => seq' > seq]_vars
  BY ScreenNext
<1> QED
  BY <1>1, Screen, PTL DEF Spec, DesignKept
-----------------------------------------------------------------------------
(***************************************************************************)
(* The designer.                                                           *)
(***************************************************************************)
Vm      == [id : VmIds, name : VmIds]
Owners  == Drafts \cup {NoDraft}
Designs == [vms : Seq(Vm), links : SUBSET (VmIds \X VmIds), next : 1..(MaxVmId + 1),
            editing : Owners, loaded : Owners, gap : BOOLEAN, saving : BOOLEAN]

\* A design whose VMs have distinct ids, whose links have their ends, and whose
\* names are the ids unless it was loaded from names with a gap.
Sound(t) ==
  /\ t \in Designs
  /\ Len(t.vms) < t.next
  /\ \A i \in DOMAIN t.vms : t.vms[i].id < t.next
  /\ \A i, j \in DOMAIN t.vms : t.vms[i].id = t.vms[j].id => i = j
  /\ \A l \in t.links : \E i, j \in DOMAIN t.vms : l = <<t.vms[i].id, t.vms[j].id>>
  /\ ~t.gap => \A i \in DOMAIN t.vms : t.vms[i].name = t.vms[i].id

RequestType ==
  [no : Nat, kind : {"slices", "images", "edit", "save"}, from : Nat,
   draft : Owners, served : BOOLEAN, data : Topologies]

\* What travels, and what waits.
TravelOK ==
  /\ stored \in [Drafts -> Topologies]
  /\ \A r \in requests : r \in RequestType /\ (r.kind = "edit" => r.draft \in Drafts)
  /\ timers \in Seq([of : Owners, data : Topologies])

\* A design that edits a draft has its topology, or the last timer will load it.
Loading ==
  Drawn /\ td.editing # NoDraft =>
    IF timers = <<>> THEN td.loaded = td.editing ELSE timers[Len(timers)].of = td.editing

DesignInv == TravelOK /\ Sound(td) /\ Loading

LEMMA TopologyVms ==
  ASSUME NEW t \in Topologies
  PROVE  /\ t.vms \in Seq(VmIds) /\ Len(t.vms) \in 0..MaxVmId /\ DOMAIN t.vms = 1..Len(t.vms)
         /\ t.links \subseteq VmIds \X VmIds
<1> USE ConsoleAssumption
<1>1. PICK n \in 0..MaxVmId : t.vms \in [1..n -> VmIds]
  BY DEF Topologies
<1> QED
  BY <1>1 DEF Topologies

LEMMA IsTopology ==
  ASSUME NEW v \in Seq(VmIds), Len(v) <= MaxVmId, NEW l \in SUBSET (VmIds \X VmIds)
  PROVE  [vms |-> v, links |-> l] \in Topologies
<1>1. v \in [1..Len(v) -> VmIds] /\ Len(v) \in 0..MaxVmId
  BY ConsoleAssumption
<1>2. v \in UNION {[1..n -> VmIds] : n \in 0..MaxVmId}
  BY <1>1
<1> QED
  BY <1>2 DEF Topologies

LEMMA EmptyTravels == Empty \in Topologies
<1>1. <<>> \in Seq(VmIds) /\ Len(<<>>) <= MaxVmId
  BY ConsoleAssumption
<1> QED
  BY <1>1, IsTopology DEF Empty

\* A name that some VM has stands for one of them: the last.
LEMMA NamedExists ==
  ASSUME NEW v \in Seq(VmIds), NEW i \in DOMAIN v
  PROVE  Named(v, v[i]) \in DOMAIN v /\ v[Named(v, v[i])] = v[i]
<1> DEFINE less == OpToRel(<, Nat)
           T == {k \in 0..Len(v) : Len(v) - k \in DOMAIN v /\ v[Len(v) - k] = v[i]}
<1>1. Len(v) \in Nat /\ DOMAIN v = 1..Len(v)
  OBVIOUS
<1>2. Len(v) - i \in T
  BY <1>1
<1>3. T \subseteq Nat /\ T # {}
  BY <1>1, <1>2
<1>4. PICK k \in T : \A m \in T : <<m, k>> \notin less
  BY <1>3, NatLessThanWellFounded, WFMin
<1>5. \A m \in T : ~(m < k)
  BY <1>3, <1>4 DEF OpToRel
<1> DEFINE last == Len(v) - k
<1>6. last \in DOMAIN v /\ v[last] = v[i]
  BY <1>4
<1>7. ASSUME NEW j \in DOMAIN v, v[j] = v[i] PROVE j <= last
  <2>1. Len(v) - j \in T
    BY <1>1, <1>7
  <2> QED
    BY <1>1, <1>5, <2>1
<1> QED
  BY <1>6, <1>7 DEF Named

\* Loading a topology gives a sound design.
LEMMA LoadSound ==
  ASSUME Sound(td), NEW t \in Topologies, NEW d \in Owners
  PROVE  Sound(Load(t, d)) /\ Load(t, d).editing = td.editing /\ Load(t, d).loaded = d
<1> USE ConsoleAssumption
<1> DEFINE new == Load(t, d)
           links == {<<Named(t.vms, l[1]), Named(t.vms, l[2])>> : l \in Kept(t)}
<1>1. /\ t.vms \in Seq(VmIds) /\ Len(t.vms) \in 0..MaxVmId /\ DOMAIN t.vms = 1..Len(t.vms)
      /\ t.links \subseteq VmIds \X VmIds
  BY TopologyVms
<1>2. /\ new.vms = [i \in DOMAIN t.vms |-> [id |-> i, name |-> t.vms[i]]]
      /\ new.links = links /\ new.next = Len(t.vms) + 1
      /\ new.loaded = d /\ new.gap = (t.vms # [i \in DOMAIN t.vms |-> i])
      /\ new.editing = td.editing /\ new.saving = td.saving
  BY DEF Sound, Designs, Load
<1>3. new.vms \in Seq(Vm) /\ Len(new.vms) = Len(t.vms) /\ DOMAIN new.vms = 1..Len(t.vms)
  BY <1>1, <1>2 DEF Vm, VmIds
<1>4. ASSUME NEW l \in Kept(t)
      PROVE  Named(t.vms, l[1]) \in DOMAIN t.vms /\ Named(t.vms, l[2]) \in DOMAIN t.vms
  <2>1. PICK i \in DOMAIN t.vms, j \in DOMAIN t.vms : l[1] = t.vms[i] /\ l[2] = t.vms[j]
    BY <1>4 DEF Kept
  <2> QED
    BY <1>1, <2>1, NamedExists
<1>5. ASSUME NEW l \in links
      PROVE  \E i, j \in DOMAIN new.vms : l = <<new.vms[i].id, new.vms[j].id>>
  BY <1>1, <1>2, <1>3, <1>4
<1>6. links \subseteq VmIds \X VmIds
  BY <1>1, <1>4 DEF VmIds
<1>7. new \in Designs
  <2>1. new.vms \in Seq(Vm) /\ links \in SUBSET (VmIds \X VmIds) /\ new.next \in 1..(MaxVmId + 1)
    BY <1>1, <1>2, <1>3, <1>6
  <2>2. new = [td EXCEPT !.vms = new.vms, !.links = links, !.next = new.next, !.loaded = d,
                         !.gap = new.gap]
    BY <1>2 DEF Load
  <2>3. new.gap \in BOOLEAN
    BY <1>2
  <2> DEFINE vms == new.vms
             next == new.next
             gap == new.gap
  <2>4. [td EXCEPT !.vms = vms, !.links = links, !.next = next, !.loaded = d, !.gap = gap] \in Designs
    <3> HIDE DEF new, links, vms, next, gap
    <3> QED
      BY <2>1, <2>3 DEF Sound, Designs, vms, next, gap
  <2> QED
    BY <2>2, <2>4
<1>8. ~new.gap => \A i \in DOMAIN new.vms : new.vms[i].name = new.vms[i].id
  <2>1. SUFFICES ASSUME ~new.gap, NEW i \in DOMAIN new.vms PROVE new.vms[i].name = new.vms[i].id
    OBVIOUS
  <2>2. t.vms = [k \in DOMAIN t.vms |-> k]
    BY <1>2, <2>1
  <2>3. i \in DOMAIN t.vms
    BY <1>1, <1>3, <2>1
  <2>4. t.vms[i] = i
    BY <2>2, <2>3
  <2> QED
    BY <1>2, <2>3, <2>4
<1>9. /\ Len(new.vms) < new.next
      /\ \A i \in DOMAIN new.vms : new.vms[i].id < new.next
      /\ \A i, j \in DOMAIN new.vms : new.vms[i].id = new.vms[j].id => i = j
  BY <1>1, <1>2, <1>3
<1> HIDE DEF new, links
<1> QED
  BY <1>2, <1>5, <1>7, <1>8, <1>9 DEF Sound, new

LEMMA BlankSound ==
  ASSUME NEW d \in Owners
  PROVE  Sound(Blank(d)) /\ Blank(d).editing = d
<1>1. <<>> \in Seq(Vm) /\ Len(<<>>) = 0 /\ DOMAIN <<>> = {}
  OBVIOUS
<1> QED
  BY <1>1, ConsoleAssumption DEF Sound, Blank, Designs, Owners

LEMMA DesignInit == Init => DesignInv
<1> SUFFICES ASSUME Init PROVE DesignInv
  OBVIOUS
<1>1. Sound(td)
  BY BlankSound DEF Init, Owners
<1>2. TravelOK
  BY ConsoleAssumption DEF Init, TravelOK
<1>3. Loading
  BY DEF Init, Loading, Drawn
<1> QED
  BY <1>1, <1>2, <1>3 DEF DesignInv

design == <<content, td, timers>>

LEMMA DesignStutters ==
  ASSUME Sound(td) /\ Loading, UNCHANGED design PROVE Sound(td)' /\ Loading'
BY DEF design, Loading, Drawn, Sound

\* Drawing the designer starts from nothing, with a load to come.
LEMMA DesignerDrawn ==
  ASSUME TravelOK, NEW d \in Owners, NEW data \in Topologies, NEW by, DrawDesigner(d, data, by)
  PROVE  Sound(td)' /\ Loading' /\ timers' \in Seq([of : Owners, data : Topologies])
<1> DEFINE t == [of |-> d, data |-> data]
<1>1. td' = Blank(d) /\ timers' = Append(timers, t)
  BY DEF DrawDesigner
<1>2. t \in [of : Owners, data : Topologies] /\ t.of = d
  OBVIOUS
<1>3. /\ timers' \in Seq([of : Owners, data : Topologies])
      /\ timers' # <<>> /\ timers'[Len(timers')] = t
  <2> HIDE DEF t
  <2>1. Len(timers) \in Nat
    BY DEF TravelOK
  <2> QED
    BY <1>1, <1>2, <2>1, AppendProperties DEF TravelOK
<1>4. Sound(td')
  BY <1>1, BlankSound
<1> QED
  BY <1>1, <1>2, <1>3, <1>4, BlankSound DEF Loading, Sound

LEMMA Drawing ==
  ASSUME TravelOK, NEW v, NEW by, Render(v, by)
  PROVE  Sound(td)' /\ Loading' /\ timers' \in Seq([of : Owners, data : Topologies])
<1>1. CASE v = "new"
  BY <1>1, DesignerDrawn, EmptyTravels DEF Render, RenderNewSlice, Owners
<1>2. CASE v # "new"
  <2>1. td' = Blank(NoDraft) /\ timers' = timers /\ content'.of = v
    BY <1>2 DEF Render, RenderList
  <2>2. Sound(td')
    BY <2>1, BlankSound DEF Owners
  <2> QED
    BY <1>2, <2>1, <2>2 DEF TravelOK, Loading, Drawn, Sound
<1> QED
  BY <1>1, <1>2

LEMMA DesignTimer ==
  ASSUME DesignInv, TimerFires
  PROVE  DesignInv'
<1> DEFINE W == [of : Owners, data : Topologies]
           t == Head(timers)
<1> USE DEF DesignInv
<1>1. timers # <<>> /\ timers \in Seq(W) /\ timers' = Tail(timers)
  BY DEF TimerFires, TravelOK
<1>2. /\ t \in W /\ timers' \in Seq(W) /\ Len(timers') = Len(timers) - 1
      /\ \A i \in 1..Len(timers') : timers'[i] = timers[i + 1]
      /\ Len(timers) \in Nat \ {0} /\ t = timers[1]
  <2>1. Len(timers) \in Nat \ {0} /\ t = timers[1]
    BY <1>1
  <2> QED
    BY <1>1, <2>1, HeadTailProperties
<1>3. TravelOK'
  BY <1>1, <1>2 DEF TravelOK, TimerFires
<1>4. CASE Drawn /\ t.of # NoDraft
  <2>1. td' = Load(t.data, t.of)
    BY <1>4 DEF TimerFires, Loaded
  <2>2. Sound(td') /\ td'.editing = td.editing /\ td'.loaded = t.of
    BY <1>2, <2>1, LoadSound
  <2>3. Loading'
    <3>1. CASE Len(timers) = 1
      BY <1>1, <1>2, <2>2, <3>1 DEF Loading, Drawn, TimerFires
    <3>2. CASE Len(timers) > 1
      <4>1. timers' # <<>> /\ timers'[Len(timers')] = timers[Len(timers)]
        BY <1>2, <3>2
      <4> QED
        BY <1>1, <2>2, <4>1 DEF Loading, Drawn, TimerFires
    <3> QED
      BY <1>2, <3>1, <3>2
  <2> QED
    BY <1>3, <2>2, <2>3 DEF Sound
<1>5. CASE ~(Drawn /\ t.of # NoDraft)
  <2>1. td' = td /\ content' = content
    BY <1>5 DEF TimerFires
  <2>2. Sound(td)'
    BY <2>1 DEF Sound
  <2>3. Loading'
    <3>1. CASE Len(timers) = 1
      BY <1>1, <1>2, <1>5, <2>1, <3>1 DEF Loading, Drawn
    <3>2. CASE Len(timers) > 1
      <4>1. timers' # <<>> /\ timers'[Len(timers')] = timers[Len(timers)]
        BY <1>2, <3>2
      <4> QED
        BY <1>1, <2>1, <4>1 DEF Loading, Drawn
    <3> QED
      BY <1>2, <3>1, <3>2
  <2> QED
    BY <1>3, <2>2, <2>3
<1> QED
  BY <1>4, <1>5

\* Numbers from q on, after p smaller ones, are distinct and all there.
Continued(id, p, q, n) ==
  /\ p \in Nat /\ q \in Nat /\ n \in Nat
  /\ \A i \in 1..p : id[i] \in Nat /\ id[i] < q
  /\ \A i, j \in 1..p : id[i] = id[j] => i = j
  /\ \A i \in (p + 1)..(p + n) : id[i] = q + (i - p) - 1

LEMMA Numbering ==
  ASSUME NEW id, NEW p, NEW q, NEW n, Continued(id, p, q, n)
  PROVE  /\ \A i \in 1..(p + n) : id[i] < q + n
         /\ \A i, j \in 1..(p + n) : id[i] = id[j] => i = j
         /\ \A k \in q..(q + n - 1) : \E i \in 1..(p + n) : id[i] = k
<1> USE DEF Continued
<1>1. \A i \in 1..(p + n) : i \in 1..p \/ i \in (p + 1)..(p + n)
  OBVIOUS
<1>2. \A i \in 1..(p + n) : id[i] < q + n
  BY <1>1
<1>3. ASSUME NEW i \in 1..(p + n), NEW j \in 1..(p + n), id[i] = id[j] PROVE i = j
  <2>1. CASE i \in 1..p /\ j \in 1..p
    BY <1>3, <2>1
  <2>2. CASE i \in (p + 1)..(p + n) /\ j \in (p + 1)..(p + n)
    BY <1>3, <2>2
  <2>3. CASE i \in 1..p /\ j \in (p + 1)..(p + n)
    BY <1>3, <2>3
  <2>4. CASE i \in (p + 1)..(p + n) /\ j \in 1..p
    BY <1>3, <2>4
  <2> QED
    BY <1>1, <2>1, <2>2, <2>3, <2>4
<1>4. ASSUME NEW k \in q..(q + n - 1) PROVE \E i \in 1..(p + n) : id[i] = k
  <2>1. (k - q) + p + 1 \in (p + 1)..(p + n)
    OBVIOUS
  <2>2. id[(k - q) + p + 1] = k
    BY <2>1
  <2> QED
    BY <2>1, <2>2
<1> QED
  BY <1>2, <1>3, <1>4

\* Appending VMs whose ids and names are the next ones keeps a design sound.
LEMMA AppendSound ==
  ASSUME Sound(td), NEW n \in Nat, td.next + n <= MaxVmId + 1,
         NEW new \in SUBSET ((td.next..(td.next + n - 1)) \X (td.next..(td.next + n - 1)))
  PROVE  Sound(Adding(n, new)) /\ Adding(n, new).editing = td.editing /\ Adding(n, new).loaded = td.loaded
<1> USE ConsoleAssumption
<1> DEFINE p == Len(td.vms)
           q == td.next
           more == [i \in 1..n |-> NewVM(q + (i - 1))]
           v == td.vms \o more
           links == td.links \cup new
           after == [td EXCEPT !.vms = v, !.links = links, !.next = q + n]
           id == [i \in 1..(p + n) |-> v[i].id]
<1>1. /\ td \in Designs /\ td.vms \in Seq(Vm) /\ q \in 1..(MaxVmId + 1) /\ p \in Nat
      /\ DOMAIN td.vms = 1..p /\ p < q
  BY DEF Sound, Designs
<1>2. /\ more \in Seq(Vm) /\ Len(more) = n
      /\ \A i \in 1..n : more[i].id = q + (i - 1) /\ more[i].name = q + (i - 1)
  BY <1>1 DEF NewVM, NewName, Vm, VmIds
<1>3. /\ v \in Seq(Vm) /\ Len(v) = p + n /\ DOMAIN v = 1..(p + n)
      /\ \A i \in 1..(p + n) : v[i] = IF i <= p THEN td.vms[i] ELSE more[i - p]
  <2> HIDE DEF more
  <2>1. /\ v \in Seq(Vm) /\ Len(v) = Len(td.vms) + Len(more)
        /\ \A i \in 1..(Len(td.vms) + Len(more)) :
             v[i] = IF i <= Len(td.vms) THEN td.vms[i] ELSE more[i - Len(td.vms)]
    <3>1. td.vms \in Seq(Vm) /\ more \in Seq(Vm)
      BY <1>1, <1>2
    <3> QED
      BY <3>1, ConcatProperties
  <2>2. DOMAIN v = 1..Len(v)
    BY <2>1
  <2> HIDE DEF v
  <2> QED
    BY <1>1, <1>2, <2>1, <2>2
<1>4. \A i \in 1..p : td.vms[i].id \in Nat /\ td.vms[i].id < q
  <2>1. ASSUME NEW i \in 1..p PROVE td.vms[i] \in Vm /\ i \in DOMAIN td.vms
    BY <1>1
  <2>2. ASSUME NEW i \in 1..p PROVE td.vms[i].id \in Nat
    BY <2>1 DEF Vm, VmIds
  <2>3. ASSUME NEW i \in 1..p PROVE td.vms[i].id < q
    BY <2>1 DEF Sound
  <2> QED
    BY <2>2, <2>3
<1>5. \A i \in 1..p : i \in 1..(p + n) /\ v[i] = td.vms[i] /\ id[i] = td.vms[i].id
  <2> HIDE DEF more, v, p
  <2> QED
    BY <1>1, <1>3
<1>6. \A i \in (p + 1)..(p + n) : v[i].id = q + (i - p) - 1 /\ v[i].name = v[i].id /\ id[i] = v[i].id
  <2>1. ASSUME NEW i \in (p + 1)..(p + n) PROVE v[i].id = q + (i - p) - 1 /\ v[i].name = v[i].id /\ id[i] = v[i].id
    <3>1. i \in 1..(p + n) /\ ~(i <= p) /\ i - p \in 1..n
      BY <1>1
    <3>2. v[i] = more[i - p]
      BY <1>3, <3>1
    <3>3. more[i - p].id = q + (i - p - 1) /\ more[i - p].name = q + (i - p - 1)
      BY <1>2, <3>1
    <3>4. q + (i - p - 1) = q + (i - p) - 1
      BY <1>1
    <3>5. id[i] = v[i].id
      BY <3>1
    <3> QED
      BY <3>2, <3>3, <3>4, <3>5
  <2> QED
    BY <2>1
<1>7. /\ \A i \in 1..(p + n) : id[i] < q + n
      /\ \A i, j \in 1..(p + n) : id[i] = id[j] => i = j
      /\ \A k \in q..(q + n - 1) : \E i \in 1..(p + n) : id[i] = k
  <2>1. \A i, j \in 1..p : id[i] = id[j] => i = j
    BY <1>1, <1>5 DEF Sound
  <2>2. p \in Nat /\ q \in Nat /\ \A i \in 1..p : id[i] \in Nat /\ id[i] < q
    BY <1>1, <1>4, <1>5
  <2>3. \A i \in (p + 1)..(p + n) : id[i] = q + (i - p) - 1
    BY <1>6
  <2>4. Continued(id, p, q, n)
    BY <2>1, <2>2, <2>3 DEF Continued
  <2> HIDE DEF id, p, q
  <2> QED
    BY <2>4, Numbering
<1>8. after \in Designs
  <2>1. links \in SUBSET (VmIds \X VmIds) /\ q + n \in 1..(MaxVmId + 1)
    BY <1>1 DEF Designs, VmIds
  <2> HIDE DEF v, links, q
  <2> QED
    BY <1>1, <1>3, <2>1 DEF Designs
<1>9. ASSUME NEW e \in links PROVE \E i, j \in DOMAIN v : e = <<v[i].id, v[j].id>>
  <2>1. CASE e \in td.links
    <3>1. PICK i \in 1..p, j \in 1..p : e = <<td.vms[i].id, td.vms[j].id>>
      BY <1>1, <2>1, SMTT(20) DEF Sound
    <3> QED
      BY <1>3, <1>5, <3>1
  <2>2. CASE e \in new
    <3>1. PICK a \in q..(q + n - 1), b \in q..(q + n - 1) : e = <<a, b>>
      BY <2>2
    <3>2. PICK i \in 1..(p + n) : id[i] = a
      BY <1>7
    <3>3. PICK j \in 1..(p + n) : id[j] = b
      BY <1>7
    <3> QED
      BY <1>3, <3>1, <3>2, <3>3
  <2> QED
    BY <1>9, <2>1, <2>2
<1>10. ~td.gap => \A i \in DOMAIN v : v[i].name = v[i].id
  <2>1. \A i \in DOMAIN v : i \in 1..p \/ i \in (p + 1)..(p + n)
    BY <1>1, <1>3
  <2> QED
    BY <1>1, <1>5, <1>6, <2>1 DEF Sound
<1>11. /\ after.vms = v /\ after.links = links /\ after.next = q + n /\ after.gap = td.gap
  BY <1>1 DEF Designs
<1>12. Len(v) < q + n
  BY <1>1, <1>3
<1>13. Sound(after)
  <2>1. \A i \in DOMAIN v : v[i].id = id[i] /\ i \in 1..(p + n)
    BY <1>3
  <2>2. /\ \A i \in DOMAIN v : v[i].id < q + n
        /\ \A i, j \in DOMAIN v : v[i].id = v[j].id => i = j
    BY <1>7, <2>1
  <2> HIDE DEF v, links, q, id, p, after
  <2> QED
    BY <1>8, <1>9, <1>10, <1>11, <1>12, <2>2 DEF Sound
<1>14. after.editing = td.editing /\ after.loaded = td.loaded
  BY <1>1 DEF Designs
<1> QED
  BY <1>13, <1>14 DEF Adding

\* What an edit must do to the design.
LEMMA EditKeeps ==
  ASSUME DesignInv, NEW new, Edit(new), Sound(new),
         new.editing = td.editing, new.loaded = td.loaded
  PROVE  DesignInv'
<1>1. td' = new /\ UNCHANGED <<content, timers, stored, requests>>
  BY DEF Edit
<1> QED
  BY <1>1 DEF DesignInv, TravelOK, Loading, Drawn, Sound

LEMMA DesignAdd == ASSUME DesignInv, AddVM PROVE DesignInv'
<1>1. td.next \in Nat /\ Sound(td)
  BY ConsoleAssumption DEF DesignInv, Sound, Designs
<1>2. td.next + 1 <= MaxVmId + 1 /\ Edit(Adding(1, {}))
  BY <1>1, ConsoleAssumption DEF AddVM
<1> QED
  BY <1>1, <1>2, AppendSound, EditKeeps

LEMMA DesignTemplate ==
  ASSUME DesignInv, NEW kind \in {"line", "ring", "star"}, NEW n \in 2..MaxVmId, ApplyTemplate(kind, n)
  PROVE  DesignInv'
<1> USE ConsoleAssumption
<1> DEFINE id(i) == td.next + i
           drawn == {<<id(l[1]), id(l[2])>> : l \in Shape(kind, n)}
<1>1. td.next \in Nat /\ Sound(td) /\ n \in Nat
  BY DEF DesignInv, Sound, Designs
<1>2. td.next + n <= MaxVmId + 1 /\ Edit(Adding(n, drawn))
  BY <1>1 DEF ApplyTemplate
<1>3. \A l \in Shape(kind, n) : l[1] \in 0..(n - 1) /\ l[2] \in 0..(n - 1)
  <2>1. \A i \in 0..(n - 1) : (i + 1) % n \in 0..(n - 1)
    BY <1>1
  <2> QED
    BY <1>1, <2>1 DEF Shape
<1>4. drawn \in SUBSET ((td.next..(td.next + n - 1)) \X (td.next..(td.next + n - 1)))
  BY <1>1, <1>3
<1> HIDE DEF drawn
<1> QED
  BY <1>1, <1>2, <1>4, AppendSound, EditKeeps

\* The one VM of an id.
LEMMA PlaceExists ==
  ASSUME Sound(td), NEW a \in Ids
  PROVE  Place(a) \in DOMAIN td.vms /\ td.vms[Place(a)].id = a
BY DEF Ids, Place

LEMMA DesignConnect ==
  ASSUME DesignInv, NEW a \in VmIds, NEW b \in VmIds, Connect(a, b)
  PROVE  DesignInv'
<1> DEFINE new == [td EXCEPT !.links = @ \cup {<<a, b>>}]
<1>1. a \in Ids /\ b \in Ids /\ Edit(new) /\ Sound(td) /\ td \in Designs
  BY DEF Connect, DesignInv, Sound
<1>2. /\ new \in Designs /\ new.vms = td.vms /\ new.links = td.links \cup {<<a, b>>}
      /\ new.next = td.next /\ new.gap = td.gap /\ new.editing = td.editing /\ new.loaded = td.loaded
  BY <1>1 DEF Designs
<1>3. \E i, j \in DOMAIN td.vms : <<a, b>> = <<td.vms[i].id, td.vms[j].id>>
  BY <1>1 DEF Ids
<1> HIDE DEF new
<1>4. Sound(new)
  BY <1>1, <1>2, <1>3 DEF Sound
<1> QED
  BY <1>1, <1>2, <1>4, EditKeeps

LEMMA DesignUnlink ==
  ASSUME DesignInv, NEW l \in td.links, DeleteLink(l)
  PROVE  DesignInv'
<1> DEFINE new == [td EXCEPT !.links = @ \ {l}]
<1>1. Edit(new) /\ Sound(td) /\ td \in Designs
  BY DEF DeleteLink, DesignInv, Sound
<1>2. /\ new \in Designs /\ new.vms = td.vms /\ new.links = td.links \ {l}
      /\ new.next = td.next /\ new.gap = td.gap /\ new.editing = td.editing /\ new.loaded = td.loaded
  BY <1>1 DEF Designs
<1> HIDE DEF new
<1>4. Sound(new)
  BY <1>1, <1>2 DEF Sound
<1> QED
  BY <1>1, <1>2, <1>4, EditKeeps

\* A sequence without its k-th element.
LEMMA Removing ==
  ASSUME NEW S, NEW s \in Seq(S), NEW k \in 1..Len(s)
  PROVE  LET v == SubSeq(s, 1, k - 1) \o SubSeq(s, k + 1, Len(s))
         IN /\ v \in Seq(S) /\ Len(v) = Len(s) - 1 /\ DOMAIN v = 1..(Len(s) - 1)
            /\ \A i \in 1..(Len(s) - 1) : v[i] = IF i < k THEN s[i] ELSE s[i + 1]
<1> DEFINE p == Len(s)
           front == SubSeq(s, 1, k - 1)
           back == SubSeq(s, k + 1, p)
           v == front \o back
<1>1. p \in Nat /\ \A i \in 1..p : s[i] \in S
  OBVIOUS
<1>2. front \in Seq(S) /\ Len(front) = k - 1 /\ \A i \in 1..(k - 1) : front[i] = s[i]
  <2>1. \A i \in 1..(k - 1) : s[i] \in S
    BY <1>1
  <2>2. /\ front \in Seq(S) /\ Len(front) = IF 1 <= k - 1 THEN k - 1 - 1 + 1 ELSE 0
        /\ \A i \in 1..(k - 1 - 1 + 1) : front[i] = s[1 + i - 1]
    BY <2>1, SubSeqProperties
  <2> HIDE DEF front
  <2>3. Len(front) = k - 1
    BY <2>2
  <2>4. ASSUME NEW i \in 1..(k - 1) PROVE front[i] = s[i]
    <3>1. i \in 1..(k - 1 - 1 + 1) /\ 1 + i - 1 = i
      OBVIOUS
    <3> QED
      BY <2>2, <3>1
  <2> QED
    BY <2>2, <2>3, <2>4
<1>3. back \in Seq(S) /\ Len(back) = p - k /\ \A i \in 1..(p - k) : back[i] = s[k + i]
  <2>1. \A i \in (k + 1)..p : s[i] \in S
    BY <1>1
  <2>2. /\ back \in Seq(S) /\ Len(back) = IF k + 1 <= p THEN p - (k + 1) + 1 ELSE 0
        /\ \A i \in 1..(p - (k + 1) + 1) : back[i] = s[k + 1 + i - 1]
    <3> HIDE DEF p
    <3> QED
      BY <1>1, <2>1, SubSeqProperties DEF p
  <2> HIDE DEF back, p
  <2>3. Len(back) = p - k
    BY <1>1, <2>2 DEF p
  <2>4. ASSUME NEW i \in 1..(p - k) PROVE back[i] = s[k + i]
    <3>1. i \in 1..(p - (k + 1) + 1) /\ k + 1 + i - 1 = k + i
      BY <1>1
    <3> QED
      BY <2>2, <3>1
  <2> QED
    BY <2>2, <2>3, <2>4
<1>4. /\ v \in Seq(S) /\ Len(v) = Len(front) + Len(back)
      /\ \A i \in 1..(Len(front) + Len(back)) :
           v[i] = IF i <= Len(front) THEN front[i] ELSE back[i - Len(front)]
  <2> HIDE DEF front, back
  <2> QED
    BY <1>2, <1>3, ConcatProperties
<1>5. DOMAIN v = 1..Len(v)
  BY <1>4
<1>6. Len(v) = p - 1
  <2> HIDE DEF front, back, v, p
  <2> QED
    BY <1>1, <1>2, <1>3, <1>4
<1>7. ASSUME NEW i \in 1..(p - 1) PROVE v[i] = IF i < k THEN s[i] ELSE s[i + 1]
  <2>1. CASE i < k
    <3> HIDE DEF front, back, v
    <3> QED
      BY <1>1, <1>2, <1>3, <1>4, <2>1
  <2>2. CASE i >= k
    <3>1. i - (k - 1) \in 1..(p - k) /\ k + (i - (k - 1)) = i + 1
      BY <1>1, <2>2
    <3> HIDE DEF front, back, v, p
    <3>2. i \in 1..(Len(front) + Len(back)) /\ ~(i <= Len(front))
      BY <1>1, <1>2, <1>3, <2>2 DEF p
    <3>3. v[i] = back[i - (k - 1)]
      BY <1>2, <1>4, <3>2
    <3> QED
      BY <1>3, <2>2, <3>1, <3>3
  <2>3. i < k \/ i >= k
    BY <1>1
  <2> HIDE DEF v
  <2> QED
    BY <2>1, <2>2, <2>3
<1> QED
  BY <1>4, <1>5, <1>6, <1>7

LEMMA DesignDelete ==
  ASSUME DesignInv, NEW a \in VmIds, DeleteVM(a)
  PROVE  DesignInv'
<1> DEFINE k == Place(a)
           p == Len(td.vms)
           front == SubSeq(td.vms, 1, k - 1)
           back == SubSeq(td.vms, k + 1, p)
           v == front \o back
           links == LinksWithout(a)
           new == [td EXCEPT !.vms = v, !.links = links]
<1>1. a \in Ids /\ Edit(new) /\ Sound(td) /\ td \in Designs
  BY DEF DeleteVM, DesignInv, Sound
<1>2. /\ td.vms \in Seq(Vm) /\ p \in Nat /\ DOMAIN td.vms = 1..p /\ k \in 1..p /\ td.vms[k].id = a
      /\ \A i \in 1..p : td.vms[i] \in Vm
  BY <1>1, PlaceExists DEF Designs
<1>4. /\ v \in Seq(Vm) /\ Len(v) = p - 1 /\ DOMAIN v = 1..(p - 1)
      /\ \A i \in 1..(p - 1) : v[i] = IF i < k THEN td.vms[i] ELSE td.vms[i + 1]
  <2> HIDE DEF k
  <2> QED
    BY <1>2, Removing
<1>5. /\ new \in Designs /\ new.vms = v /\ new.links = links
      /\ new.next = td.next /\ new.gap = td.gap /\ new.editing = td.editing /\ new.loaded = td.loaded
  <2>1. links \subseteq td.links
    BY DEF LinksWithout
  <2> HIDE DEF v, links
  <2> QED
    BY <1>1, <1>4, <2>1 DEF Designs
<1> DEFINE old(i) == IF i < k THEN i ELSE i + 1
<1>6. \A i \in 1..(p - 1) : old(i) \in 1..p /\ old(i) # k /\ v[i] = td.vms[old(i)]
  <2> HIDE DEF v, k, p
  <2> QED
    BY <1>2, <1>4
<1>7. \A i, j \in 1..(p - 1) : old(i) = old(j) => i = j
  <2> HIDE DEF k, p
  <2> QED
    BY <1>2
<1>8. \A m \in 1..p : m # k => \E i \in 1..(p - 1) : old(i) = m
  <2> HIDE DEF k, p
  <2>1. ASSUME NEW m \in 1..p, m < k PROVE m \in 1..(p - 1) /\ old(m) = m
    BY <1>2, <2>1
  <2>2. ASSUME NEW m \in 1..p, m > k PROVE m - 1 \in 1..(p - 1) /\ old(m - 1) = m
    BY <1>2, <2>2
  <2>3. \A m \in 1..p : m # k => m < k \/ m > k
    BY <1>2
  <2> HIDE DEF old
  <2> QED
    BY <2>1, <2>2, <2>3
<1> HIDE DEF old
<1>9. ASSUME NEW e \in links PROVE \E i, j \in DOMAIN v : e = <<v[i].id, v[j].id>>
  <2>1. e \in td.links /\ a # e[1] /\ a # e[2]
    BY <1>9 DEF LinksWithout
  <2>2. PICK m \in 1..p, n \in 1..p : e = <<td.vms[m].id, td.vms[n].id>>
    BY <1>1, <1>2, <2>1 DEF Sound
  <2>3. m # k /\ n # k
    BY <1>2, <2>1, <2>2
  <2>4. PICK i \in 1..(p - 1) : old(i) = m
    BY <1>8, <2>3
  <2>5. PICK j \in 1..(p - 1) : old(j) = n
    BY <1>8, <2>3
  <2> HIDE DEF v, p
  <2> QED
    BY <1>4, <1>6, <2>2, <2>4, <2>5
<1>10. /\ Len(v) < td.next
       /\ \A i \in DOMAIN v : v[i].id < td.next
       /\ \A i, j \in DOMAIN v : v[i].id = v[j].id => i = j
       /\ ~td.gap => \A i \in DOMAIN v : v[i].name = v[i].id
  <2>1. /\ p < td.next /\ td.next \in Nat
        /\ \A i \in 1..p : td.vms[i].id < td.next
        /\ \A i, j \in 1..p : td.vms[i].id = td.vms[j].id => i = j
        /\ ~td.gap => \A i \in 1..p : td.vms[i].name = td.vms[i].id
    BY <1>1, <1>2, ConsoleAssumption DEF Sound, Designs
  <2> HIDE DEF v, p
  <2>2. Len(v) < td.next
    BY <1>2, <1>4, <2>1
  <2> QED
    BY <1>4, <1>6, <1>7, <2>1, <2>2
<1> HIDE DEF new, v, links
<1>11. Sound(new)
  BY <1>5, <1>9, <1>10 DEF Sound
<1> QED
  BY <1>1, <1>5, <1>11, EditKeeps

-----------------------------------------------------------------------------
(***************************************************************************)
(* Requests, and the design as a whole.                                    *)
(***************************************************************************)
LEMMA PayloadTravels == ASSUME Sound(td) PROVE Payload \in Topologies
<1> USE ConsoleAssumption
<1> DEFINE v == [i \in DOMAIN td.vms |-> td.vms[i].name]
           l == {<<NameOf(e[1]), NameOf(e[2])>> : e \in td.links}
<1>1. /\ td.vms \in Seq(Vm) /\ DOMAIN td.vms = 1..Len(td.vms) /\ Len(td.vms) \in Nat
      /\ Len(td.vms) <= MaxVmId /\ td.links \subseteq VmIds \X VmIds
      /\ \A i \in DOMAIN td.vms : td.vms[i].name \in VmIds
  <2>1. td.vms \in Seq(Vm) /\ td.next \in 1..(MaxVmId + 1) /\ Len(td.vms) < td.next
        /\ td.links \subseteq VmIds \X VmIds
    BY DEF Sound, Designs
  <2>2. \A i \in 1..Len(td.vms) : td.vms[i] \in Vm
    BY <2>1
  <2> QED
    BY <2>1, <2>2 DEF Vm
<1>2. v \in Seq(VmIds) /\ Len(v) <= MaxVmId
  BY <1>1
<1>3. ASSUME NEW e \in td.links PROVE NameOf(e[1]) \in VmIds /\ NameOf(e[2]) \in VmIds
  <2>1. e[1] \in Ids /\ e[2] \in Ids
    BY <1>3 DEF Sound, Ids
  <2> QED
    BY <1>1, <2>1, PlaceExists DEF NameOf
<1>4. l \in SUBSET (VmIds \X VmIds)
  BY <1>3
<1> HIDE DEF v, l
<1>5. [vms |-> v, links |-> l] \in Topologies
  BY <1>2, <1>4, IsTopology
<1> QED
  BY <1>5 DEF Payload, v, l

\* Requests that start keep what travels well typed.
LEMMA ClickTravels ==
  ASSUME TravelOK, clicks \in Nat, seq \in Nat,
         NEW kind \in {"slices", "images", "edit", "save"}, NEW d \in Owners, NEW data \in Topologies,
         kind = "edit" => d \in Drafts, Click(Request(kind, d, data))
  PROVE  TravelOK'
<1> DEFINE q == Request(kind, d, data)
           r == [q EXCEPT !.no = clicks + 1]
<1>1. q \in RequestType /\ q.kind = kind /\ q.draft = d
  BY DEF Request, RequestType
<1>2. requests' = requests \cup {r} /\ UNCHANGED <<stored, timers>>
  BY DEF Click
<1> HIDE DEF q
<1>3. r \in RequestType /\ r.kind = kind /\ r.draft = d
  BY <1>1 DEF RequestType
<1> HIDE DEF r
<1> QED
  BY <1>2, <1>3 DEF TravelOK

LEMMA ServeTravels ==
  ASSUME TravelOK, NEW r \in requests, Serve(r)
  PROVE  TravelOK'
<1> DEFINE d == r.draft
           data == IF r.kind = "edit" THEN stored[d] ELSE Empty
           answer == [r EXCEPT !.served = TRUE, !.data = data]
           after == IF r.kind = "save" /\ d \in Drafts THEN [stored EXCEPT ![d] = r.data] ELSE stored
<1>1. r \in RequestType /\ (r.kind = "edit" => d \in Drafts)
  BY DEF TravelOK
<1>2. data \in Topologies
  BY <1>1, EmptyTravels DEF TravelOK
<1>3. answer \in RequestType /\ answer.kind = r.kind /\ answer.draft = d
  <2> HIDE DEF data
  <2> QED
    BY <1>1, <1>2 DEF RequestType
<1>4. after \in [Drafts -> Topologies]
  BY <1>1 DEF TravelOK, RequestType
<1>5. requests' = (requests \ {r}) \cup {answer} /\ stored' = after /\ timers' = timers
  BY DEF Serve
<1> HIDE DEF answer, after
<1> QED
  BY <1>1, <1>3, <1>4, <1>5 DEF TravelOK

\* A step that draws, and at most ends a request.
LEMMA DrawnTravels ==
  ASSUME TravelOK, Sound(td)' /\ Loading' /\ timers' \in Seq([of : Owners, data : Topologies]),
         requests' \subseteq requests, stored' = stored
  PROVE  DesignInv'
BY DEF DesignInv, TravelOK

LEMMA DesignSucceeds ==
  ASSUME DesignInv, NEW r \in requests, Succeeds(r)
  PROVE  DesignInv'
<1>1. TravelOK /\ requests' \subseteq requests /\ stored' = stored
  BY DEF DesignInv, Succeeds
<1>2. ASSUME NEW v, NEW by, Render(v, by) PROVE DesignInv'
  BY <1>1, <1>2, Drawing, DrawnTravels
<1>3. CASE r.kind = "edit" /\ RenderNewSlice(r.draft, r.data, "edit")
  <2>1. r.draft \in Owners /\ r.data \in Topologies /\ DrawDesigner(r.draft, r.data, "edit")
    BY <1>1, <1>3 DEF TravelOK, RequestType, RenderNewSlice
  <2> QED
    BY <1>1, <2>1, DesignerDrawn, DrawnTravels
<1> QED
  BY <1>2, <1>3 DEF Succeeds

LEMMA DesignFails ==
  ASSUME DesignInv, NEW r \in requests, FailsWith(r)
  PROVE  DesignInv'
<1> DEFINE new == [td EXCEPT !.saving = FALSE]
<1>1. Sound(td) /\ td \in Designs
  BY DEF DesignInv, Sound
<1>2. /\ new \in Designs /\ new.vms = td.vms /\ new.links = td.links /\ new.next = td.next
      /\ new.gap = td.gap /\ new.editing = td.editing /\ new.loaded = td.loaded
  BY <1>1 DEF Designs
<1> HIDE DEF new
<1>3. Sound(new)
  BY <1>1, <1>2 DEF Sound
<1>4. /\ td' \in {td, new} /\ requests' \subseteq requests
      /\ UNCHANGED <<content, timers, stored>>
  BY DEF FailsWith, new
<1> QED
  BY <1>1, <1>2, <1>3, <1>4 DEF DesignInv, TravelOK, Loading, Drawn, Sound

LEMMA DesignSubmit ==
  ASSUME DesignInv, clicks \in Nat, seq \in Nat, NEW d \in Owners, Submit(d)
  PROVE  DesignInv'
<1> DEFINE new == [td EXCEPT !.saving = TRUE]
<1>1. Sound(td) /\ td \in Designs
  BY DEF DesignInv, Sound
<1>2. /\ new \in Designs /\ new.vms = td.vms /\ new.links = td.links /\ new.next = td.next
      /\ new.gap = td.gap /\ new.editing = td.editing /\ new.loaded = td.loaded
  BY <1>1 DEF Designs
<1>3. td' = new /\ UNCHANGED <<content, timers>> /\ Click(Request("save", d, Payload))
  BY DEF Submit, Click
<1> HIDE DEF new
<1>4. Sound(new)
  BY <1>1, <1>2 DEF Sound
<1>5. TravelOK'
  BY <1>1, <1>3, PayloadTravels, ClickTravels DEF DesignInv
<1> QED
  BY <1>2, <1>3, <1>4, <1>5 DEF DesignInv, Loading, Drawn, Sound

-----------------------------------------------------------------------------
Reasons == {"user", "action", "image", "edit", "save"}
Pages   == [of : Views, by : Reasons, shown : BOOLEAN]
Fetches == [of : Views \ {"new"}, by : Reasons, seq : 1..MaxRenders]

ScreenType ==
  /\ view \in Views /\ seq \in 1..MaxRenders /\ clicks \in 0..MaxRequests
  /\ content \in Pages
  /\ fetches \subseteq Fetches

IInv == ScreenType /\ ScreenInv /\ DesignInv

LEMMA RenderType ==
  ASSUME ScreenType, NEW v \in Views, NEW by \in Reasons, Render(v, by)
  PROVE  seq' \in 1..MaxRenders /\ content' \in Pages /\ fetches' \subseteq Fetches
<1> USE ConsoleAssumption DEF ScreenType
<1>1. seq + 1 \in 1..MaxRenders
  BY DEF Render
<1>2. CASE v = "new"
  <2>1. /\ seq' = seq + 1 /\ fetches' = fetches
        /\ content' = [of |-> "new", by |-> by, shown |-> TRUE]
    BY <1>2 DEF Render, RenderNewSlice, DrawDesigner
  <2>2. "new" \in Views
    BY DEF Views
  <2> QED
    BY <1>1, <2>1, <2>2 DEF Pages
<1>3. CASE v # "new"
  <2>1. /\ seq' = seq + 1
        /\ content' = [of |-> v, by |-> by, shown |-> FALSE]
        /\ fetches' = fetches \cup {[of |-> v, by |-> by, seq |-> seq + 1]}
    BY <1>3 DEF Render, RenderList, NewNumber
  <2> QED
    BY <1>1, <1>3, <2>1 DEF Pages, Fetches
<1> QED
  BY <1>2, <1>3

LEMMA IInit == Init => IInv
<1> SUFFICES ASSUME Init PROVE IInv
  OBVIOUS
<1>1. ScreenType
  BY ConsoleAssumption DEF Init, ScreenType, Views, Pages, Reasons, Fetches
<1> QED
  BY <1>1, ScreenInit, DesignInit DEF IInv

LEMMA INext == IInv /\ [Next]_vars => IInv'
<1> SUFFICES ASSUME IInv, [Next]_vars PROVE IInv'
  OBVIOUS
<1> USE DEF IInv
<1>1. ScreenInv'
  BY ScreenNext
<1>2. clicks \in Nat /\ seq \in Nat
  BY ConsoleAssumption DEF ScreenType
<1> DEFINE Goal == ScreenType' /\ DesignInv'
<1>3. ASSUME UNCHANGED <<view, seq, content, fetches, clicks>> PROVE ScreenType'
  BY <1>3 DEF ScreenType
<1>4. ASSUME UNCHANGED <<view, seq, content, fetches>>, clicks < MaxRequests, clicks' = clicks + 1
      PROVE  ScreenType'
  BY <1>4, ConsoleAssumption DEF ScreenType
<1>5. ASSUME NEW f \in fetches, Answered(f) PROVE Goal
  <2>1. f \in Fetches
    BY DEF ScreenType
  <2>2. ScreenType'
    BY <1>5, <2>1 DEF Answered, ScreenType, Fetches, Pages
  <2>3. Drawn' => Drawn
    BY <1>5, <2>1 DEF Answered, Drawn, Fetches
  <2> QED
    BY <1>5, <2>2, <2>3 DEF Answered, DesignInv, TravelOK, Loading, Sound
<1>6. ASSUME NEW r \in requests, Serve(r) PROVE Goal
  <2>1. UNCHANGED <<view, seq, content, fetches, timers, td, clicks>>
    BY <1>6 DEF Serve
  <2>2. TravelOK'
    BY <1>6, ServeTravels DEF DesignInv
  <2> QED
    BY <1>3, <2>1, <2>2 DEF DesignInv, Loading, Drawn, Sound
<1>7. ASSUME NEW r \in requests, Succeeds(r) PROVE Goal
  <2>1. view' \in Views /\ clicks' = clicks
    BY <1>7 DEF Succeeds, ScreenType, Views
  <2>2. ASSUME NEW v \in Views, NEW by \in Reasons, Render(v, by) PROVE ScreenType'
    BY <2>1, <2>2, RenderType DEF ScreenType
  <2>3. ASSUME Render(view, "action") \/ Render("images", "image") \/ Render("slices", "save")
        PROVE  ScreenType'
    BY <2>2, <2>3 DEF ScreenType, Views, Reasons
  <2>4. ASSUME seq < MaxRenders, RenderNewSlice(r.draft, r.data, "edit")
        PROVE  ScreenType'
    BY <2>1, <2>4, ConsoleAssumption
    DEF RenderNewSlice, DrawDesigner, ScreenType, Pages, Views, Reasons, Fetches
  <2> QED
    BY <1>7, <2>3, <2>4, DesignSucceeds DEF Succeeds
<1>8. ASSUME NEW r \in requests, FailsWith(r) PROVE Goal
  <2>1. UNCHANGED <<view, seq, content, fetches, clicks>>
    BY <1>8 DEF FailsWith
  <2> QED
    BY <1>3, <1>8, <2>1, DesignFails
<1>9. ASSUME NEW v \in Views, Navigate(v) PROVE Goal
  <2>1. /\ view' = v /\ clicks' = clicks /\ Render(v, "user")
        /\ requests' \subseteq requests /\ stored' = stored
    BY <1>9 DEF Navigate
  <2>2. ScreenType'
    BY <2>1, RenderType DEF ScreenType, Reasons
  <2>3. DesignInv'
    BY <2>1, Drawing, DrawnTravels DEF DesignInv
  <2> QED
    BY <2>2, <2>3
<1>10. ASSUME NEW kind \in {"slices", "images", "edit", "save"}, NEW d \in Owners, kind = "edit" => d \in Drafts,
              Click(Request(kind, d, Empty)), UNCHANGED td
       PROVE  Goal
  <2>1. TravelOK'
    BY <1>2, <1>10, ClickTravels, EmptyTravels DEF DesignInv
  <2> QED
    BY <1>4, <1>10, <2>1 DEF Click, DesignInv, Loading, Drawn, Sound
<1>11. ASSUME Act PROVE Goal
  <2>1. content.of \in {"slices", "images"}
    BY <1>11 DEF Act, Drawn, ScreenType, Pages, Views
  <2> QED
    BY <1>10, <1>11, <2>1 DEF Act, Owners
<1>12. ASSUME NEW d \in Drafts, EditSlice(d) PROVE Goal
  BY <1>10, <1>12 DEF EditSlice, Owners
<1>13. ASSUME NEW d \in Owners, Submit(d) PROVE Goal
  BY <1>2, <1>4, <1>13, DesignSubmit DEF Submit, Click
<1>14. ASSUME TimerFires PROVE Goal
  BY <1>3, <1>14, DesignTimer DEF TimerFires
<1>15. ASSUME AddVM PROVE Goal
  BY <1>3, <1>15, DesignAdd DEF AddVM, Edit
<1>16. ASSUME NEW kind \in {"line", "ring", "star"}, NEW n \in 2..MaxVmId, ApplyTemplate(kind, n) PROVE Goal
  BY <1>3, <1>16, DesignTemplate DEF ApplyTemplate, Edit
<1>17. ASSUME NEW a \in VmIds, NEW b \in VmIds, Connect(a, b) PROVE Goal
  BY <1>3, <1>17, DesignConnect DEF Connect, Edit
<1>18. ASSUME NEW a \in VmIds, DeleteVM(a) PROVE Goal
  BY <1>3, <1>18, DesignDelete DEF DeleteVM, Edit
<1>19. ASSUME NEW l \in td.links, DeleteLink(l) PROVE Goal
  BY <1>3, <1>19, DesignUnlink DEF DeleteLink, Edit
<1>20. ASSUME UNCHANGED vars PROVE Goal
  BY <1>3, <1>20 DEF vars, DesignInv, TravelOK, Loading, Drawn, Sound
<1>21. Goal
  BY <1>5, <1>6, <1>7, <1>8, <1>9, <1>11, <1>12, <1>13, <1>14, <1>15, <1>16, <1>17, <1>18, <1>19, <1>20
  DEF Next, Gateway, User, Owners
<1> QED
  BY <1>1, <1>21

LEMMA Invariant == Spec => []IInv
BY IInit, INext, PTL DEF Spec

\* Types; ids in a design are unique and its links have their ends.
THEOREM TypeCorrect == Spec => []TypeOK
<1>1. IInv => TypeOK
  <2> SUFFICES ASSUME IInv PROVE TypeOK
    OBVIOUS
  <2> USE ConsoleAssumption DEF IInv
  <2>1. \A f \in fetches : f.of \in Views \ {"new"} /\ f.seq \in 1..seq
    BY DEF ScreenType, Fetches, ScreenInv, Numbered
  <2>2. \A r \in requests : r.kind \in {"slices", "images", "edit", "save"} /\ r.data \in Topologies
    BY DEF DesignInv, TravelOK, RequestType
  <2>3. \A i \in DOMAIN timers : timers[i].data \in Topologies
    <3> DEFINE W == [of : Owners, data : Topologies]
    <3>1. timers \in Seq(W)
      BY DEF DesignInv, TravelOK
    <3>2. \A i \in DOMAIN timers : timers[i] \in W
      <4> HIDE DEF W
      <4> QED
        BY <3>1
    <3> QED
      BY <3>2
  <2>4. /\ \A i, j \in DOMAIN td.vms : td.vms[i].id = td.vms[j].id => i = j
        /\ Ids \subseteq 1..(td.next - 1)
        /\ td.links \subseteq Ids \X Ids
    <3>1. /\ td.next \in Nat
          /\ \A i \in DOMAIN td.vms : td.vms[i].id \in 1..MaxVmId /\ td.vms[i].id < td.next
      <4>1. \A i \in DOMAIN td.vms : td.vms[i] \in Vm
        BY DEF DesignInv, Sound, Designs
      <4> QED
        BY <4>1 DEF DesignInv, Sound, Designs, Vm, VmIds
    <3>2. Ids \subseteq 1..(td.next - 1)
      BY <3>1 DEF Ids
    <3>3. td.links \subseteq Ids \X Ids
      BY DEF Ids, DesignInv, Sound
    <3> QED
      BY <3>2, <3>3 DEF DesignInv, Sound
  <2> QED
    BY <2>1, <2>2, <2>3, <2>4 DEF TypeOK, ScreenType, Pages, Reasons, DesignInv, TravelOK
<1> QED
  BY <1>1, Invariant, PTL

\* A design that edits a draft was loaded from that draft, whichever timers fire.
THEOREM EditsWhatItLoaded == Spec => []EditsItsDraft
<1>1. IInv => EditsItsDraft
  BY DEF IInv, DesignInv, Loading, EditsItsDraft, Editable
<1> QED
  BY <1>1, Invariant, PTL

\* Two VMs have one name only in a design loaded from names with a gap.
THEOREM NamesApart == Spec => []ClashOnlyAfterGap
<1>1. IInv => ClashOnlyAfterGap
  BY DEF IInv, DesignInv, Sound, ClashOnlyAfterGap, Clash
<1> QED
  BY <1>1, Invariant, PTL

\* An id has its place, and a name that nothing else has stands for its VM.
LEMMA PlacesAndNames ==
  ASSUME Sound(td), ~Clash, NEW i \in DOMAIN td.vms
  PROVE  Place(td.vms[i].id) = i /\ Named(Payload.vms, td.vms[i].name) = i
<1>1. DOMAIN td.vms \subseteq Nat /\ \A j \in DOMAIN td.vms : td.vms[j].id = td.vms[i].id => j = i
  BY DEF Sound, Designs
<1>2. Place(td.vms[i].id) = i
  BY <1>1 DEF Place
<1>3. /\ DOMAIN Payload.vms = DOMAIN td.vms
      /\ \A j \in DOMAIN td.vms : Payload.vms[j] = td.vms[j].name
  BY DEF Payload
<1>4. \A j \in DOMAIN Payload.vms : Payload.vms[j] = td.vms[i].name => j = i
  BY <1>3 DEF Clash
<1>5. i \in DOMAIN Payload.vms /\ Payload.vms[i] = td.vms[i].name /\ i <= i
  BY <1>1, <1>3
<1> DEFINE v == Payload.vms
<1>6. \A k : (k \in DOMAIN v /\ v[k] = td.vms[i].name /\ \A j \in DOMAIN v : v[j] = td.vms[i].name => j <= k) <=> k = i
  BY <1>4, <1>5
<1> HIDE DEF v
<1>7. Named(v, td.vms[i].name) = i
  BY <1>6 DEF Named
<1> QED
  BY <1>2, <1>7 DEF v

\* What a design saves is, loaded again, the topology that was drawn: names in their
\* order and links between the same places (tdSubmit, tdLoadFromExport), whatever was
\* added, deleted, loaded and drawn, as long as no two VMs have one name.
THEOREM SavesWhatIsDrawn == Spec => []RoundTrip
<1>1. IInv => RoundTrip
  <2> SUFFICES ASSUME Sound(td), ~Clash
               PROVE  LET again == Load(Payload, td.editing)
                      IN /\ [i \in DOMAIN again.vms |-> again.vms[i].name] = Payload.vms
                         /\ again.links = {<<Place(l[1]), Place(l[2])>> : l \in td.links}
    BY DEF IInv, DesignInv, RoundTrip
  <2> DEFINE v == Payload.vms
             again == Load(Payload, td.editing)
  <2>1. /\ v = [i \in DOMAIN td.vms |-> td.vms[i].name] /\ DOMAIN v = DOMAIN td.vms
        /\ Payload.links = {<<NameOf(l[1]), NameOf(l[2])>> : l \in td.links}
    BY DEF Payload
  <2>2. /\ again.vms = [i \in DOMAIN v |-> [id |-> i, name |-> v[i]]]
        /\ again.links = {<<Named(v, l[1]), Named(v, l[2])>> : l \in Kept(Payload)}
    BY DEF Load, Sound, Designs
  <2>3. \A i \in DOMAIN td.vms : /\ Place(td.vms[i].id) = i /\ NameOf(td.vms[i].id) = td.vms[i].name
                                 /\ Named(v, td.vms[i].name) = i /\ td.vms[i].name \in {v[j] : j \in DOMAIN v}
    BY <2>1, PlacesAndNames DEF NameOf
  <2>4. \A l \in td.links :
          /\ NameOf(l[1]) \in {v[j] : j \in DOMAIN v} /\ NameOf(l[2]) \in {v[j] : j \in DOMAIN v}
          /\ Named(v, NameOf(l[1])) = Place(l[1]) /\ Named(v, NameOf(l[2])) = Place(l[2])
    <3> SUFFICES ASSUME NEW l \in td.links
                 PROVE  /\ NameOf(l[1]) \in {v[j] : j \in DOMAIN v} /\ NameOf(l[2]) \in {v[j] : j \in DOMAIN v}
                        /\ Named(v, NameOf(l[1])) = Place(l[1]) /\ Named(v, NameOf(l[2])) = Place(l[2])
      OBVIOUS
    <3>1. PICK i \in DOMAIN td.vms, j \in DOMAIN td.vms : l = <<td.vms[i].id, td.vms[j].id>>
      BY DEF Sound
    <3> HIDE DEF v
    <3> QED
      BY <2>3, <3>1
  <2> HIDE DEF v, again
  \* No end is dropped.
  <2>5. Kept(Payload) = Payload.links
    <3>1. ASSUME NEW m \in Payload.links PROVE {m[1], m[2]} \subseteq {v[j] : j \in DOMAIN v}
      <4>1. PICK l \in td.links : m = <<NameOf(l[1]), NameOf(l[2])>>
        BY <2>1
      <4>2. m[1] = NameOf(l[1]) /\ m[2] = NameOf(l[2])
        BY <4>1
      <4> QED
        BY <2>4, <4>2
    <3> QED
      BY <3>1 DEF Kept, v
  <2>6. again.links = {<<Named(v, NameOf(l[1])), Named(v, NameOf(l[2]))>> : l \in td.links}
    <3>1. ASSUME NEW x \in again.links
          PROVE  \E l \in td.links : x = <<Named(v, NameOf(l[1])), Named(v, NameOf(l[2]))>>
      <4>1. PICK m \in Payload.links : x = <<Named(v, m[1]), Named(v, m[2])>>
        BY <2>2, <2>5
      <4>2. PICK l \in td.links : m = <<NameOf(l[1]), NameOf(l[2])>>
        BY <2>1
      <4> QED
        BY <4>1, <4>2
    <3>2. ASSUME NEW l \in td.links
          PROVE  <<Named(v, NameOf(l[1])), Named(v, NameOf(l[2]))>> \in again.links
      <4> DEFINE m == <<NameOf(l[1]), NameOf(l[2])>>
      <4>1. m \in Payload.links
        BY <2>1
      <4>2. <<Named(v, m[1]), Named(v, m[2])>> \in again.links
        <5> HIDE DEF m
        <5> QED
          BY <2>2, <2>5, <4>1
      <4> QED
        BY <4>2
    <3> QED
      BY <3>1, <3>2
  <2>7. again.links = {<<Place(l[1]), Place(l[2])>> : l \in td.links}
    BY <2>4, <2>6
  <2>8. [i \in DOMAIN again.vms |-> again.vms[i].name] = v
    BY <2>1, <2>2
  <2> QED
    BY <2>7, <2>8 DEF v, again
<1> QED
  BY <1>1, Invariant, PTL
=============================================================================
