-------------------------- MODULE Networking_proofs --------------------------
(***************************************************************************)
(* Proofs about Networking, for every set of slices, labels and requests.  *)
(***************************************************************************)
EXTENDS Networking, TLAPS

\* Past the pick a handler has a label in hand.
PickOK ==
  \A r \in Allocs :
    /\ handler[r] = "pick" => read[r] = NoVlan
    /\ handler[r] \in {"commit", "answered"} => pick[r] \in Vlans
    /\ handler[r] = "commit" /\ read[r] # NoVlan => pick[r] = read[r]

TypeInv == TypeOK /\ PickOK

LEMMA TypeInit == Init => TypeInv
  <1> SUFFICES ASSUME Init PROVE TypeInv
    OBVIOUS
  <1>1. stale \in BOOLEAN
    BY Zenon DEF Init
  <1>2. PickOK
    BY DEF Init, PickOK, Requests
  <1>3. QED
    BY <1>1, <1>2 DEF Init, TypeInv, TypeOK, Labels, PoolStatus, CallerPoints, HandlerPoints

LEMMA TypeNext == TypeInv /\ [Next]_vars => TypeInv'
  <1> SUFFICES ASSUME TypeInv, [Next]_vars PROVE TypeInv'
    OBVIOUS
  <1> USE NetAssumption
      DEF TypeInv, TypeOK, PickOK, Labels, PoolStatus, CallerPoints, HandlerPoints,
          Allocs, Requests, Set, rows, procs
  <1>1. ASSUME NEW r \in Requests, Start(r) PROVE TypeInv'
    BY <1>1 DEF Start
  <1>2. ASSUME NEW r \in Requests, Call(r) PROVE TypeInv'
    BY <1>2 DEF Call
  <1>3. ASSUME NEW r \in Requests, GiveUp(r) PROVE TypeInv'
    BY <1>3 DEF GiveUp
  <1>4. ASSUME NEW r \in Requests, WriteBack(r) PROVE TypeInv'
    <2>1. stale' \in BOOLEAN
      BY <1>4, Zenon DEF WriteBack
    <2>2. QED
      BY <1>4, <2>1 DEF WriteBack
  <1>5. ASSUME NEW r \in Requests, Released(r) PROVE TypeInv'
    BY <1>5 DEF Released
  <1>6. ASSUME NEW r \in Requests, Erase(r) PROVE TypeInv'
    <2>1. stale' \in BOOLEAN
      BY <1>6, Zenon DEF Erase
    <2>2. QED
      BY <1>6, <2>1 DEF Erase, Delete
  <1>7. ASSUME NEW r \in Requests, AllocateRead(r) PROVE TypeInv'
    BY <1>7 DEF AllocateRead
  <1>8. ASSUME NEW r \in Requests, Pick(r) PROVE TypeInv'
    BY <1>8 DEF Pick
  <1>9. ASSUME NEW r \in Requests, AllocateCommit(r) PROVE TypeInv'
    <2>1. stale' \in BOOLEAN
      BY <1>9, Zenon DEF AllocateCommit
    <2>2. QED
      BY <1>9, <2>1 DEF AllocateCommit
  <1>10. ASSUME NEW r \in Requests, ReleaseRead(r) PROVE TypeInv'
    BY <1>10 DEF ReleaseRead
  <1>11. ASSUME NEW r \in Requests, ReleaseCommit(r) PROVE TypeInv'
    <2>1. stale' \in BOOLEAN
      BY <1>11, Zenon DEF ReleaseCommit
    <2>2. QED
      BY <1>11, <2>1 DEF ReleaseCommit
  <1>12. CASE UNCHANGED vars
    BY <1>12 DEF vars
  <1>13. QED
    BY <1>1, <1>2, <1>3, <1>4, <1>5, <1>6, <1>7, <1>8, <1>9, <1>10, <1>11, <1>12
       DEF Next, Caller, Handler

\* The rows and the requests keep their types in every interleaving.
THEOREM TypeCorrect == Spec => []TypeOK
  <1>1. TypeInv => TypeOK
    BY DEF TypeInv
  <1>2. QED
    BY <1>1, TypeInit, TypeNext, PTL DEF Spec
-----------------------------------------------------------------------------
\* A deleted slice keeps no label (its row is gone).
GoneIsBare == \A s \in Slices \ slices : vlanOf[s] = NoVlan

BalanceInv == BalancedUnlessStale /\ LabelledHasNetworks /\ GoneIsBare

LEMMA BalanceInit == Init => BalanceInv
  BY NetAssumption
  DEF Init, BalanceInv, BalancedUnlessStale, Balanced, LabelledHasNetworks, GoneIsBare

LEMMA BalanceNext == TypeInv /\ BalanceInv /\ [Next]_vars => BalanceInv'
  <1> SUFFICES ASSUME TypeInv, BalanceInv, [Next]_vars PROVE BalanceInv'
    OBVIOUS
  <1> USE NetAssumption DEF BalanceInv, BalancedUnlessStale, Balanced, LabelledHasNetworks, GoneIsBare
  <1>1. ASSUME NEW r \in Requests,
               \/ Start(r) \/ Call(r) \/ GiveUp(r) \/ Released(r)
               \/ AllocateRead(r) \/ Pick(r) \/ ReleaseRead(r)
        PROVE  BalanceInv'
    <2>1. UNCHANGED <<slices, vlanOf, pool, nets, stale>>
      BY <1>1 DEF Start, Call, GiveUp, Released, AllocateRead, Pick, ReleaseRead, rows
    <2>2. QED
      BY <2>1
  <1>2. ASSUME NEW r \in Requests, WriteBack(r) PROVE BalanceInv'
    <2>1. SliceOf[r] \in Slices /\ UNCHANGED <<slices, pool, nets>>
      BY <1>2 DEF WriteBack, Allocs, Requests
    <2>2. ~stale' => ~stale /\ vlanOf' = vlanOf
      <3>1. CASE SliceOf[r] \in slices /\ held[r] # pick[r]
        <4>1. vlanOf' = [vlanOf EXCEPT ![SliceOf[r]] = pick[r]]
          BY <1>2, <3>1 DEF WriteBack, Set
        <4>2. ~stale' => ~stale /\ vlanOf[SliceOf[r]] = pick[r]
          BY <1>2, <3>1 DEF WriteBack
        <4>3. QED
          BY <2>1, <4>1, <4>2 DEF TypeInv, TypeOK
      <3>2. CASE ~(SliceOf[r] \in slices /\ held[r] # pick[r])
        <4>1. vlanOf' = vlanOf
          BY <1>2, <3>2 DEF WriteBack
        <4>2. ~stale' => ~stale
          BY <1>2 DEF WriteBack
        <4>3. QED
          BY <4>1, <4>2
      <3>3. QED
        BY <3>1, <3>2
    <2>3. GoneIsBare'
      BY <1>2, <2>1 DEF WriteBack, Set, TypeInv, TypeOK
    <2>4. QED
      BY <2>1, <2>2, <2>3
  <1>3. ASSUME NEW r \in Requests, Erase(r) PROVE BalanceInv'
    <2> DEFINE s == SliceOf[r]
    <2>1. s \in Slices /\ held[r] \in Labels
      BY DEF TypeInv, TypeOK
    <2>2. /\ slices' = slices \ {s}
          /\ vlanOf' = [vlanOf EXCEPT ![s] = NoVlan]
          /\ nets' = [nets EXCEPT ![s] = 0]
          /\ pool' = IF held[r] # NoVlan /\ pool[held[r]] = "USED"
                     THEN [pool EXCEPT ![held[r]] = "AVAILABLE"] ELSE pool
      BY <1>3 DEF Erase, Delete, Set
    <2>3. ~stale' => /\ ~stale
                     /\ vlanOf[s] \in {held[r], NoVlan}
                     /\ held[r] # NoVlan /\ pool[held[r]] = "USED" => vlanOf[s] = held[r]
      BY <1>3 DEF Erase
    <2>4. GoneIsBare'
      BY <2>1, <2>2 DEF TypeInv, TypeOK
    <2>5. ~stale' => LabelledHasNetworks'
      BY <2>1, <2>2, <2>3 DEF TypeInv, TypeOK
    <2>6. ~stale' => Balanced'
      <3> SUFFICES ASSUME ~stale', NEW v \in Vlans
                   PROVE  /\ pool'[v] = "USED" <=> \E t \in slices' : vlanOf'[t] = v
                          /\ \A t, u \in slices' : vlanOf'[t] = v /\ vlanOf'[u] = v => t = u
        OBVIOUS
      <3>1. \A t \in slices' : vlanOf'[t] = vlanOf[t] /\ t \in slices
        BY <2>1, <2>2 DEF TypeInv, TypeOK
      <3>2. CASE vlanOf[s] = v
        <4>1. held[r] = v /\ s \in slices /\ pool[v] = "USED"
          BY <2>1, <2>3, <3>2
        <4>2. pool'[v] = "AVAILABLE" /\ \A t \in slices' : vlanOf'[t] # v
          BY <2>1, <2>2, <3>1, <3>2, <4>1, <2>3 DEF TypeInv, TypeOK
        <4>3. QED
          BY <4>2
      <3>3. CASE vlanOf[s] # v
        <4>1. pool'[v] = pool[v]
          BY <2>1, <2>2, <2>3, <3>3 DEF TypeInv, TypeOK
        <4>2. QED
          BY <2>2, <2>3, <3>1, <3>3, <4>1
      <3>4. QED
        BY <3>2, <3>3
    <2>7. QED
      BY <2>4, <2>5, <2>6
  <1>4. ASSUME NEW r \in Requests, AllocateCommit(r) PROVE BalanceInv'
    <2> DEFINE s == SliceOf[r]
    <2>1. s \in Slices /\ pick[r] \in Vlans /\ UNCHANGED slices
      BY <1>4 DEF AllocateCommit, TypeInv, TypeOK, PickOK
    <2>2. CASE s \notin slices
      BY <1>4, <2>2 DEF AllocateCommit
    <2>3. CASE s \in slices /\ read[r] # NoVlan
      <3>1. /\ UNCHANGED <<pool, vlanOf>> /\ nets' = [nets EXCEPT ![s] = nets[s] + 1]
            /\ ~stale' => ~stale
        BY <1>4, <2>3 DEF AllocateCommit, Set
      <3>2. \A t \in Slices : nets[t] > 0 => nets'[t] > 0
        BY <3>1, <2>1 DEF TypeInv, TypeOK
      <3>3. QED
        BY <2>1, <3>1, <3>2 DEF TypeInv, TypeOK
    <2>4. CASE s \in slices /\ read[r] = NoVlan
      <3>1. /\ pool' = [pool EXCEPT ![pick[r]] = "USED"]
            /\ vlanOf' = [vlanOf EXCEPT ![s] = pick[r]]
            /\ nets' = [nets EXCEPT ![s] = nets[s] + 1]
            /\ ~stale' => ~stale /\ pool[pick[r]] = "AVAILABLE" /\ vlanOf[s] = NoVlan
        BY <1>4, <2>4 DEF AllocateCommit, Set
      <3>2. \A t \in Slices : nets[t] > 0 => nets'[t] > 0
        BY <3>1, <2>1 DEF TypeInv, TypeOK
      <3>3. nets'[s] > 0
        BY <3>1, <2>1 DEF TypeInv, TypeOK
      <3>4. ~stale' => LabelledHasNetworks'
        BY <2>1, <3>1, <3>2, <3>3 DEF TypeInv, TypeOK
      <3>5. ~stale' => Balanced'
        BY <2>1, <2>4, <3>1 DEF TypeInv, TypeOK
      <3>6. GoneIsBare'
        BY <2>1, <2>4, <3>1 DEF TypeInv, TypeOK
      <3>7. QED
        BY <3>4, <3>5, <3>6
    <2>5. QED
      BY <2>2, <2>3, <2>4
  <1>5. ASSUME NEW r \in Requests, ReleaseCommit(r) PROVE BalanceInv'
    <2> DEFINE s == SliceOf[r]
    <2>1. s \in Slices /\ read[r] \in Labels /\ UNCHANGED slices
      BY <1>5 DEF ReleaseCommit, TypeInv, TypeOK
    <2>2. CASE s \notin slices
      BY <1>5, <2>2 DEF ReleaseCommit
    <2>3. CASE s \in slices /\ read[r] = NoVlan
      <3>1. /\ UNCHANGED <<pool, vlanOf>> /\ nets' = [nets EXCEPT ![s] = 0]
            /\ ~stale' => ~stale /\ vlanOf[s] = NoVlan
        BY <1>5, <2>3 DEF ReleaseCommit, Set
      <3>2. QED
        BY <2>1, <3>1 DEF TypeInv, TypeOK
    <2>4. CASE s \in slices /\ read[r] # NoVlan
      <3>1. /\ pool' = [pool EXCEPT ![read[r]] = "AVAILABLE"]
            /\ vlanOf' = [vlanOf EXCEPT ![s] = NoVlan]
            /\ nets' = [nets EXCEPT ![s] = 0]
            /\ ~stale' => ~stale /\ vlanOf[s] = read[r]
        BY <1>5, <2>4 DEF ReleaseCommit, Set
      <3>2. ~stale' => LabelledHasNetworks'
        BY <2>1, <3>1 DEF TypeInv, TypeOK
      <3>3. ~stale' => Balanced'
        BY <2>1, <2>4, <3>1 DEF TypeInv, TypeOK, Labels
      <3>4. GoneIsBare'
        BY <2>1, <3>1 DEF TypeInv, TypeOK
      <3>5. QED
        BY <3>2, <3>3, <3>4
    <2>5. QED
      BY <2>2, <2>3, <2>4
  <1>6. CASE UNCHANGED vars
    BY <1>6 DEF vars, rows
  <1>7. QED
    BY <1>1, <1>2, <1>3, <1>4, <1>5, <1>6 DEF Next, Caller, Handler

\* Whatever allocations, releases, timeouts and deletions overlap, the pool
\* and the slices agree until a commit overwrites a row that changed since it
\* was read: row locks on the reads would be enough to keep the books.
THEOREM BooksBalance == Spec => []BalancedUnlessStale
  <1>1. BalanceInv => BalancedUnlessStale
    BY DEF BalanceInv
  <1>2. QED
    BY <1>1, TypeInit, TypeNext, BalanceInit, BalanceNext, PTL DEF Spec

\* Under the same condition a slice with a label has its networks inserted.
THEOREM LabelBringsNetworks == Spec => []LabelledHasNetworks
  <1>1. BalanceInv => LabelledHasNetworks
    BY DEF BalanceInv
  <1>2. QED
    BY <1>1, TypeInit, TypeNext, BalanceInit, BalanceNext, PTL DEF Spec
=============================================================================
