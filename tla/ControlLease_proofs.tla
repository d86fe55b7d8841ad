------------------------ MODULE ControlLease_proofs -------------------------
(***************************************************************************)
(* The code, with nothing assumed about when its steps happen: for any     *)
(* number of services, attempts and crashes, the lease is exclusive until  *)
(* a discard has removed another marker than the one it judged.            *)
(***************************************************************************)
EXTENDS ControlLease, TLAPS

\* The claimants and the holder: the lock they published is still there.
OwnerHasLock == stray = {} => \A p \in Service : leasePc[p] \in {"confirm", "held", "releasing"} => lock = p

\* What a reclaimer judged stays true: its owner is dead, and stays dead.
JudgedIsDead ==
  \A p \in Service :
    /\ leasePc[p] = "judge" => seen[p] \in Service
    /\ leasePc[p] \in {"mark"} \union ReclaimPC => seen[p] \in Service /\ Dead(seen[p])

\* The confirmed stale lock cannot change before it is unlinked.
StaleLockStays == stray = {} => \A p \in Service : leasePc[p] = "unlinkLock" => lock = seen[p]

\* The owner of the marker that a process is about to discard is dead.
AbandonedIsDead ==
  \A p \in Service :
    /\ leasePc[p] \in {"statMarker", "discard"} => mseen[p] \in Service
    /\ leasePc[p] = "discard" => Dead(mseen[p])

MarkerOwned == marker.owner = Nobody => marker = NoMarker

\* A process that may still retry has attempts left to count.
AttemptsBounded ==
  \A p \in Service : leasePc[p] = "idle" \/ Claiming(p) => attempt[p] < LeaseAttempts

LeaseInv ==
  /\ LeaseTypeOK
  /\ AttemptsBounded
  /\ OwnerHasLock
  /\ MarkerExclusive
  /\ JudgedIsDead
  /\ StaleLockStays
  /\ AbandonedIsDead
  /\ MarkerOwned

-----------------------------------------------------------------------------
(***************************************************************************)
(* The invariant holds at the start, whatever earlier services left.       *)
(***************************************************************************)
LEMMA LeaseInvInit == LeaseInit => LeaseInv
<1> USE ServiceAssumption, LeaseBoundAssumption DEF ServiceAssumption, LeaseBoundAssumption
<1> SUFFICES ASSUME LeaseInit PROVE LeaseInv
  OBVIOUS
<1>1. \A p \in Service : leasePc[p] \in {"idle", "crashed"}
  BY DEF LeaseInit
<1>2. LeaseTypeOK
  <2>1. NoMarker \in Marker
    BY DEF Marker, NoMarker
  <2>2. [owner : Remains, written : {TRUE}, old : BOOLEAN] \subseteq Marker
    BY DEF Marker
  <2>3. marker \in Marker
    BY <2>1, <2>2 DEF LeaseInit
  <2> QED
    BY <2>3 DEF LeaseInit, LeaseTypeOK, PC, EndPC
<1>3. AttemptsBounded
  BY DEF LeaseInit, AttemptsBounded
<1>4. OwnerHasLock /\ MarkerExclusive /\ JudgedIsDead /\ StaleLockStays /\ AbandonedIsDead
  BY <1>1 DEF OwnerHasLock, MarkerExclusive, JudgedIsDead, StaleLockStays, AbandonedIsDead, ReclaimPC
<1>5. MarkerOwned
  BY DEF LeaseInit, MarkerOwned, NoMarker
<1> QED
  BY <1>2, <1>3, <1>4, <1>5 DEF LeaseInv

(***************************************************************************)
(* Every step keeps it.  The interesting ones are the four that remove a   *)
(* file by name: UnlinkLock, CloseMarker, DiscardMarker, ReleaseUnlink.    *)
(***************************************************************************)
LEMMA LeaseInvStep == LeaseInv /\ [LeaseNext]_leaseVars => LeaseInv'
<1> SUFFICES ASSUME LeaseInv, [LeaseNext]_leaseVars PROVE LeaseInv'
  OBVIOUS
<1> USE ServiceAssumption, LeaseBoundAssumption DEF ServiceAssumption, LeaseBoundAssumption
<1> USE DEF LeaseInv, LeaseTypeOK, AttemptsBounded, OwnerHasLock, MarkerExclusive, JudgedIsDead,
            StaleLockStays, AbandonedIsDead, MarkerOwned, PC, ClaimPC, ReclaimPC, EndPC, Marker,
            NoMarker, Dead, Claiming, At, Go
<1>1. ASSUME NEW p \in Service, StartService(p) PROVE LeaseInv'
  BY <1>1 DEF StartService
<1>2. ASSUME NEW p \in Service, Link(p) PROVE LeaseInv'
  BY <1>2 DEF Link
<1>3. ASSUME NEW p \in Service, AssertLockOwner(p) PROVE LeaseInv'
  BY <1>3 DEF AssertLockOwner
<1>4. ASSUME NEW p \in Service, InspectLock(p) PROVE LeaseInv'
  BY <1>4 DEF InspectLock, Retry
<1>5. ASSUME NEW p \in Service, JudgeOwner(p) PROVE LeaseInv'
  BY <1>5 DEF JudgeOwner, JudgedAlive
<1>6. ASSUME NEW p \in Service, OpenMarker(p) PROVE LeaseInv'
  <2>1. CASE marker # NoMarker
    BY <1>6, <2>1 DEF OpenMarker
  <2>2. CASE marker = NoMarker
    <3>1. marker' = [owner |-> p, written |-> FALSE, old |-> FALSE]
      BY <1>6, <2>2 DEF OpenMarker
    <3>2. marker' \in Marker /\ marker'.owner = p
      BY <3>1
    <3> QED
      BY <1>6, <2>2, <3>2 DEF OpenMarker
  <2> QED
    BY <2>1, <2>2
<1>7. ASSUME NEW p \in Service, WriteMarker(p) PROVE LeaseInv'
  <2>1. CASE marker.owner = p
    <3>1. marker' = [owner |-> p, written |-> TRUE, old |-> marker.old]
      BY <1>7, <2>1 DEF WriteMarker
    <3>2. marker' \in Marker /\ marker'.owner = marker.owner
      BY <2>1, <3>1
    <3>3. marker # NoMarker /\ marker' # NoMarker /\ marker'.owner # Nobody
      BY <2>1, <3>1
    <3>4. leasePc[p] = "writeMarker" /\ leasePc' = [leasePc EXCEPT ![p] = "recheck"]
          /\ UNCHANGED <<lock, seen, mseen, attempt, crashes, stray>>
      BY <1>7 DEF WriteMarker
    <3> QED
      BY <3>2, <3>3, <3>4
  <2>2. CASE marker.owner # p
    BY <1>7, <2>2 DEF WriteMarker
  <2> QED
    BY <2>1, <2>2
<1>8. ASSUME NEW p \in Service, ConfirmStale(p) PROVE LeaseInv'
  BY <1>8 DEF ConfirmStale
<1>9. ASSUME NEW p \in Service, UnlinkLock(p) PROVE LeaseInv'
  BY <1>9 DEF UnlinkLock
<1>10. ASSUME NEW p \in Service, CloseMarker(p) PROVE LeaseInv'
  BY <1>10 DEF CloseMarker, Retry
<1>11. ASSUME NEW p \in Service, ReadMarker(p) PROVE LeaseInv'
  BY <1>11 DEF ReadMarker, Retry
<1>12. ASSUME NEW p \in Service, StatMarker(p) PROVE LeaseInv'
  BY <1>12 DEF StatMarker, Retry, JudgedAlive
<1>13. ASSUME NEW p \in Service, DiscardMarker(p) PROVE LeaseInv'
  BY <1>13 DEF DiscardMarker, Retry
<1>14. ASSUME NEW p \in Service, Release(p) PROVE LeaseInv'
  BY <1>14 DEF Release
<1>15. ASSUME NEW p \in Service, ReleaseUnlink(p) PROVE LeaseInv'
  BY <1>15 DEF ReleaseUnlink
<1>16. ASSUME NEW p \in Service, Crash(p) PROVE LeaseInv'
  BY <1>16 DEF Crash
<1>17. CASE MarkerAges
  BY <1>17 DEF MarkerAges
<1>18. CASE UNCHANGED leaseVars
  BY <1>18 DEF leaseVars
<1> QED
  BY <1>1, <1>2, <1>3, <1>4, <1>5, <1>6, <1>7, <1>8, <1>9, <1>10, <1>11, <1>12, <1>13, <1>14,
     <1>15, <1>16, <1>17, <1>18
     DEF LeaseNext, ClaimStep

(***************************************************************************)
(* The types of the variables: no action leaves them.                      *)
(***************************************************************************)
THEOREM TypeCorrect == LeaseSpec => []LeaseTypeOK
<1>1. LeaseInv => LeaseTypeOK
  BY DEF LeaseInv
<1> QED
  BY <1>1, LeaseInvInit, LeaseInvStep, PTL DEF LeaseSpec

(***************************************************************************)
(* Until a discard has removed another marker than the one it judged       *)
(* (lease.ts:223), at most one running service holds the lease, and its    *)
(* lock is in place.                                                       *)
(***************************************************************************)
THEOREM ExclusiveUntilStray == LeaseSpec => []ExclusiveUnlessStray
<1>1. LeaseInv => ExclusiveUnlessStray
  BY DEF LeaseInv, OwnerHasLock, ExclusiveUnlessStray, LeaseExclusive, HoldsLease
<1> QED
  BY <1>1, LeaseInvInit, LeaseInvStep, PTL DEF LeaseSpec

(***************************************************************************)
(* Until then, at most one claimant works under the take-over marker.      *)
(***************************************************************************)
THEOREM MarkerAdmitsOne == LeaseSpec => []MarkerExclusive
<1>1. LeaseInv => MarkerExclusive
  BY DEF LeaseInv
<1> QED
  BY <1>1, LeaseInvInit, LeaseInvStep, PTL DEF LeaseSpec

-----------------------------------------------------------------------------
(***************************************************************************)
(* Refinement.  A holder determines the abstract holder; without one, and  *)
(* after a stray discard, the abstract lease is free.                      *)
(***************************************************************************)
LEMMA HolderValue ==
  LeaseInv => /\ \A p \in Service : HoldsLease(p) /\ stray = {} => AssuredHolder = p
              /\ (\A p \in Service : ~ HoldsLease(p)) \/ stray # {} => AssuredHolder = Nobody
BY DEF LeaseInv, OwnerHasLock, HoldsLease, Holder, AssuredHolder

\* The same of the state after a step.
LEMMA HolderValueNext ==
  LeaseInv' => /\ \A p \in Service : HoldsLease(p)' /\ stray' = {} => AssuredHolder' = p
               /\ (\A p \in Service : ~ HoldsLease(p)') \/ stray' # {} => AssuredHolder' = Nobody
BY DEF LeaseInv, OwnerHasLock, HoldsLease, Holder, AssuredHolder

\* A step that moves no process into or out of the lease leaves the holder as it was.
LEMMA SameHolders ==
  ASSUME LeaseInv, LeaseInv', stray' = stray, \A p \in Service : HoldsLease(p)' <=> HoldsLease(p)
  PROVE  AssuredHolder' = AssuredHolder
<1>1. CASE stray # {} \/ \A p \in Service : ~ HoldsLease(p)
  BY <1>1, HolderValue, HolderValueNext
<1>2. CASE stray = {} /\ \E p \in Service : HoldsLease(p)
  BY <1>2, HolderValue, HolderValueNext
<1> QED
  BY <1>1, <1>2

\* A stray discard takes the lease from its abstract holder, if there is one.
LEMMA StrayGivesUp ==
  ASSUME LeaseInv, LeaseInv', stray' # {}
  PROVE  [Lease!Next]_AssuredHolder
<1>1. AssuredHolder' = Nobody
  BY HolderValueNext
<1> QED
  BY <1>1 DEF Lease!Next, Lease!GiveUp

(***************************************************************************)
(* A step of the lock files is an acquisition, a loss or no step at all of *)
(* the lease.                                                              *)
(***************************************************************************)
LEMMA LeaseStep == LeaseInv /\ LeaseInv' /\ [LeaseNext]_leaseVars => [Lease!Next]_AssuredHolder
<1> SUFFICES ASSUME LeaseInv, LeaseInv', [LeaseNext]_leaseVars, stray' = {}
             PROVE  [Lease!Next]_AssuredHolder
  BY StrayGivesUp
<1> USE ServiceAssumption DEF ServiceAssumption, At, Go
<1>0. leasePc \in [Service -> PC]
  BY DEF LeaseInv, LeaseTypeOK
<1>a. stray = {}
  BY DEF LeaseNext, leaseVars, StartService, ClaimStep, Link, AssertLockOwner, InspectLock, JudgeOwner,
    OpenMarker, WriteMarker, ConfirmStale, UnlinkLock, CloseMarker, ReadMarker, StatMarker,
    DiscardMarker, Release, ReleaseUnlink, Crash, MarkerAges
<1>1. ASSUME NEW p \in Service, AssertLockOwner(p), HoldsLease(p)' PROVE Lease!Acquire(p)
  <2>1. ~ HoldsLease(p) /\ lock = p
    BY <1>0, <1>1 DEF AssertLockOwner, HoldsLease
  <2>2. \A q \in Service : ~ HoldsLease(q)
    BY <1>a, <2>1 DEF LeaseInv, OwnerHasLock, HoldsLease
  <2> QED
    BY <1>1, <2>2, HolderValue, HolderValueNext DEF Lease!Acquire
<1>2. ASSUME NEW p \in Service, HoldsLease(p), ~ HoldsLease(p)',
             \A q \in Service \ {p} : leasePc'[q] = leasePc[q]
      PROVE Lease!GiveUp
  <2>1. \A q \in Service : HoldsLease(q) => q = p
    BY <1>2, <1>a DEF LeaseInv, OwnerHasLock, HoldsLease
  <2>2. \A q \in Service : ~ HoldsLease(q)'
    BY <1>2, <2>1 DEF HoldsLease
  <2> QED
    BY <1>2, <1>a, <2>2, HolderValue, HolderValueNext DEF Lease!GiveUp
<1>3. ASSUME NEW p \in Service, \A q \in Service \ {p} : leasePc'[q] = leasePc[q],
             HoldsLease(p)' => HoldsLease(p) \/ AssertLockOwner(p)
      PROVE [Lease!Next]_AssuredHolder
  <2>1. CASE HoldsLease(p)' /\ ~ HoldsLease(p)
    BY <1>1, <1>3, <2>1 DEF Lease!Next
  <2>2. CASE HoldsLease(p) /\ ~ HoldsLease(p)'
    BY <1>2, <1>3, <2>2 DEF Lease!Next
  <2>3. CASE HoldsLease(p)' <=> HoldsLease(p)
    <3>1. \A q \in Service : HoldsLease(q)' <=> HoldsLease(q)
      BY <1>3, <2>3 DEF HoldsLease
    <3> QED
      BY <1>a, <3>1, SameHolders
  <2> QED
    BY <2>1, <2>2, <2>3
<1>4. ASSUME NEW p \in Service,
             StartService(p) \/ ClaimStep(p) \/ Release(p) \/ ReleaseUnlink(p) \/ Crash(p)
      PROVE [Lease!Next]_AssuredHolder
  <2>1. \A q \in Service \ {p} : leasePc'[q] = leasePc[q]
    BY <1>0, <1>4 DEF StartService, ClaimStep, Link, AssertLockOwner, InspectLock, JudgeOwner,
      OpenMarker, WriteMarker, ConfirmStale, UnlinkLock, CloseMarker, ReadMarker, StatMarker, DiscardMarker,
      Release, ReleaseUnlink, Crash, Retry
  <2>2. HoldsLease(p)' => HoldsLease(p) \/ AssertLockOwner(p)
    BY <1>0, <1>4 DEF StartService, ClaimStep, Link, InspectLock, JudgeOwner, OpenMarker,
      WriteMarker, ConfirmStale, UnlinkLock, CloseMarker, ReadMarker, StatMarker, DiscardMarker,
      Release, ReleaseUnlink, Crash, Retry, HoldsLease
  <2> QED
    BY <1>3, <2>1, <2>2
<1>5. CASE MarkerAges \/ UNCHANGED leaseVars
  <2>1. \A q \in Service : HoldsLease(q)' <=> HoldsLease(q)
    BY <1>5 DEF MarkerAges, leaseVars, HoldsLease
  <2> QED
    BY <1>a, <2>1, SameHolders
<1> QED
  BY <1>4, <1>5 DEF LeaseNext

(***************************************************************************)
(* Until a stray discard, the lock files implement the exclusive lease.    *)
(***************************************************************************)
THEOREM LockFileIsALease == LeaseSpec => ImplementsLease
<1>1. LeaseInit => Lease!Init
  <2>1. LeaseInit => \A p \in Service : ~ HoldsLease(p)
    BY DEF LeaseInit, HoldsLease
  <2> QED
    BY <2>1, LeaseInvInit, HolderValue DEF Lease!Init
<1> QED
  BY <1>1, LeaseInvInit, LeaseInvStep, LeaseStep, PTL DEF LeaseSpec, ImplementsLease, Lease!Spec
=============================================================================
