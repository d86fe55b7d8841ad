---------------------------- MODULE ControlLease ----------------------------
(***************************************************************************)
(* The control lease of src/src/server/lease.ts: the file control.lock in  *)
(* the state root admits one control service.  A claimant publishes a      *)
(* complete lock with link(2), judges a lock that is already there, and    *)
(* may unlink the lock of a dead owner while it holds the take-over marker *)
(* control.lock.reclaim.                                                   *)
(*                                                                         *)
(* A member of Service is one operating-system process that starts the     *)
(* service once; a restart is another member.  Its token (a fresh UUID) is *)
(* identified with the process.  Each action is the code between two       *)
(* awaits that touch the shared directory: other processes run in between. *)
(* The private candidate file and its removal are left out: no other       *)
(* process reads them.                                                     *)
(***************************************************************************)
EXTENDS Naturals, FiniteSets

CONSTANTS
  Service,       \* processes that may start, and the remains of earlier ones
  Remains,       \* those that died before this history starts
  Recycled,      \* dead owners whose PID lives on and whose record has no start time
  Nobody,        \* no process: an absent file
  LeaseAttempts, \* LEASE_ATTEMPTS
  MaxCrashes     \* bound on the crashes explored

ASSUME ServiceAssumption ==
  /\ Nobody \notin Service
  /\ Remains \subseteq Service
  /\ Recycled \subseteq Service
ASSUME LeaseBoundAssumption == LeaseAttempts \in Nat \ {0} /\ MaxCrashes \in Nat

VARIABLES
  lock,     \* owner recorded in control.lock, Nobody when there is no file
  marker,   \* the file control.lock.reclaim
  leasePc,  \* where each process is in acquireControlLease and release
  seen,     \* owner a process read in the lock it judges (current.token)
  mseen,    \* owner a process read in the marker it judges
  attempt,  \* loop counter of acquireControlLease
  crashes,
  stray     \* history: who has discarded another marker than the one it judged

leaseVars == <<lock, marker, leasePc, seen, mseen, attempt, crashes, stray>>

(***************************************************************************)
(* A marker is created empty and written later; it is old once its         *)
(* modification time lies ABANDONED_MARKER_MS back.                        *)
(***************************************************************************)
NoMarker == [owner |-> Nobody, written |-> FALSE, old |-> FALSE]
Marker == [owner : Service \union {Nobody}, written : BOOLEAN, old : BOOLEAN]

ClaimPC == {"link", "confirm", "inspect", "judge", "mark", "readMarker", "statMarker", "discard"}
ReclaimPC == {"writeMarker", "recheck", "unlinkLock", "closeMarker"}
EndPC == {"failed", "released", "crashed"}
PC == {"idle", "held", "releasing"} \union ClaimPC \union ReclaimPC \union EndPC

LeaseTypeOK ==
  /\ lock \in Service \union {Nobody}
  /\ marker \in Marker
  /\ leasePc \in [Service -> PC]
  /\ seen \in [Service -> Service \union {Nobody}]
  /\ mseen \in [Service -> Service \union {Nobody}]
  /\ attempt \in [Service -> 0 .. LeaseAttempts]
  /\ crashes \in 0 .. MaxCrashes
  /\ stray \subseteq Service

-----------------------------------------------------------------------------
Dead(p) == leasePc[p] \in EndPC
Claiming(p) == leasePc[p] \in ClaimPC \union ReclaimPC
HoldsLease(p) == leasePc[p] \in {"held", "releasing"}

\* ownerIsAlive: the PID runs and the recorded start time is not another one.
JudgedAlive(p) == ~ Dead(p) \/ p \in Recycled

At(p, place) == leasePc[p] = place
Go(p, place) == leasePc' = [leasePc EXCEPT ![p] = place]

\* Mutants of Retry: one attempt too many, one too few.
RetryOnceMore(p) ==
  /\ attempt' = [attempt EXCEPT ![p] = @ + 1]
  /\ Go(p, IF attempt[p] < LeaseAttempts THEN "link" ELSE "failed")

RetryOnceLess(p) ==
  /\ attempt' = [attempt EXCEPT ![p] = @ + 1]
  /\ Go(p, IF attempt[p] + 2 < LeaseAttempts THEN "link" ELSE "failed")

\* The attempt is over without the lease: the next one, or leaseUnavailable.
Retry(p) ==
  /\ attempt' = [attempt EXCEPT ![p] = @ + 1]
  /\ Go(p, IF attempt[p] + 1 < LeaseAttempts THEN "link" ELSE "failed")

(***************************************************************************)
(* The history starts on a state root that an earlier service may have     *)
(* left with a stale lock, and an earlier reclaim with a stale marker.     *)
(***************************************************************************)
LeaseInit ==
  /\ lock \in Remains \union {Nobody}
  /\ marker \in {NoMarker} \union [owner : Remains, written : {TRUE}, old : BOOLEAN]
  /\ leasePc = [p \in Service |-> IF p \in Remains THEN "crashed" ELSE "idle"]
  /\ seen = [p \in Service |-> Nobody]
  /\ mseen = [p \in Service |-> Nobody]
  /\ attempt = [p \in Service |-> 0]
  /\ crashes = 0
  /\ stray = {}

-----------------------------------------------------------------------------
(***************************************************************************)
(* acquireControlLease and claimOnce                                       *)
(***************************************************************************)
StartService(p) ==
  /\ At(p, "idle")
  /\ Go(p, "link")
  /\ UNCHANGED <<lock, marker, seen, mseen, attempt, crashes, stray>>

\* Mutant of Link: the candidate is renamed over the lock.
LinkByRename(p) ==
  /\ At(p, "link")
  /\ lock' = p
  /\ Go(p, "confirm")
  /\ UNCHANGED <<marker, seen, mseen, attempt, crashes, stray>>

\* link(2) is create-only: it fails with EEXIST when the lock is there.
Link(p) ==
  /\ At(p, "link")
  /\ \/ /\ lock = Nobody
        /\ lock' = p
        /\ Go(p, "confirm")
     \/ /\ lock # Nobody
        /\ lock' = lock
        /\ Go(p, "inspect")
  /\ UNCHANGED <<marker, seen, mseen, attempt, crashes, stray>>

\* assertLockOwner: refuse to run on a lock that is not the published one.
AssertLockOwner(p) ==
  /\ At(p, "confirm")
  /\ Go(p, IF lock = p THEN "held" ELSE "failed")
  /\ UNCHANGED <<lock, marker, seen, mseen, attempt, crashes, stray>>

-----------------------------------------------------------------------------
(***************************************************************************)
(* reclaimStaleLock                                                        *)
(***************************************************************************)
InspectLock(p) ==
  /\ At(p, "inspect")
  /\ \/ /\ lock = Nobody
        /\ Retry(p)
        /\ UNCHANGED seen
     \/ /\ lock # Nobody
        /\ seen' = [seen EXCEPT ![p] = lock]
        /\ Go(p, "judge")
        /\ UNCHANGED attempt
  /\ UNCHANGED <<lock, marker, mseen, crashes, stray>>

JudgeOwner(p) ==
  /\ At(p, "judge")
  /\ Go(p, IF JudgedAlive(seen[p]) THEN "failed" ELSE "mark")
  /\ UNCHANGED <<lock, marker, seen, mseen, attempt, crashes, stray>>

\* takeOverMarker: open with O_EXCL, the file is still empty.
OpenMarker(p) ==
  /\ At(p, "mark")
  /\ \/ /\ marker = NoMarker
        /\ marker' = [NoMarker EXCEPT !.owner = p]
        /\ Go(p, "writeMarker")
     \/ /\ marker # NoMarker
        /\ marker' = marker
        /\ Go(p, "readMarker")
  /\ UNCHANGED <<lock, seen, mseen, attempt, crashes, stray>>

\* The write goes to the opened file, which may have lost its name.
WriteMarker(p) ==
  /\ At(p, "writeMarker")
  /\ marker' = IF marker.owner = p THEN [marker EXCEPT !.written = TRUE] ELSE marker
  /\ Go(p, "recheck")
  /\ UNCHANGED <<lock, seen, mseen, attempt, crashes, stray>>

\* Mutant of ConfirmStale: the lock is not read again under the marker.
ConfirmNothing(p) ==
  /\ At(p, "recheck")
  /\ Go(p, "unlinkLock")
  /\ UNCHANGED <<lock, marker, seen, mseen, attempt, crashes, stray>>

ConfirmStale(p) ==
  /\ At(p, "recheck")
  /\ Go(p, IF lock = seen[p] THEN "unlinkLock" ELSE "closeMarker")
  /\ UNCHANGED <<lock, marker, seen, mseen, attempt, crashes, stray>>

UnlinkLock(p) ==
  /\ At(p, "unlinkLock")
  /\ lock' = Nobody
  /\ Go(p, "closeMarker")
  /\ UNCHANGED <<marker, seen, mseen, attempt, crashes, stray>>

\* The marker is removed by name, whoever's file the name now is.
CloseMarker(p) ==
  /\ At(p, "closeMarker")
  /\ marker' = NoMarker
  /\ Retry(p)
  /\ UNCHANGED <<lock, seen, mseen, crashes, stray>>

-----------------------------------------------------------------------------
(***************************************************************************)
(* discardAbandonedMarker                                                  *)
(***************************************************************************)
\* An empty marker does not parse: the whole acquisition throws.
ReadMarker(p) ==
  /\ At(p, "readMarker")
  /\ \/ /\ marker = NoMarker
        /\ Retry(p)
        /\ UNCHANGED mseen
     \/ /\ marker # NoMarker
        /\ mseen' = [mseen EXCEPT ![p] = marker.owner]
        /\ Go(p, IF marker.written THEN "statMarker" ELSE "failed")
        /\ UNCHANGED attempt
  /\ UNCHANGED <<lock, marker, seen, crashes, stray>>

\* Mutant of StatMarker: an old marker is abandoned, whoever owns it.
StatAgeOnly(p) ==
  /\ At(p, "statMarker")
  /\ \/ /\ marker.old
        /\ Go(p, "discard")
        /\ UNCHANGED attempt
     \/ /\ ~ marker.old
        /\ Retry(p)
  /\ UNCHANGED <<lock, marker, seen, mseen, crashes, stray>>

\* The owner read before is judged; the age is that of the file now there.
StatMarker(p) ==
  /\ At(p, "statMarker")
  /\ \/ /\ ~ JudgedAlive(mseen[p]) /\ marker.old
        /\ Go(p, "discard")
        /\ UNCHANGED attempt
     \/ /\ JudgedAlive(mseen[p]) \/ ~ marker.old
        /\ Retry(p)
  /\ UNCHANGED <<lock, marker, seen, mseen, crashes, stray>>

\* The file is removed by name: another one may bear it since the age was read.
DiscardMarker(p) ==
  /\ At(p, "discard")
  /\ marker' = NoMarker
  /\ stray' = IF marker.owner \in {mseen[p], Nobody} THEN stray ELSE stray \union {p}
  /\ Retry(p)
  /\ UNCHANGED <<lock, seen, mseen, crashes>>

-----------------------------------------------------------------------------
(***************************************************************************)
(* ControlLease.release                                                    *)
(***************************************************************************)
Release(p) ==
  /\ At(p, "held")
  /\ Go(p, IF lock = p THEN "releasing" ELSE "released")
  /\ UNCHANGED <<lock, marker, seen, mseen, attempt, crashes, stray>>

ReleaseUnlink(p) ==
  /\ At(p, "releasing")
  /\ lock' = Nobody
  /\ Go(p, "released")
  /\ UNCHANGED <<marker, seen, mseen, attempt, crashes, stray>>

-----------------------------------------------------------------------------
(***************************************************************************)
(* The environment: a process is killed at any point, time passes.         *)
(***************************************************************************)
Crash(p) ==
  /\ leasePc[p] # "idle" /\ ~ Dead(p)
  /\ crashes < MaxCrashes
  /\ crashes' = crashes + 1
  /\ leasePc' = [leasePc EXCEPT ![p] = "crashed"]
  /\ UNCHANGED <<lock, marker, seen, mseen, attempt, stray>>

MarkerAges ==
  /\ marker # NoMarker /\ ~ marker.old
  /\ marker' = [marker EXCEPT !.old = TRUE]
  /\ UNCHANGED <<lock, leasePc, seen, mseen, attempt, crashes, stray>>

-----------------------------------------------------------------------------
ClaimStep(p) ==
  \/ Link(p) \/ AssertLockOwner(p)
  \/ InspectLock(p) \/ JudgeOwner(p)
  \/ OpenMarker(p) \/ WriteMarker(p) \/ ConfirmStale(p) \/ UnlinkLock(p) \/ CloseMarker(p)
  \/ ReadMarker(p) \/ StatMarker(p) \/ DiscardMarker(p)

LeaseNext ==
  \/ \E p \in Service :
       StartService(p) \/ ClaimStep(p) \/ Release(p) \/ ReleaseUnlink(p) \/ Crash(p)
  \/ MarkerAges

\* A process that is not killed keeps running; starting, releasing, dying and ageing are free.
LeaseFairness == \A p \in Service : WF_leaseVars(ClaimStep(p))

LeaseSpec == LeaseInit /\ [][LeaseNext]_leaseVars /\ LeaseFairness

-----------------------------------------------------------------------------
(***************************************************************************)
(* The comments of lease.ts (149-152 and 190-194): at most one running     *)
(* service holds the lease, and the lock on disk is its own.  The code     *)
(* does not keep this: a claimant that judged a dead marker may remove, by *)
(* name, the marker of a claimant that is at work.                         *)
(***************************************************************************)
LeaseExclusive ==
  \A p \in Service : HoldsLease(p) =>
    /\ lock = p
    /\ \A q \in Service : HoldsLease(q) => q = p

(***************************************************************************)
(* That removal is the only way to lose it: until a discard has removed    *)
(* another marker than the one it judged, one service holds the lease, and *)
(* nobody took away or replaced its lock, whatever else interleaves, dies  *)
(* or was left behind.                                                     *)
(***************************************************************************)
ExclusiveUnlessStray == stray = {} => LeaseExclusive

(***************************************************************************)
(* open with O_EXCL admits exactly one: until then, a claimant that works  *)
(* under the take-over marker is the one whose file bears the name.        *)
(***************************************************************************)
MarkerExclusive ==
  stray = {} => \A p \in Service : leasePc[p] \in ReclaimPC => marker.owner = p

\* The lease as the rest of the service sees it.
Holder == IF \E p \in Service : HoldsLease(p) THEN CHOOSE p \in Service : HoldsLease(p) ELSE Nobody

\* The promise ends with the first stray discard.
AssuredHolder == IF stray = {} THEN Holder ELSE Nobody

Lease == INSTANCE ExclusiveLease WITH holder <- AssuredHolder

(***************************************************************************)
(* Up to the first stray discard the lock files implement the exclusive    *)
(* lease: it is taken when nobody has it, and given up by its holder.      *)
(***************************************************************************)
ImplementsLease == Lease!Spec

(***************************************************************************)
(* LEASE_ATTEMPTS is enough: with no crash in the meantime, a start on a   *)
(* state root with a stale lock and an outlived marker ends with somebody  *)
(* getting the lease, however the services that start at once interleave,  *)
(* unless a discard goes astray.                                           *)
(***************************************************************************)
Reclaimable ==
  /\ lock \notin Recycled
  /\ marker.owner \notin Recycled
  /\ marker.owner \in Remains => marker.old

AttemptsSuffice ==
  Reclaimable /\ [](crashes = 0 /\ stray = {}) =>
    ((\E p \in Service : Claiming(p)) ~> (\E p \in Service : HoldsLease(p) \/ At(p, "released")))
=============================================================================
