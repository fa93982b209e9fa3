------------------------------ MODULE KillLatch ------------------------------
(***************************************************************************)
(* The global Kill Switch: the durable emergency-stop document, the        *)
(* process-local sticky failure state beside it (emergency_stop.py), the   *)
(* in-memory STATE["kill_switch"] that set_flag and the latch recovery     *)
(* publish (state.py), and the last gate of every broker sender, which     *)
(* reads the latch inside the dispatch boundary and then sends.            *)
(*                                                                         *)
(* Threads: broker senders, the pywebview native bridge (which can only    *)
(* engage), the operator's HTTP request to set_flag, and the watchdog's    *)
(* recovery of an active latch.  The four kinds of lock are taken in the   *)
(* code's order SAFETY -> route -> boundary -> write.  The environment may *)
(* fail a write, lose or spoil the document, lose the whole directory, and *)
(* end the process at any point.                                           *)
(***************************************************************************)
EXTENDS Integers, Sequences

CONSTANTS
    Ordinary,      \* senders of the state layer: they hold SAFETY
    Functional,    \* senders of the functional lanes: only their route lock
    Natives,       \* calls of DesktopEmergencyStopBridge.engage_emergency_stop
    Operator,      \* the thread of an HTTP request that calls set_flag
    Recovery,      \* the thread that runs recover_durable_emergency_stop
    NoOne,         \* the owner of a free lock
    RouteLocks,    \* the broker route locks in the order set_flag takes them
    RouteOf,       \* the route lock of each sender
    LatchFaults,   \* which of "write", "lost", "corrupt", "dirlost" can happen
    MaxRequests,   \* bound: Kill requests, native and operator
    MaxFaults,     \* bound: faults of the latch storage
    MaxCrashes     \* bound: process restarts

Senders  == Ordinary \cup Functional
Engagers == Natives \cup {Operator}
Threads  == Senders \cup Engagers \cup {Recovery}
Routes   == {RouteLocks[i] : i \in DOMAIN RouteLocks}

ASSUME ThreadsDistinct ==
    /\ Ordinary \cap Functional = {}
    /\ Senders \cap Engagers = {}
    /\ Operator \notin Natives
    /\ Recovery \notin Senders \cup Engagers
    /\ NoOne \notin Threads
ASSUME RoutesTyped == RouteLocks \in Seq(Routes) /\ RouteOf \in [Senders -> Routes]
ASSUME BoundsTyped == MaxRequests \in Nat /\ MaxFaults \in Nat /\ MaxCrashes \in Nat

(* Revisions.  A written document is known by its nonce, drawn from 1 on;  *)
(* the three fixed strings and the empty string are the numbers below it.  *)
Missing            == 0
InitializedMissing == -1
Unavailable        == -2
NoRevision         == -3
Revisions == {n \in Int : n >= NoRevision}

VARIABLES
    docKind,       \* the emergency-stop document on disk
    docNonce,      \* its nonce while it is "on" or "off"
    marker,        \* whether the .initialized marker exists
    stickyReason,  \* _STICKY_FAIL_CLOSED_REASON is set
    stickyRev,     \* _STICKY_ACTIVE_REVISION
    stateKill,     \* STATE["kill_switch"]
    recovered,     \* DURABLE_EMERGENCY_RECOVERY_REVISION
    pc,            \* where each thread is
    safety,        \* owner of SAFETY_CONFIRMATION_MUTATION_LOCK
    route,         \* owner of each broker route lock
    boundary,      \* owner of _DISPATCH_BOUNDARY_LOCK
    writeLock,     \* owner of _WRITE_LOCK while it is held across steps
    opValue,       \* set_flag's value: TRUE engages, FALSE releases
    opExpected,    \* set_flag's kill_release_revision
    recKey,        \* recover_durable_emergency_stop's revision
    recRev,        \* _apply_durable_emergency_stop_recovery's kill_generation
    kill,          \* history: the strongest Kill acknowledged and not released
    nonces,        \* nonces drawn: each written document has the next one
    requests,      \* bound: Kill requests so far
    faults,        \* bound: storage faults so far
    crashes        \* bound: restarts so far

disk    == <<docKind, docNonce, marker>>
sticky  == <<stickyReason, stickyRev>>
memory  == <<stickyReason, stickyRev, stateKill, recovered>>
locks   == <<safety, route, boundary, writeLock>>
opVars  == <<opValue, opExpected>>
recVars == <<recKey, recRev>>
bounds  == <<requests, faults, crashes>>
vars    == <<disk, memory, pc, locks, opVars, recVars, kill, nonces, bounds>>

DocKinds == {"absent", "corrupt", "on", "off"}
SenderPcs  == {"idle", "route", "boundary", "check", "posting", "leave"}
EngagePcs  == {"engage", "engageWrite", "onMarker", "onReplace", "onVerify"}
ReleasePcs == {"sample", "challenge", "clear", "offMarker", "offReplace", "offVerify"}
OperatorPcs == {"idle", "safety", "routes", "assess", "publish"}
                 \cup EngagePcs \cup ReleasePcs
RecoveryPcs == {"idle", "apply", "phaseA", "generation", "cleanup"}

(***************************************************************************)
(* What the readers of the latch see.                                      *)
(***************************************************************************)
\* A reader that takes a missing document for one that was never written.
DurableActiveIgnoresMarker == docKind \in {"on", "corrupt"}

DurableActive == docKind \in {"on", "corrupt"} \/ (docKind = "absent" /\ marker)
DurableSound  == docKind \in {"on", "off"} \/ (docKind = "absent" /\ ~marker)
DurableRevision ==
    CASE docKind \in {"on", "off"} -> docNonce
      [] docKind = "corrupt"       -> Unavailable
      [] OTHER                     -> IF marker THEN InitializedMissing ELSE Missing

(* Reading through emergency_stop_status also remembers an active document. *)
ObservedRevision == IF docKind = "on" THEN docNonce ELSE stickyRev
Disappeared == stickyRev # NoRevision /\ ~DurableActive

StatusActive   == DurableActive \/ stickyReason \/ Disappeared
StatusSound    == DurableSound /\ ~stickyReason /\ ~Disappeared
StatusRevision == IF Disappeared /\ ~stickyReason THEN stickyRev ELSE DurableRevision
StatusKey      == <<StatusRevision, StatusSound, stickyReason>>

(***************************************************************************)
(* Steps shared by the threads.                                            *)
(***************************************************************************)
Goto(p, from, to) == pc[p] = from /\ pc' = [pc EXCEPT ![p] = to]

(* emergency_stop_status: one critical section of _WRITE_LOCK.             *)
ReadsStatus == writeLock = NoOne /\ stickyRev' = ObservedRevision

Fault(kind) == /\ kind \in LatchFaults /\ faults < MaxFaults
               /\ faults' = faults + 1
               /\ UNCHANGED <<requests, crashes>>

(* _write_atomic raises OSError: a fault of the storage, or the directory  *)
(* it made a moment ago is gone.                                           *)
WriteRaises(p, marking, replacing) ==
    \/ pc[p] \in {marking, replacing} /\ Fault("write")
    \/ pc[p] = replacing /\ ~marker /\ UNCHANGED bounds

(* An engage that is not acknowledged still stops this process.            *)
AtLeastProcess == IF kill = "durable" THEN "durable" ELSE "process"

FreeSafetyAndRoutes(p) ==
    /\ safety' = IF safety = p THEN NoOne ELSE safety
    /\ route' = [r \in Routes |-> IF route[r] = p THEN NoOne ELSE route[r]]

(***************************************************************************)
(* Initially nothing was ever written and the process has just started.    *)
(***************************************************************************)
Init ==
    /\ docKind = "absent" /\ docNonce = 0 /\ marker = FALSE
    /\ stickyReason = FALSE /\ stickyRev = NoRevision
    /\ stateKill = FALSE /\ recovered = <<>>
    /\ pc = [p \in Threads |-> "idle"]
    /\ safety = NoOne /\ route = [r \in Routes |-> NoOne]
    /\ boundary = NoOne /\ writeLock = NoOne
    /\ opValue = FALSE /\ opExpected = NoRevision
    /\ recKey = <<>> /\ recRev = NoRevision
    /\ kill = "off" /\ nonces = 0
    /\ requests = 0 /\ faults = 0 /\ crashes = 0

(***************************************************************************)
(* A broker sender: dispatch_live_order_with_checkpoint's final section    *)
(* for an ordinary one, a *_final_mutation_boundary for a functional one.  *)
(***************************************************************************)
SenderEnters(s) ==
    /\ Goto(s, "idle", "route")
    /\ IF s \in Ordinary THEN safety = NoOne /\ safety' = s ELSE UNCHANGED safety
    /\ UNCHANGED <<disk, memory, route, boundary, writeLock, opVars, recVars,
                   kill, nonces, bounds>>

SenderTakesRoute(s) ==
    /\ Goto(s, "route", "boundary")
    /\ route[RouteOf[s]] = NoOne
    /\ route' = [route EXCEPT ![RouteOf[s]] = s]
    /\ UNCHANGED <<disk, memory, safety, boundary, writeLock, opVars, recVars,
                   kill, nonces, bounds>>

SenderTakesBoundary(s) ==
    /\ Goto(s, "boundary", "check")
    /\ boundary = NoOne /\ boundary' = s
    /\ UNCHANGED <<disk, memory, safety, route, writeLock, opVars, recVars,
                   kill, nonces, bounds>>

(* The final check.  Only the state layer also consults STATE.             *)
Refused(s) == StatusActive \/ (s \in Ordinary /\ stateKill)

SenderChecks(s) ==
    /\ ReadsStatus
    /\ Goto(s, "check", IF Refused(s) THEN "leave" ELSE "posting")
    /\ UNCHANGED <<disk, stickyReason, stateKill, recovered, locks, opVars,
                   recVars, kill, nonces, bounds>>

SenderPosted(s) ==
    /\ Goto(s, "posting", "leave")
    /\ UNCHANGED <<disk, memory, locks, opVars, recVars, kill, nonces, bounds>>

SenderLeaves(s) ==
    /\ Goto(s, "leave", "idle")
    /\ boundary' = NoOne
    /\ FreeSafetyAndRoutes(s)
    /\ UNCHANGED <<disk, memory, writeLock, opVars, recVars, kill, nonces, bounds>>

SenderAdvances(s) == \/ SenderTakesRoute(s) \/ SenderTakesBoundary(s)
                     \/ SenderChecks(s) \/ SenderPosted(s) \/ SenderLeaves(s)

(***************************************************************************)
(* engage_emergency_stop, by the native bridge or by set_flag.             *)
(***************************************************************************)
NativeRequests(n) ==
    /\ Goto(n, "idle", "engage")
    /\ requests < MaxRequests /\ requests' = requests + 1
    /\ UNCHANGED <<disk, memory, locks, opVars, recVars, kill, nonces, faults, crashes>>

(* Mutants: an engage that does not wait for the boundary, and one by the  *)
(* bridge that waits until the Kill before it is released.                 *)
EngageWithoutBoundary(p) ==
    /\ Goto(p, "engage", "engageWrite")
    /\ UNCHANGED <<disk, memory, locks, opVars, recVars, kill, nonces, bounds>>

EngageQueues(p) ==
    /\ Goto(p, "engage", "engageWrite")
    /\ p = Operator \/ ~StatusActive
    /\ boundary = NoOne /\ boundary' = p
    /\ UNCHANGED <<disk, memory, safety, route, writeLock, opVars, recVars,
                   kill, nonces, bounds>>

EngageTakesBoundary(p) ==
    /\ Goto(p, "engage", "engageWrite")
    /\ boundary = NoOne /\ boundary' = p
    /\ UNCHANGED <<disk, memory, safety, route, writeLock, opVars, recVars,
                   kill, nonces, bounds>>

EngageTakesWriteLock(p) ==
    /\ Goto(p, "engageWrite", "onMarker")
    /\ writeLock = NoOne /\ writeLock' = p
    /\ UNCHANGED <<disk, memory, safety, route, boundary, opVars, recVars,
                   kill, nonces, bounds>>

(* _write_atomic ensures the marker before the document is replaced.       *)
EngageMarks(p) ==
    /\ Goto(p, "onMarker", "onReplace")
    /\ marker' = TRUE
    /\ UNCHANGED <<docKind, docNonce, memory, locks, opVars, recVars, kill, nonces, bounds>>

EngageReplaces(p) ==
    /\ Goto(p, "onReplace", "onVerify")
    /\ marker
    /\ docKind' = "on" /\ docNonce' = nonces + 1 /\ nonces' = nonces + 1
    /\ UNCHANGED <<marker, memory, locks, opVars, recVars, kill, bounds>>

EngageReturns(p) ==
    /\ pc' = [pc EXCEPT ![p] = IF p = Operator THEN "publish" ELSE "idle"]
    /\ boundary' = NoOne /\ writeLock' = NoOne
    /\ UNCHANGED <<disk, stateKill, recovered, safety, route, opVars, recVars, nonces>>

EngageFails(p) ==
    /\ WriteRaises(p, "onMarker", "onReplace")
    /\ stickyReason' = TRUE
    /\ kill' = AtLeastProcess
    /\ EngageReturns(p)
    /\ UNCHANGED stickyRev

(* Acknowledged only when the latch reads back active and durable.         *)
EngageVerifies(p) ==
    /\ pc[p] = "onVerify"
    /\ stickyRev' = ObservedRevision
    /\ LET ok == StatusActive /\ StatusSound IN
         /\ stickyReason' = (stickyReason \/ ~ok)
         /\ kill' = IF ok THEN "durable" ELSE AtLeastProcess
    /\ EngageReturns(p)
    /\ UNCHANGED bounds

EngageAdvances(p) ==
    \/ EngageTakesBoundary(p) \/ EngageTakesWriteLock(p) \/ EngageMarks(p)
    \/ EngageReplaces(p) \/ EngageFails(p) \/ EngageVerifies(p)

(***************************************************************************)
(* set_flag("kill_switch", value): SAFETY, then every route, are held from *)
(* the request to its answer.                                              *)
(***************************************************************************)
OperatorRequests(value) ==
    /\ Goto(Operator, "idle", "safety")
    /\ requests < MaxRequests /\ requests' = requests + 1
    /\ opValue' = value /\ opExpected' = NoRevision
    /\ UNCHANGED <<disk, memory, locks, recVars, kill, nonces, faults, crashes>>

OperatorTakesSafety ==
    /\ Goto(Operator, "safety", "routes")
    /\ safety = NoOne /\ safety' = Operator
    /\ UNCHANGED <<disk, memory, route, boundary, writeLock, opVars, recVars,
                   kill, nonces, bounds>>

OperatorTakesRoute ==
    \E i \in DOMAIN RouteLocks :
        /\ Goto(Operator, "routes", IF i = Len(RouteLocks) THEN "assess" ELSE "routes")
        /\ \A j \in 1 .. i - 1 : route[RouteLocks[j]] = Operator
        /\ route[RouteLocks[i]] = NoOne
        /\ route' = [route EXCEPT ![RouteLocks[i]] = Operator]
        /\ UNCHANGED <<disk, memory, safety, boundary, writeLock, opVars, recVars,
                       kill, nonces, bounds>>

(* A return of set_flag, with STATE["kill_switch"] as given; its locals    *)
(* go with it.                                                             *)
OperatorAnswers(killFlag) ==
    /\ pc' = [pc EXCEPT ![Operator] = "idle"]
    /\ FreeSafetyAndRoutes(Operator)
    /\ stateKill' = killFlag
    /\ opValue' = FALSE /\ opExpected' = NoRevision

(* current_value: the release is risky only if a Kill is seen here.        *)
KillSeen == stateKill \/ StatusActive

OperatorAssesses(confirmed) ==
    /\ pc[Operator] = "assess"
    /\ ReadsStatus
    /\ \/ opValue /\ Goto(Operator, "assess", "engage") /\ UNCHANGED <<stateKill, safety, route, opVars>>
       \/ /\ ~opValue /\ KillSeen /\ confirmed
          /\ Goto(Operator, "assess", "sample") /\ UNCHANGED <<stateKill, safety, route, opVars>>
       \/ ~opValue /\ KillSeen /\ ~confirmed /\ OperatorAnswers(stateKill)
       \/ /\ ~opValue /\ ~KillSeen /\ confirmed
          /\ Goto(Operator, "assess", "clear") /\ UNCHANGED <<stateKill, safety, route, opVars>>
       \/ ~opValue /\ ~KillSeen /\ ~confirmed /\ OperatorAnswers(TRUE)
    /\ UNCHANGED <<disk, stickyReason, recovered, boundary, writeLock, recVars,
                   kill, nonces, bounds>>

OperatorSamples ==
    /\ Goto(Operator, "sample", "challenge")
    /\ ReadsStatus
    /\ opExpected' = StatusRevision
    /\ UNCHANGED <<disk, stickyReason, stateKill, recovered, locks, opValue, recVars,
                   kill, nonces, bounds>>

OperatorConsumesChallenge ==
    /\ Goto(Operator, "challenge", "clear")
    /\ UNCHANGED <<disk, memory, locks, opVars, recVars, kill, nonces, bounds>>

OperatorFailsChallenge ==
    /\ pc[Operator] = "challenge"
    /\ OperatorAnswers(stateKill)
    /\ UNCHANGED <<disk, sticky, recovered, boundary, writeLock, recVars,
                   kill, nonces, bounds>>

(* Mutant: the release does not compare the revision.                      *)
RevisionIgnored == TRUE

(* clear_emergency_stop compares the revision only if one was sampled.     *)
RevisionMatches == opExpected = NoRevision \/ opExpected = StatusRevision

ReleaseTakesWriteLock ==
    /\ Goto(Operator, "clear", "offMarker")
    /\ ReadsStatus
    /\ RevisionMatches
    /\ writeLock' = Operator
    /\ UNCHANGED <<disk, stickyReason, stateKill, recovered, safety, route, boundary,
                   opVars, recVars, kill, nonces, bounds>>

ReleaseRevisionChanged ==
    /\ pc[Operator] = "clear"
    /\ ReadsStatus
    /\ ~RevisionMatches
    /\ OperatorAnswers(TRUE)
    /\ UNCHANGED <<disk, stickyReason, recovered, boundary, writeLock, recVars,
                   kill, nonces, bounds>>

ReleaseMarks ==
    /\ Goto(Operator, "offMarker", "offReplace")
    /\ marker' = TRUE
    /\ UNCHANGED <<docKind, docNonce, memory, locks, opVars, recVars, kill, nonces, bounds>>

(* A durable Kill stops only this process once OFF is on disk.             *)
ReleaseReplaces ==
    /\ Goto(Operator, "offReplace", "offVerify")
    /\ marker
    /\ docKind' = "off" /\ docNonce' = nonces + 1 /\ nonces' = nonces + 1
    /\ kill' = IF kill = "off" THEN "off" ELSE "process"
    /\ UNCHANGED <<marker, memory, locks, opVars, recVars, bounds>>

ReleaseFailed ==
    /\ stickyReason' = TRUE
    /\ writeLock' = NoOne
    /\ OperatorAnswers(TRUE)
    /\ UNCHANGED <<disk, stickyRev, recovered, boundary, recVars, kill, nonces>>

ReleaseFails ==
    /\ WriteRaises(Operator, "offMarker", "offReplace")
    /\ ReleaseFailed

(* Verification reads the document alone: the sticky state is what it may  *)
(* clear.                                                                  *)
ReleaseVerifies ==
    /\ Goto(Operator, "offVerify", "publish")
    /\ ~DurableActive
    /\ stickyReason' = FALSE /\ stickyRev' = NoRevision
    /\ kill' = "off"
    /\ writeLock' = NoOne
    /\ UNCHANGED <<disk, stateKill, recovered, safety, route, boundary, opVars, recVars,
                   nonces, bounds>>

ReleaseUnverified ==
    /\ pc[Operator] = "offVerify"
    /\ DurableActive
    /\ ReleaseFailed
    /\ UNCHANGED bounds

OperatorPublishes ==
    /\ pc[Operator] = "publish"
    /\ OperatorAnswers(opValue)
    /\ UNCHANGED <<disk, sticky, recovered, boundary, writeLock, recVars,
                   kill, nonces, bounds>>

OperatorAdvances ==
    \/ OperatorTakesSafety \/ OperatorTakesRoute \/ (\E c \in BOOLEAN : OperatorAssesses(c))
    \/ OperatorSamples \/ OperatorConsumesChallenge \/ OperatorFailsChallenge
    \/ ReleaseTakesWriteLock \/ ReleaseRevisionChanged \/ ReleaseMarks \/ ReleaseReplaces
    \/ ReleaseFails \/ ReleaseVerifies \/ ReleaseUnverified \/ OperatorPublishes

(* Mutant: one recovery per process, not one per revision.                 *)
RecoveryObservesOnce ==
    /\ Goto(Recovery, "idle", "apply")
    /\ ReadsStatus
    /\ StatusActive /\ recovered = <<>>
    /\ recKey' = StatusKey
    /\ UNCHANGED <<disk, stickyReason, stateKill, recovered, locks, opVars, recRev,
                   kill, nonces, bounds>>

(***************************************************************************)
(* recover_durable_emergency_stop: once per revision of an active latch.   *)
(***************************************************************************)
RecoveryObserves ==
    /\ Goto(Recovery, "idle", "apply")
    /\ ReadsStatus
    /\ StatusActive /\ StatusKey # recovered
    /\ recKey' = StatusKey
    /\ UNCHANGED <<disk, stickyReason, stateKill, recovered, locks, opVars, recRev,
                   kill, nonces, bounds>>

(* The locals of a recovery call that returns.                             *)
RecoveryForgets == recKey' = <<>> /\ recRev' = NoRevision

RecoveryApplies ==
    /\ ReadsStatus
    /\ \/ /\ StatusActive
          /\ Goto(Recovery, "apply", "phaseA")
          /\ recRev' = StatusRevision /\ UNCHANGED <<recovered, recKey>>
       \/ /\ ~StatusActive
          /\ Goto(Recovery, "apply", "idle")
          /\ recovered' = recKey /\ RecoveryForgets
    /\ UNCHANGED <<disk, stickyReason, stateKill, locks, opVars, kill, nonces, bounds>>

(* Mutant: Kill is published outside SAFETY.                               *)
RecoveryPublishesUnlocked ==
    /\ Goto(Recovery, "phaseA", "generation")
    /\ stateKill' = TRUE
    /\ UNCHANGED <<disk, sticky, recovered, locks, opVars, recVars, kill, nonces, bounds>>

(* Phase A publishes Kill under SAFETY and releases it at once.            *)
RecoveryPublishes ==
    /\ Goto(Recovery, "phaseA", "generation")
    /\ safety = NoOne
    /\ stateKill' = TRUE
    /\ UNCHANGED <<disk, sticky, recovered, locks, opVars, recVars, kill, nonces, bounds>>

RecoveryChecksGeneration ==
    /\ safety = NoOne /\ ReadsStatus
    /\ \/ /\ StatusActive /\ StatusRevision = recRev
          /\ Goto(Recovery, "generation", "cleanup") /\ UNCHANGED <<stateKill, recVars>>
       \/ /\ ~(StatusActive /\ StatusRevision = recRev)
          /\ Goto(Recovery, "generation", "idle") /\ stateKill' = TRUE /\ RecoveryForgets
    /\ UNCHANGED <<disk, stickyReason, recovered, locks, opVars, kill, nonces, bounds>>

(* Mutant: an incomplete cleanup parks the recovery where nothing resumes. *)
RecoveryParks(complete) ==
    /\ Goto(Recovery, "cleanup", IF complete THEN "idle" ELSE "parked")
    /\ recovered' = IF complete THEN recKey ELSE recovered
    /\ UNCHANGED <<disk, sticky, stateKill, locks, opVars, recVars, kill, nonces, bounds>>

(* Cancels, session stops and reconciliation: complete, or to be retried.  *)
RecoveryCleansUp(complete) ==
    /\ Goto(Recovery, "cleanup", "idle")
    /\ recovered' = IF complete THEN recKey ELSE recovered
    /\ RecoveryForgets
    /\ UNCHANGED <<disk, sticky, stateKill, locks, opVars, kill, nonces, bounds>>

RecoveryAdvances ==
    \/ RecoveryObserves \/ RecoveryApplies \/ RecoveryPublishes \/ RecoveryChecksGeneration
    \/ \E complete \in BOOLEAN : RecoveryCleansUp(complete)

(***************************************************************************)
(* The environment.                                                        *)
(***************************************************************************)
DocumentLost ==
    /\ docKind # "absent" /\ docKind' = "absent" /\ docNonce' = 0
    /\ Fault("lost")
    /\ UNCHANGED <<marker, memory, pc, locks, opVars, recVars, kill, nonces>>

DocumentCorrupted ==
    /\ docKind \in {"on", "off"} /\ docKind' = "corrupt" /\ docNonce' = 0
    /\ Fault("corrupt")
    /\ UNCHANGED <<marker, memory, pc, locks, opVars, recVars, kill, nonces>>

(* With the directory gone only a process that has seen the Kill knows it. *)
DirectoryLost ==
    /\ marker
    /\ docKind' = "absent" /\ docNonce' = 0 /\ marker' = FALSE
    /\ Fault("dirlost")
    /\ kill' = IF stickyReason \/ stickyRev # NoRevision \/ kill = "process"
               THEN (IF kill = "off" THEN "off" ELSE "process") ELSE "off"
    /\ UNCHANGED <<memory, pc, locks, opVars, recVars, nonces>>

(* The process ends; only the disk survives, and only a durable Kill.      *)
Crash ==
    /\ crashes < MaxCrashes /\ crashes' = crashes + 1
    /\ stickyReason' = FALSE /\ stickyRev' = NoRevision
    /\ stateKill' = FALSE /\ recovered' = <<>>
    /\ pc' = [p \in Threads |-> "idle"]
    /\ safety' = NoOne /\ route' = [r \in Routes |-> NoOne]
    /\ boundary' = NoOne /\ writeLock' = NoOne
    /\ opValue' = FALSE /\ opExpected' = NoRevision
    /\ recKey' = <<>> /\ recRev' = NoRevision
    /\ kill' = IF kill = "durable" THEN "durable" ELSE "off"
    /\ UNCHANGED <<disk, nonces, requests, faults>>

Next ==
    \/ \E s \in Senders : SenderEnters(s) \/ SenderAdvances(s)
    \/ \E n \in Natives : NativeRequests(n)
    \/ \E p \in Engagers : EngageAdvances(p)
    \/ \E value \in BOOLEAN : OperatorRequests(value)
    \/ OperatorAdvances
    \/ RecoveryAdvances
    \/ DocumentLost \/ DocumentCorrupted \/ DirectoryLost \/ Crash

Spec == Init /\ [][Next]_vars

(* Threads that hold a lock run on, a POST returns (the adapters time out) *)
(* and a thread that waits for a lock released again and again gets it.    *)
Fairness ==
    /\ \A s \in Senders : SF_vars(SenderAdvances(s))
    /\ \A p \in Engagers : SF_vars(EngageAdvances(p))
    /\ SF_vars(OperatorAdvances)
    /\ SF_vars(RecoveryAdvances)

FairSpec == Spec /\ Fairness

(***************************************************************************)
(* Properties.                                                             *)
(***************************************************************************)
(* Every variable ranges over what the code can put there.                 *)
TypeOK ==
    /\ docKind \in DocKinds /\ docNonce \in Nat /\ marker \in BOOLEAN
    /\ stickyReason \in BOOLEAN /\ stickyRev \in Revisions
    /\ stateKill \in BOOLEAN
    /\ pc \in [Threads -> SenderPcs \cup OperatorPcs \cup RecoveryPcs]
    /\ safety \in Threads \cup {NoOne}
    /\ route \in [Routes -> Threads \cup {NoOne}]
    /\ boundary \in Threads \cup {NoOne}
    /\ writeLock \in Engagers \cup {NoOne}
    /\ opValue \in BOOLEAN /\ opExpected \in Revisions /\ recRev \in Revisions
    /\ kill \in {"off", "process", "durable"}
    /\ nonces \in Nat /\ requests \in 0 .. MaxRequests
    /\ faults \in 0 .. MaxFaults /\ crashes \in 0 .. MaxCrashes

(* A thread past these points owns the lock it took there.                 *)
BoundaryPcs == {"check", "posting", "leave", "engageWrite", "onMarker", "onReplace", "onVerify"}
WritePcs    == {"onMarker", "onReplace", "onVerify", "offMarker", "offReplace", "offVerify"}

(* The locks are held where the code holds them.                           *)
LocksHeld ==
    /\ \A p \in Threads : pc[p] \in BoundaryPcs => boundary = p
    /\ \A p \in Threads : pc[p] \in WritePcs => writeLock = p
    /\ \A s \in Ordinary : pc[s] # "idle" => safety = s
    /\ pc[Operator] \notin {"idle", "safety"} => safety = Operator

(* The latch still knows every Kill that is not released: a durable one    *)
(* reads active from the disk alone, and the marker is there before any    *)
(* document; one of this process is in the sticky state, except while its  *)
(* release holds the write lock.                                           *)
LatchKnowsKill ==
    /\ docKind # "absent" => marker
    /\ kill = "durable" => DurableActive
    /\ kill = "process" => \/ stickyReason \/ stickyRev # NoRevision
                           \/ pc[Operator] = "offVerify"

(* Between its comparison and its write, a release still faces the         *)
(* document it compared.                                                   *)
ReleaseFacesSampled ==
    pc[Operator] \in {"offMarker", "offReplace"} /\ docKind = "on"
        => opExpected \in {NoRevision, docNonce}

(* STOP wins or POST wins: no broker call is in flight while a Kill that   *)
(* was acknowledged (or failed and made sticky) has not been released,     *)
(* whatever was lost on disk and however often the process was restarted   *)
(* (emergency_stop_dispatch_boundary, engage_emergency_stop).              *)
NoPostUnderKill == \A s \in Senders : pc[s] = "posting" => kill = "off"

(* SAFETY makes STATE's switch final for the state layer: it never turns   *)
(* on between an ordinary sender's check and the end of its POST           *)
(* (set_flag, the recovery's phase A, live_broker_dispatch_allowed).       *)
NoOrdinaryPostUnderSwitch == \A s \in Ordinary : pc[s] = "posting" => ~stateKill

(* A release that sampled a revision replaces that very document, never a  *)
(* Kill engaged after the operator confirmed (clear_emergency_stop's       *)
(* expected_revision against the native bridge).                           *)
ReleaseOnlySampledKill ==
    [][docKind = "on" /\ docKind' = "off" => opExpected \in {NoRevision, docNonce}]_vars

(* What the code maintains together; inductive.                            *)
LatchInvariant ==
    /\ TypeOK /\ LocksHeld /\ LatchKnowsKill /\ ReleaseFacesSampled
    /\ NoPostUnderKill /\ NoOrdinaryPostUnderSwitch

(* An engage by the native bridge returns, whatever the senders do: no     *)
(* lock cycle starves it (boundary before write, never before a route).    *)
EngageReturnsEventually == \A n \in Natives : pc[n] = "engage" ~> pc[n] = "idle"

(* A Kill on a readable document, engaged outside the API or found at a    *)
(* restart, is published in STATE by the recovery unless it is released or *)
(* its document is lost first. Each engage writes a new nonce, so its      *)
(* revision is never the one recovered last; a document that cannot be     *)
(* read has one revision for all losses and is not covered.                *)
ReadableKillPublished == docKind = "on" ~> (stateKill \/ docKind # "on")

(* The same of any Kill that was acknowledged: "API and native Kill        *)
(* converge to one latch generation's recovery" (handoff.md:1244). It does *)
(* not hold: two documents lost one after the other read with one revision,*)
(* and the recovery skips the second (section 5 of the README).            *)
KillConverges == kill # "off" ~> (stateKill \/ kill = "off")

(* What the handoff document says of a release: a Kill is turned off only  *)
(* behind a consumed challenge (which is where the revision is sampled).   *)
ReleaseIsChallenged ==
    [][docKind = "on" /\ docKind' = "off" => opExpected # NoRevision]_vars
=============================================================================
