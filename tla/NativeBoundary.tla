---------------------------- MODULE NativeBoundary ----------------------------
(***************************************************************************)
(* Signals that wait for the open of the next bar: the queue of            *)
(* native_open_boundary.py, the handler of continuous_live.py that         *)
(* releases it, and the way its orders take through the deferred           *)
(* dispatcher to the broker.                                               *)
(*                                                                         *)
(* A closed bar stages a signal with the instant at which the next bar of  *)
(* its stream must open.  When a feed observes an open, every waiting row  *)
(* of that stream is consumed before it is looked at further: the rows of  *)
(* exactly this open are sized and deferred, the others are refused for    *)
(* good.  Only after the whole cycle succeeded are the deferred orders     *)
(* dispatched, each behind two more looks at its age.                      *)
(*                                                                         *)
(* One worker runs stage, release and dispatch; an operator's control, the *)
(* clock and a crash may come between any two of its steps.                *)
(***************************************************************************)
EXTENDS Integers

CONSTANTS
    Signals,     \* evaluation keys of BUY and SELL decisions
    StreamOf,    \* provider, instrument, symbol and timeframe of a signal
    StartOf,     \* expectedStart: when the bar after the closed one opens
    Deployments, \* the signals of each deployment that may be started
    Deadline,    \* how old an open may be (30 seconds in the code)
    NoSignal,    \* the worker has no signal in hand
    MaxTime,     \* bound: the clock
    MaxFaults,   \* bound: exceptions and storage failures
    MaxCrashes   \* bound: restarts

ASSUME SignalsTyped ==
    /\ NoSignal \notin Signals
    /\ StartOf \in [Signals -> Nat]
    /\ Deployments \subseteq SUBSET Signals

ASSUME LimitsTyped ==
    Deadline \in Nat /\ MaxTime \in Nat /\ MaxFaults \in Nat /\ MaxCrashes \in Nat

VARIABLES
    rows,      \* native_next_open_intents: [state, owner] of each signal
    intents,   \* the journal of the dispatcher: the state of each order
    posted,    \* orders sent to the broker for each signal
    life,      \* the owner token of the running process
    served,    \* the signals whose source, portfolio and deployment run now
    boundary,  \* the open the worker handles: [stream, start, seen, sound]
    asOf,      \* `now`, which release reads once
    todo,      \* the rows release has read and not looked at yet
    at,        \* the signal in hand
    batch,     \* the orders deferred in this cycle
    fresh,     \* those queued in the present control generation
    pc,        \* where the worker stands
    clock,
    faults

durable == <<rows, intents, posted>>
cycle == <<boundary, asOf, todo>>
vars == <<durable, life, served, cycle, at, batch, fresh, pc, clock, faults>>

Streams == {StreamOf[s] : s \in Signals}
Opens == {StartOf[s] : s \in Signals}

NoBoundary == [stream |-> NoSignal, start |-> 0, seen |-> 0, sound |-> FALSE]

Absent == [state |-> "absent", owner |-> 0]
RowStates == {"absent", "WAIT_OPEN_BOUNDARY", "BOUNDARY_CLAIMED", "BLOCKED",
              "PREPARED_ONCE"}
IntentStates == {"none", "QUEUED", "DISPATCHING", "BLOCKED", "ABORTED", "SENT"}

-----------------------------------------------------------------------------

Waiting(s) == rows[s].state = "WAIT_OPEN_BOUNDARY"
Foreign(s) == rows[s].owner # life

\* An instant is not before an open and not past its deadline.
Timely(instant, open) == open <= instant /\ instant <= open + Deadline

\* release: every reason to refuse a signal that is due.  `now` is that of the
\* whole release, however long the signals before this one took.
Eligible(s) ==
    /\ s \in served
    /\ StartOf[s] = boundary.start
    /\ boundary.sound
    /\ Timely(boundary.seen, boundary.start)
    /\ Timely(asOf, boundary.start)

\* An order that is not looked at again once it is queued.
ValidWhenQueued == at \in fresh

\* validate_native_ticket and continuous_dispatch_allowed for the order in hand.
Valid == at \in fresh /\ Timely(clock, StartOf[at])

Init ==
    /\ rows = [s \in Signals |-> Absent]
    /\ intents = [s \in Signals |-> "none"]
    /\ posted = [s \in Signals |-> 0]
    /\ life = 1
    /\ served = {}
    /\ boundary = NoBoundary /\ asOf = 0
    /\ todo = {} /\ batch = {} /\ fresh = {}
    /\ at = NoSignal
    /\ pc = "idle"
    /\ clock = 0
    /\ faults = 0

Fault == faults < MaxFaults /\ faults' = faults + 1

-----------------------------------------------------------------------------
(* Closed bars and opens.                                                  *)

\* A start or a stop of the runtime, between two cycles: another deployment
\* may run afterwards, with other members and artifacts.
Serves(some) ==
    /\ pc = "idle"
    /\ served # some
    /\ served' = some
    /\ UNCHANGED <<durable, life, cycle, at, batch, fresh, pc, clock, faults>>

\* A stage that replaces the row it finds.
StagesAnew(s) ==
    /\ pc = "idle"
    /\ s \in served
    /\ rows' = [rows EXCEPT ![s] = [state |-> "WAIT_OPEN_BOUNDARY", owner |-> life]]
    /\ UNCHANGED <<intents, posted, life, served, cycle, at, batch, fresh, pc,
                   clock, faults>>

\* stage: a key is inserted once; whoever owns the row it finds, it stays.
Stages(s) ==
    /\ pc = "idle"
    /\ s \in served
    /\ rows[s] = Absent
    /\ rows' = [rows EXCEPT ![s] = [state |-> "WAIT_OPEN_BOUNDARY", owner |-> life]]
    /\ UNCHANGED <<intents, posted, life, served, cycle, at, batch, fresh, pc,
                   clock, faults>>

\* A feed reports an open: on time or late, twice, recovered from history, or
\* ahead of this machine's clock.
BoundaryObserved(stream, start, sound) ==
    /\ pc = "idle"
    /\ boundary' = [stream |-> stream, start |-> start, seen |-> clock,
                    sound |-> sound]
    /\ pc' = "observed"
    /\ UNCHANGED <<durable, life, served, asOf, todo, at, batch, fresh, clock,
                   faults>>

\* The worker returns from its last order, or has none: what it held is gone.
Returns(rest) ==
    IF rest = {}
      THEN pc' = "idle" /\ boundary' = NoBoundary /\ asOf' = 0
      ELSE pc' = "dispatch" /\ UNCHANGED <<boundary, asOf>>

\* A controller in MONITOR, which a stop may have put it in just now, or one that
\* runs nothing leaves the open alone.
LeavesOpen ==
    /\ pc = "observed"
    /\ Returns({})
    /\ UNCHANGED <<durable, life, served, todo, at, batch, fresh, clock, faults>>

\* _handle_native_open_boundary has the runtime lock; release reads its rows.
ReleaseReads ==
    /\ pc = "observed"
    /\ served # {}
    /\ asOf' = clock
    /\ todo' = {s \in Signals : Waiting(s) /\ StreamOf[s] = boundary.stream}
    /\ pc' = "release"
    /\ UNCHANGED <<durable, life, served, boundary, at, batch, fresh, clock,
                   faults>>

-----------------------------------------------------------------------------
(* release, row by row.  Rows come in the order of their evaluation keys,  *)
(* hashes that say nothing of their opens: any order.                      *)

Reached(s) == pc = "release" /\ s \in todo

\* A release that passes over the rows of an earlier process.
PassesForeign(s) ==
    /\ Reached(s)
    /\ Foreign(s)
    /\ todo' = todo \ {s}
    /\ UNCHANGED <<durable, life, served, boundary, asOf, at, batch, fresh, pc,
                   clock, faults>>

\* A row of an earlier process stops the release of its stream.
MeetsForeign(s) ==
    /\ Reached(s)
    /\ Foreign(s)
    /\ pc' = "abort"
    /\ UNCHANGED <<durable, life, served, cycle, at, batch, fresh, clock, faults>>

\* A release that leaves what it missed for a later open.
NotThisOpen(s) ==
    /\ Reached(s)
    /\ ~Foreign(s)
    /\ StartOf[s] # boundary.start
    /\ todo' = todo \ {s}
    /\ UNCHANGED <<durable, life, served, boundary, asOf, at, batch, fresh, pc,
                   clock, faults>>

\* A signal whose bar has not opened keeps waiting.
NotDueYet(s) ==
    /\ Reached(s)
    /\ ~Foreign(s)
    /\ StartOf[s] > boundary.start
    /\ todo' = todo \ {s}
    /\ UNCHANGED <<durable, life, served, boundary, asOf, at, batch, fresh, pc,
                   clock, faults>>

\* A release that consumes a row only with its outcome.
ClaimsLate(s) ==
    /\ Reached(s)
    /\ ~Foreign(s)
    /\ StartOf[s] <= boundary.start
    /\ todo' = todo \ {s}
    /\ at' = s
    /\ pc' = IF Eligible(s) THEN "prepares" ELSE "refused"
    /\ UNCHANGED <<durable, life, served, boundary, asOf, batch, fresh, clock,
                   faults>>

\* The row is consumed before the callback, whatever comes of it.
Claims(s) ==
    /\ Reached(s)
    /\ ~Foreign(s)
    /\ StartOf[s] <= boundary.start
    /\ rows' = [rows EXCEPT ![s].state = "BOUNDARY_CLAIMED"]
    /\ todo' = todo \ {s}
    /\ at' = s
    /\ pc' = IF Eligible(s) THEN "prepares" ELSE "refused"
    /\ UNCHANGED <<intents, posted, life, served, boundary, asOf, batch, fresh,
                   clock, faults>>

\* prepare sizes the order at the open and defers it.
Prepares ==
    /\ pc = "prepares"
    /\ intents' = [intents EXCEPT ![at] = "QUEUED"]
    /\ batch' = batch \cup {at}
    /\ fresh' = fresh \cup {at}
    /\ pc' = "prepared"
    /\ UNCHANGED <<rows, posted, life, served, cycle, at, clock, faults>>

\* A dry run (_submit_cycle_intent) is ok and defers nothing: the row counts as
\* prepared although no order came of it.
PreparesDry ==
    /\ pc = "prepares"
    /\ pc' = "prepared"
    /\ UNCHANGED <<durable, life, served, cycle, at, batch, fresh, clock, faults>>

\* prepare refuses: no quantity, a monitor, a journal that is held.
PrepareRefuses ==
    /\ pc = "prepares"
    /\ pc' = "refused"
    /\ UNCHANGED <<durable, life, served, cycle, at, batch, fresh, clock, faults>>

\* The second transaction of the row.
Records ==
    /\ pc \in {"prepared", "refused"}
    /\ rows' = [rows EXCEPT ![at].state =
                  IF pc = "prepared" THEN "PREPARED_ONCE" ELSE "BLOCKED"]
    /\ at' = NoSignal
    /\ pc' = "release"
    /\ UNCHANGED <<intents, posted, life, served, cycle, batch, fresh, clock,
                   faults>>

ReleaseEnds ==
    /\ pc = "release"
    /\ todo = {}
    /\ pc' = "released"
    /\ UNCHANGED <<durable, life, served, cycle, at, batch, fresh, clock, faults>>

\* __exit__ of the dispatcher, the engine having saved its checkpoint.
CycleEnds ==
    /\ pc = "released"
    /\ Returns(batch)
    /\ UNCHANGED <<durable, life, served, todo, at, batch, fresh, clock, faults>>

\* An exception: a store that fails, a prepare that raises before or after it
\* deferred its order, a checkpoint of the engine.
CycleRaises ==
    /\ pc \in {"observed", "release", "prepares", "prepared", "refused", "released"}
    /\ Fault
    /\ pc' = "abort"
    /\ UNCHANGED <<durable, life, served, cycle, at, batch, fresh, clock>>

DropsBatch ==
    /\ batch' = {} /\ fresh' = {} /\ todo' = {}
    /\ at' = NoSignal
    /\ Returns({})

\* An __exit__ that does not look at the exception.
AbortsNothing ==
    /\ pc = "abort"
    /\ todo' = {}
    /\ at' = NoSignal
    /\ Returns(batch)
    /\ UNCHANGED <<durable, life, served, batch, fresh, clock, faults>>

\* __exit__ with an exception: every deferred order is closed unsent, those
\* whose row cannot be saved included.
Aborts ==
    /\ pc = "abort"
    /\ \/ /\ intents' = [s \in Signals |->
                           IF s \in batch THEN "ABORTED" ELSE intents[s]]
          /\ UNCHANGED faults
       \/ /\ Fault
          /\ \E saved \in SUBSET batch :
                intents' = [s \in Signals |->
                              IF s \in saved THEN "ABORTED" ELSE intents[s]]
    /\ DropsBatch
    /\ UNCHANGED <<rows, posted, life, served, clock>>

-----------------------------------------------------------------------------
(* The dispatch of the batch, outside the runtime lock.                    *)

Dispatches(s) ==
    /\ pc = "dispatch"
    /\ s \in batch
    /\ intents' = [intents EXCEPT ![s] = "DISPATCHING"]
    /\ at' = s
    /\ pc' = "gate"
    /\ UNCHANGED <<rows, posted, life, served, cycle, batch, fresh, clock, faults>>

\* _submit_deferred_intent and the gates of submit_order_intent; the order then
\* waits for the safety lock.
GateAllows ==
    /\ pc = "gate"
    /\ Valid
    /\ pc' = "fence"
    /\ UNCHANGED <<durable, life, served, cycle, at, batch, fresh, clock, faults>>

Closes(state) ==
    /\ intents' = [intents EXCEPT ![at] = state]
    /\ batch' = batch \ {at}
    /\ fresh' = fresh \ {at}
    /\ at' = NoSignal
    /\ Returns(batch \ {at})

\* The claim or a gate refuses, the last look under the safety lock, or any
\* other gate of the risk chain.
Refuses ==
    /\ pc \in {"gate", "fence"}
    /\ Closes("BLOCKED")
    /\ UNCHANGED <<rows, posted, life, served, todo, clock, faults>>

\* live_broker_dispatch_allowed looks once more, under the safety lock that the
\* broker call is made under.
Posts ==
    /\ pc = "fence"
    /\ Valid
    /\ posted' = [posted EXCEPT ![at] = @ + 1]
    /\ Closes("SENT")
    /\ UNCHANGED <<rows, life, served, todo, clock, faults>>

-----------------------------------------------------------------------------

\* begin_control: what was queued before is of an older generation.
ControlBegins ==
    /\ fresh # {}
    /\ fresh' = {}
    /\ UNCHANGED <<durable, life, served, cycle, at, batch, pc, clock, faults>>

Tick ==
    /\ clock < MaxTime
    /\ clock' = clock + 1
    /\ UNCHANGED <<durable, life, served, cycle, at, batch, fresh, pc, faults>>

\* The process dies; the next one has an owner token of its own and runs
\* nothing until it is started.
Crash ==
    /\ life <= MaxCrashes
    /\ life' = life + 1
    /\ served' = {}
    /\ DropsBatch
    /\ UNCHANGED <<durable, clock, faults>>

RowStep(s) ==
    \/ Stages(s) \/ MeetsForeign(s) \/ NotDueYet(s) \/ Claims(s) \/ Dispatches(s)

CycleStep ==
    \/ LeavesOpen \/ ReleaseReads \/ Prepares \/ PreparesDry \/ PrepareRefuses \/ Records
    \/ ReleaseEnds \/ CycleEnds \/ CycleRaises \/ Aborts

OrderStep == GateAllows \/ Refuses \/ Posts

Next ==
    \/ \E some \in Deployments \cup {{}} : Serves(some)
    \/ \E stream \in Streams, start \in Opens, sound \in BOOLEAN :
          BoundaryObserved(stream, start, sound)
    \/ \E s \in Signals : RowStep(s)
    \/ CycleStep
    \/ OrderStep
    \/ ControlBegins
    \/ Tick
    \/ Crash

Spec == Init /\ [][Next]_vars

-----------------------------------------------------------------------------
(* Properties.                                                             *)

InRelease == {"release", "prepares", "prepared", "refused"}
Dispatching == {"dispatch", "gate", "fence"}
Places == {"idle", "observed", "released", "abort"} \cup InRelease \cup Dispatching

TypeOK ==
    /\ rows \in [Signals -> [state : RowStates, owner : Nat]]
    /\ intents \in [Signals -> IntentStates]
    /\ posted \in [Signals -> Nat]
    /\ life \in Nat \ {0}
    /\ served \subseteq Signals
    /\ boundary \in [stream : Streams \cup {NoSignal}, start : Nat, seen : Nat, sound : BOOLEAN]
    /\ asOf \in Nat
    /\ todo \subseteq Signals
    /\ at \in Signals \cup {NoSignal}
    /\ batch \subseteq Signals
    /\ fresh \subseteq batch
    /\ pc \in Places
    /\ clock \in Nat
    /\ faults \in Nat

\* The row in hand is consumed by this process; between two rows of a release,
\* and between two cycles, nothing is in hand.
HandHeld ==
    /\ pc \in {"prepares", "prepared", "refused"} =>
          /\ at \in Signals
          /\ rows[at] = [state |-> "BOUNDARY_CLAIMED", owner |-> life]
          /\ at \notin todo
    /\ pc = "prepares" => /\ at \notin batch /\ intents[at] = "none"
                          /\ StreamOf[at] = boundary.stream /\ Eligible(at)
    /\ pc = "refused" => at \notin batch
    /\ pc \in {"gate", "fence"} => at \in batch
    /\ pc \in {"idle", "observed"} => batch = {}
    /\ pc \in {"idle", "observed", "released"} \cup Dispatching => todo = {}

\* A release has seen every row of its stream that waits, or will: those it left
\* waiting are its own and open later.
StreamHeld ==
    /\ \A s \in todo : Waiting(s) /\ StreamOf[s] = boundary.stream
    /\ pc \in InRelease \cup {"released"} \cup Dispatching =>
          \A s \in Signals : Waiting(s) /\ StreamOf[s] = boundary.stream =>
              \/ s \in todo
              \/ ~Foreign(s) /\ StartOf[s] > boundary.start

\* An order is in the batch for the open at hand only, its row consumed by this
\* process and, unless it is in hand, recorded.
BatchHeld ==
    \A s \in batch :
        /\ s \in served
        /\ StartOf[s] = boundary.start
        /\ StreamOf[s] = boundary.stream
        /\ boundary.sound
        /\ Timely(boundary.seen, boundary.start)
        /\ rows[s].owner = life
        /\ rows[s].state \in {"BOUNDARY_CLAIMED", "PREPARED_ONCE"}
        /\ pc # "abort" /\ ~(pc = "prepared" /\ s = at) =>
              rows[s].state = "PREPARED_ONCE"
        /\ intents[s] \in {"QUEUED", "DISPATCHING"} /\ posted[s] = 0

\* Nothing was deferred, let alone sent, for a signal that has not been
\* consumed; what was sent is recorded as prepared and no longer deferred.
UnsentHeld ==
    \A s \in Signals :
        /\ rows[s].state \in {"absent", "WAIT_OPEN_BOUNDARY"} =>
              intents[s] = "none" /\ posted[s] = 0
        /\ rows[s].state \in {"BOUNDARY_CLAIMED", "BLOCKED"} => posted[s] = 0

\* A signal reaches the broker at most once, whatever is staged again, opened
\* twice, aborted or restarted in between ("One-attempt native intents").
SentOnce == \A s \in Signals : posted[s] <= 1

\* The inductive invariant of the boundary queue.
BoundaryInvariant ==
    /\ TypeOK
    /\ HandHeld
    /\ StreamHeld
    /\ BatchHeld
    /\ UnsentHeld
    /\ SentOnce

\* No signal outlives an open of its stream: once a release is through, nothing
\* that was due at or before it waits for another chance.
NothingOverdue ==
    pc = "released" =>
        \A s \in Signals : StreamOf[s] = boundary.stream /\ Waiting(s) =>
            StartOf[s] > boundary.start

\* An order is sent for the very open its signal waited for, seen live and at
\* most Deadline ago, by the process that staged it, for the deployment the worker
\* runs: however long sizing, the attempt lock and the safety lock took.
SentAtItsOpen ==
    [][\A s \in Signals : posted'[s] # posted[s] =>
          /\ boundary.stream = StreamOf[s] /\ boundary.start = StartOf[s]
          /\ boundary.sound
          /\ Timely(boundary.seen, StartOf[s])
          /\ Timely(clock, StartOf[s])
          /\ rows[s] = [state |-> "PREPARED_ONCE", owner |-> life]
          /\ s \in served]_vars

\* "This is not a restart replay queue": no later process changes, releases or
\* sends what an earlier one staged.
OldSignalsStay ==
    [][\A s \in Signals : rows[s] # Absent /\ Foreign(s) =>
          rows'[s] = rows[s] /\ posted'[s] = posted[s]]_vars

\* While a stream holds a waiting row of an earlier process, no order of that
\* stream is sent: "BOUNDARY_PREVIOUS_OWNER_RECONCILIATION_REQUIRED".
HeldByOldSignal ==
    [][\A s, c \in Signals :
          posted'[s] # posted[s] /\ StreamOf[c] = StreamOf[s] /\ Waiting(c) =>
              ~Foreign(c)]_vars

\* The order of a signal is closed, or nobody has it in a batch any more.
Over(s) ==
    \/ intents[s] \in {"ABORTED", "BLOCKED", "SENT"}
    \/ intents[s] # "none" /\ s \notin batch

\* "The outer dispatcher aborts every deferred POST when any exception escapes",
\* and for good: not even a journal that could not be told, the same open
\* reported again or a restart brings one of those orders to the broker.
FailureDropsAll ==
    [][/\ pc = "abort" /\ pc' # "abort" => \A s \in batch : Over(s)'
       /\ \A s \in Signals : Over(s) =>
             intents'[s] = intents[s] /\ posted'[s] = posted[s]]_vars

=============================================================================
