# A verification development for live_trader

TLA+ models of `live_trader`, the part of the program that sends real orders
to Upbit, Binance and KIS: what must never happen between a strategy's decision
and a broker's acknowledgement, checked with TLC on small instances and, where
it matters most, proved with TLAPS for instances of every size.

Line numbers below are those of the files under `live_trader/` unless another
directory is named.

## 1. The system

`live_trader` is one Python process (`server.py`, `desktop.py`, `daemon.py`)
with many threads: HTTP requests of the operator, the pywebview bridge of the
desktop window, one supervisor thread for each running strategy scope, a
watchdog, websocket streams. The threads share module-level dictionaries
(`state.STATE`), half a dozen process-wide locks, and several SQLite files.
Everything that decides whether an order may leave goes through them.

```
 strategy cycle --(RUNTIME_MODE_LOCK)--> defer -> intent journal (SQLite)
        |                                             |
        | lock released                               v
        +------> dispatch --(_DISPATCH_ATTEMPT_LOCK)--> claim
                                                      |
 operator / runner orders ----------------> submit_order_intent: gates
                                                      |
                         program ledger (SQLite) <- checkpoint (reserve key)
                                                      |
                    (SAFETY_CONFIRMATION_MUTATION_LOCK) last check
                                                      |
               (broker route lock) (_DISPATCH_BOUNDARY_LOCK) latch check
                                                      |
                                                    POST -> settle -> finish

 controls: set_flag, set_mode, STOP, settings --(SAFETY)--> new generation
 Kill: native bridge / operator --(boundary, write lock)--> latch document
```

### 1.1 Components

For each component: the state it keeps, its operations, what makes it correct.
`PROJECT.json` lists the files of each with its status.

**Emergency-stop latch and Kill Switch** (`emergency_stop.py`; `set_flag`,
`recover_durable_emergency_stop`, `_apply_durable_emergency_stop_recovery` in
`state.py`). State: the latch document and its `.initialized` marker on disk;
the process's sticky failure reason and the last active revision it saw;
`STATE["kill_switch"]`; the revision the recovery has handled. Operations:
engage (bridge or operator), release with an expected revision, the status
read, the dispatch boundary, the recovery. Correct when no POST is in flight
under a Kill that was acknowledged, a release clears only what was confirmed, a
damaged or lost document reads as stopped, and a Kill from outside the API is
published in `STATE`.

**Deferred order journal and dispatcher** (`continuous_dispatch.py`). State: one
row per command (`QUEUED`, `BLOCKED`, `DISPATCHING`, `COMPLETED`, `UNKNOWN`,
`ABORTED`, `RESOLVED`) with the owner token and control generation it was queued
under; the batch of the running cycle. Operations: enqueue, claim, finish,
reconcile, the cycle boundary, dispatch. Correct when a row is dispatched at
most once, by the process and under the generation that queued it, when nothing
is dispatched beside an order whose outcome is open, and when a restart replays
nothing.

**Order submission and durable dispatch record** (`submit_order_intent`,
`dispatch_live_order_with_checkpoint` in `state.py`; `order_dispatch_journal` in
`program_ledger.py`). State: one record per idempotency key, orders in memory
(`LIVE_OMS`, external). Operations: the duplicate check, the risk gates, the
checkpoint, the final fence, the POST, the terminal save. Correct when one key
reaches a broker at most once, every POST follows a durable reservation, and a
lost answer is never taken for a refusal.

**Control generations, STOP and the safety lock**
(`_serialized_safety_mutation`, `_continuous_stop_control` in `state.py`;
`begin_control`, `end_control`). State: the generation, the set of controls in
progress, three locks. Correct when no order queued before a control leaves
during or after it, and when no cycle of locks keeps a STOP waiting for ever.

**Shared new-entry block** (`STATE["new_entries_blocked"]` with its companions
`broker_truth_blocked`, `daily_loss_entries_blocked`,
`manual_new_entries_blocked`). One boolean raised for six reasons and cleared by
the recovery of several of them. Correct when no recovery clears what another
cause still needs.

**Continuous live controller** (`continuous_live.py`). State: running scopes and
their supervisors. Operations: handle a closed bar, defer, submit deferred,
reconcile, start, stop. It owns the cycle boundary of the journal.

**Portfolio sleeve ledger** (`portfolio_execution.py`; the portfolio cycle in
`continuous_live.py`; the execution poll in `state.py`). State: accepted orders
and booked events in SQLite, from which the shares of each sleeve are summed; the
execution rows of the program ledger; in memory the listed orders, how much of
each was counted, and the account as last polled. Operations: plan the net of
several sleeves, cross the rest inside, validate before the POST, record the
accepted order, poll executions, book them, recover after a restart. Correct
when no sleeve sells what it does not own, fills are counted once whatever their
order and repetition, the sleeves add up to the account, and one order at a time
is open.

**Cross-runtime order coordination** (`order_coordination.py`,
`order_coordination_retirement.py`). State: claims of symbols and intents in a
coordinator outside the repository, shared with other programs; the retirement
journal beside it (stopped sessions, one proof and one answer per order).
Operations: claim, reserve, register, begin, submit, record, give up; stop a
session, read the broker's truth of its orders, settle, release. Correct when an
order is sent once and only of a symbol its session owns, and a symbol changes
hands with nothing open, on its way or owned, whatever failed in between.

**KIS shared KRW reservations** (`kis_shared_krw_*.py`). State: a pool with a cap
and a chain of reservations per account. Operation: a compare-and-set insert.
Correct when the reservations never exceed the cap, with no release.

**Native open boundary** (`native_open_boundary.py`; the boundary handler in
`continuous_live.py`; `native_order_ticket.py`). State: a SQLite row per one-attempt
signal with its owner and the open it waits for. Operations: stage, release at an
open, the ticket checks of a deferred order. Correct when a signal is sent at most
once, for the very open it waited for and within its deadline, by the process that
staged it; when none outlives an open of its stream; and when an exception sends
nothing of its cycle.

**Process and runtime leases** (`process_safety.py`, `runtime_scope.py`). State:
kernel file locks. Correct when at most one process is the writer of a scope.

**Functional lanes** (`upbit_*`, `binance_spot_*functional*`,
`kis_domestic_functional_*`, `crypto_first_live_*`, `short_live_*`). Separate
order paths with one-shot permits and ledgers of their own. They meet the
ordinary path at the route locks and at the dispatch boundary, which `KillLatch`
models for all of them.

**Governance, KIS operational authority, preparation and observation, limits,
adapters, hosts, UI**: admission checks, evidence documents, pure arithmetic and
I/O; see `PROJECT.json` for the files and for why they are not modelled.

### 1.2 What is hard here

The locks are taken in the order SAFETY, route, boundary, write; the runtime lock
is never held while SAFETY is waited for; SQLite commits are the only thing a
restart keeps; failures of storage are handled at each step by different code;
and three of the shared facts (the latch, the control generation, the entry
block) are read early, re-read late, and may change in between. The hazards in
`PROJECT.json` name each place by its line.

## 2. Modules

| module | what it is |
| --- | --- |
| `KillLatch` | the Kill Switch: document, marker, sticky state, `STATE`, recovery, senders' last gate |
| `MCKillLatch` | its instances: an ordinary sender on one route, a functional one on another |
| `KillLatchProofs` | theorems about `KillLatch` |
| `OrderPromise` | the abstract promise of deferred dispatch: a fate per command, a set of live ones |
| `ContinuousDispatch` | journals, submission, ledger record, control generations, reconciliation, restarts |
| `MCContinuousDispatch` | its instances |
| `ContinuousDispatchProofs` | theorems about `ContinuousDispatch`, the refinement of `OrderPromise` among them |
| `ContinuousRowsProofs` | theorems about what the rows of the journals say of the ledger |
| `SleeveLedger` | net plans, the portfolio cycle, the KIS execution path and the booking of fills |
| `MCSleeveLedger` | its instance: a sleeve that buys two shares at a time and one that buys one |
| `SleeveLedgerProofs` | theorems about `SleeveLedger`: no sleeve is ever short |
| `SumTheorems` | lemmas about sums and ranks over finite sets, with the induction they need |
| `SleeveAccountProofs` | theorems about `SleeveLedger` that count shares: divisions, the account, the targets |
| `OrderCoordination` | sessions that share symbols with other programs: sending, stopping, retiring |
| `MCOrderCoordination` | its instance: a buy and a reducing sell of one symbol |
| `OrderCoordinationProofs` | theorems about `OrderCoordination` |
| `NativeBoundary` | signals that wait for the open of the next bar, from their staging to the broker call |
| `MCNativeBoundary` | its instance: two signals of one open and one of the next |
| `NativeBoundaryProofs` | theorems about `NativeBoundary` |

The detailed modules meet at one point each, and each takes the others there as a
choice. `KillLatch` has what happens inside the dispatch boundary and knows
nothing of keys or journals; `ContinuousDispatch` has what leads to the fence and
takes the latch for one more reason to refuse (`FenceRefuses`). `SleeveLedger`
has what a portfolio order is made of and what its fills do, and takes the rest of
the dispatch for `CycleDrops`, `Sends`, `AckSaved` and `AckLost`: that an order
whose outcome is open holds the journal is `UncertaintyHolds` of
`ContinuousDispatch`, and a guard of `GateClears`. `OrderCoordination` has what
happens inside the broker call (`LiveBrokerRouter._coordinated_send`), the POST of
the other modules being its `SenderPosts`. `NativeBoundary` has one cycle of one
worker from end to end, and takes the races of the dispatch, which
`ContinuousDispatch` has, for `fresh` (the control generation), `GateAllows` and
`Refuses`.

### 2.1 KillLatch

Threads: senders (`Ordinary` ones hold SAFETY as `dispatch_live_order_with_checkpoint`
does, `Functional` ones only their route), native bridge calls, the operator's
`set_flag` request, the recovery. A thread's `pc` stands between two critical
sections of the code; an action is what happens under one lock acquisition, or
one system call on the disk where a crash may fall between two. So an engage is
boundary, write lock, marker, `os.replace`, verification; a write that raises
and a verification that fails are actions of their own.

The document is `absent`, `corrupt`, `on` or `off`. Revisions are nonces, drawn
from 1 on; the fixed strings that unreadable documents get are the numbers below
it, so that two documents that read alike compare equal in the model as in the
code. `kill` is a history variable: the strongest Kill that was acknowledged and
not released, `durable` when the engage verified its document, `process` when it
failed and only this process knows. A challenge of the operator is an outcome
(consumed or failed), not a token.

Faults: a write raises, the document is lost, the document is spoiled, the
directory is lost, the process restarts. `LatchFaults` says which can happen in
a run.

### 2.2 ContinuousDispatch

Threads: workers (each with the journal of its scope), desks (orders submitted
without a journal: by the operator, by the runner), controls (`Mutators` hold
SAFETY while they run, `Stoppers` only while they publish and retire), the
reconciler. `rows` are the journals, `ledger` the dispatch records, `posted` what
a broker received; these survive `Crash`, which gives the process a new `life`
(the owner token) and `epoch` (the control generation).

| code | actions |
| --- | --- |
| `ContinuousDispatcher.__enter__`, `__exit__` | `StartCycle`, `CycleEnds`, `CycleFails`, `AbortNext` |
| `defer`, `IntentJournal.enqueue` | `EnqueueReads` (the authority is read before the transaction), `EnqueueInserts`, `EnqueueFails` |
| `dispatch`, `claim` | `TakeAttempt`, `Claims`, `ClaimRefused`, `ClaimFails` |
| `submit_order_intent` up to `LIVE_OMS.create` | `GateRefuses`, `GateDuplicate`, `GateAllows`, `GateRaises` |
| `checkpoint_order_dispatch` | `Checkpoints`, `CheckpointExists`, `CheckpointFails` |
| the final fence | `FenceRefuses`, `FenceChecks` |
| the broker call | `Posts`, `PostReturns` |
| the `finally` block, `update_order_dispatch` | `Settles`, `SettleFails` |
| `finish`, the exception handler | `Finishes`, `FinishRaises`, `RaiseCloses` |
| callers of `submit_order_intent` beside the journal | `DeskAsks`, `DeskAnswered` |
| `_serialized_safety_mutation` | `ControlAsked`, `MutationBegins`, `MutationEnds` |
| `_continuous_stop_control`, `stop_continuous_runtime` | `ControlAsked`, `StopPublishes`, `StopChangesMode`, `StopEnds` |
| recoveries that clear the entry block, the operator | `EntriesReopen` |
| broker reconciliation | `ReconcileReads`, `ReconcileCloses` |
| the process ends and starts | `Crash` |

Data: a command is its identity hash, a key is the idempotency key of its order
(several commands may share one), a seal is the command's name. The gates of the
risk chain are one refusal that may happen at any time, and the two checks that
the properties speak of (the generation and the entry block, `Authorised`) are
guards of `GateAllows` and `FenceChecks`. `LIVE_OMS` is not in the repository:
`Racing` lets two submitters that are at it together both create the order of a
key, which is the least it can promise, and the ledger has to make up for it.

Operations of the code that take several `QUEUED` rows in a loop are one action
per row with the batch as a sequence. A storage failure is charged to `faults`.

### 2.3 OrderPromise

Each command is `new`, `pending`, `sent` or `closed`; `live` are the pending ones
that may still be sent. `FateOf` maps the detailed state: a command is sent when
the ledger carries its seal and the broker has the request; pending while its row
is queued or dispatching in this life; live while no control came since.
`KeepsPromise` says that `ContinuousDispatch` implements it.

### 2.4 SleeveLedger

Several sleeves, one symbol, one dedicated account. The worker's `pc` follows a
portfolio order from its plan to its acceptance; `poll` follows an execution poll;
a sync (`SyncRecovers`, `SyncBooks`) may run at any time, because every reader of
a position starts one.

| code | actions |
| --- | --- |
| `_handle_portfolio_cycle_locked` | `CyclePlans`, `CycleCrosses`, `CycleDrops` |
| `validate_portfolio_execution_dispatch` | `GateClears`, `GateReads`, `GateDecides` |
| dispatch of the order, its terminal save | `Sends`, `AckSaved`, `AckLost` |
| `submit_order_intent`, the insert into `STATE["orders"]` | `OrderListed`, `ListEvicts` |
| `record_accepted_order`, `recover_accepted_orders` | `AckRecorded`, `AckRecordFails`, `SyncRecovers` |
| `apply_execution_events` of the ledger | `SyncBooks` |
| `_poll_execution_events_unlocked` | `PollReads`, `PollApplies`, `PollRecords`, `PollFails` |
| the KIS WebSocket notice | `NoticeSaved` |
| `restore_runtime_from_checkpoint` | `Restart` |
| KIS (external) | `BrokerFills`, `BrokerCancels` |

`NetPlan`, `Crossed` and `Shares` are `build_symbol_net_plan`,
`_split_internal_and_external_allocations` and `_proportional_signed_quantities`,
in exact arithmetic where the code has 28 digits (only the order of equal
remainders can differ). `levels` are the identities of the saved rows (a cumulative
fill of an order has one), `tally` the shares they carry. A sync books in one
transaction; here each order is a step, which `OneOpenOrder` justifies: there never
is a second one to book.

A poll reads the executions first and the balance in a later call (`PollReads`,
`PollApplies`): the broker may fill between the two.

The properties are for executions that reach the rows by the poll alone
(`PolledOnly`). A WebSocket notice is kept as an action because the code takes it
in: it has another identity than the poll's row of the same shares, and nothing
subtracts one from the other.

### 2.5 OrderCoordination

Senders are threads inside `LiveOrderCoordination.dispatch`, by the worker of a
session or by the operator in its name; retirers are threads inside
`reconcile_stopped_owner`, after a stop or an explicit account refresh, any number
at a time. The coordinator's operations (`Claims`, `Releases`, `Reserves`,
`FirstSubmission`, `Settles`) are modelled from their callers and from the errors
the tests expect, each one transaction. One of them carries the argument: a
terminal status `CANCELLED_BEFORE_SUBMIT` is only taken for an intent that is
still reserved.

| code | actions |
| --- | --- |
| `dispatch` up to the claim | `SenderStarts`, `SenderClaims`, `SenderClaimFails` |
| `reserve_intent`, the release after a failure | `SenderReserves`, `SenderGivesUp` |
| `LiveRetirementJournal.register` | `SenderRegisters`, `SenderRegisterFails` |
| `begin_submission`, `submit()` | `SenderBegins`, `SenderBeginFails`, `SenderPosts` |
| `_result`, `record_result`, `response` | `SenderHears`, `SenderRecords`, `SenderEnds`, `SenderEndsUnrecorded` |
| `mark_stopped` | `SessionStops` |
| `reconcile_stopped_owner` | `RetireStarts`, `RetireFinds`, `RetireConfirms`, `RetireReads`, `RetireFindsFlat`, `RetireBlocked`, `RetireEnds` |
| `reconcile_release` | `RetireFindsAgain`, `RetireConfirmsAgain`, `RetireSettles`, `RetireReleases` |
| the process ends | `Crash` |
| other programs, the broker (external) | `OtherClaims`, `OtherLeaves`, `BrokerTakes`, `BrokerEnds` |

An order is one unit that is filled or not, `Net` counts buys against sells; a
request on the `wire` may arrive after its sender gave up or the process ended, and
may be lost. An answer with an order id is `ACKNOWLEDGED` whatever status it names,
because a retirement asks the broker about that order either way; `REJECTED` is the
rejection without an id, which it takes from the journal. A status `UNFILLED` stands
for `CANCELED`, `REJECTED` and `EXPIRED`, which are settled alike. An order the broker
refused is not shown by it. A retirement works
with the list of intents it read first (`listed`); each later step reads the
coordinator or the broker anew, as the code does, and any exception is
`RetireBlocked`, which leaves the symbol claimed.

### 2.6 NativeBoundary

One worker takes closed bars and opens in turn, as the engine's thread does. `pc`
says where it stands: the open it was handed, the row of `release` it has in hand,
the exception on its way out, the dispatch of the batch. Controls, the clock and a
crash come between any two of its steps; a stop joins the worker before the engine
can be replaced, so `Serves` changes the deployment between two cycles only.

| code | actions |
| --- | --- |
| `stage` from `_stage_native_cycle` | `Stages` |
| the feed's report of an open (external) | `BoundaryObserved` |
| `_handle_native_open_boundary` before `release` | `LeavesOpen`, `ReleaseReads` |
| `release`, a row | `MeetsForeign`, `NotDueYet`, `Claims`, `Records`, `ReleaseEnds` |
| `prepare`, `defer` | `Prepares`, `PreparesDry`, `PrepareRefuses` |
| `ContinuousDispatcher.__exit__` | `CycleEnds`, `CycleRaises`, `Aborts` |
| `claim`, `_submit_deferred_intent`, `validate_native_ticket` | `Dispatches`, `GateAllows`, `Refuses` |
| `live_broker_dispatch_allowed` under SAFETY, the POST | `Posts` |
| `begin_control`, start and stop | `ControlBegins`, `Serves` |

A row is its state and the owner token of the process that staged it (`life`); the
payload and its seal are the signal's name. `sound` is everything `release` asks of
the origin of an open, `seen` when it was observed, `asOf` the `now` that release
reads once for all rows. The store returns rows in the order of their hashes, which
say nothing of their opens: any order. Sizing and the gates of the risk chain are a
choice between going on and refusing, the 15 seconds that a ticket allows its
preflight among them. A failure of storage is an exception where it strikes
(`CycleRaises`); in `Aborts` it leaves any part of the batch unclosed in the
journal, which no one dispatches any more. The clock counts in units of which
`Deadline` makes thirty seconds, and what `Posts` shows of time is the last look at
it under SAFETY: the travel of the request comes after.

## 3. Properties and runs

Run a configuration from this directory with `tlc -config <cfg> <module>`; the
module is `MCKillLatch`, `MCContinuousDispatch`, `MCSleeveLedger`,
`MCOrderCoordination` or `MCNativeBoundary`, after the name of the configuration.

| run | configuration | checks | what it shows |
| --- | --- | --- | --- |
| `kill_safety` | `KillLatchSafety` | `TypeOK`, `NoPostUnderKill`, `NoOrdinaryPostUnderSwitch`, `ReleaseOnlySampledKill`, `LatchInvariant` | two kinds of sender, the bridge, the operator, the recovery, every fault, one restart: STOP wins or POST wins, never both; the latch still knows every Kill not released |
| `kill_liveness` | `KillLatchLiveness` | `EngageReturnsEventually`, `ReadableKillPublished` | with two losses of the document and a restart: the bridge's call returns; a Kill on a readable document, from outside the API or found at the restart, reaches `STATE` unless it is released or lost first |
| `kill_unchallenged` | `KillLatchUnchallenged` | `ReleaseIsChallenged` (violated) | finding 1 |
| `dispatch_journal` | `DispatchJournal` | `FencedSend`, `RowsAgreeWithLedger`, `SendIsReserved`, `UncertaintyHolds`, `OldRowsOnlyResolve` | one journal, two orders, a control, a STOP, reconciliation, two failures, a restart |
| `dispatch_shared_key` | `DispatchSharedKey` | `DispatchInvariant`, `RowsInvariant`, `OnePostPerKey`, `KeepsPromise` | two journals whose commands share a key with an order of the operator, racing through `LIVE_OMS`; the refinement; both inductive invariants of the proofs |
| `dispatch_liveness` | `DispatchLiveness` | `ControlReturns`, `AttemptEnds` | a control that keeps SAFETY and a STOP that takes it twice both return; an attempt ends |
| `dispatch_rejected` | `DispatchRejected` | `DefiniteEvidenceCloses` (violated) | finding 2 |
| `dispatch_unrecorded` | `DispatchUnrecorded` | `UnrecordedOutcomeHolds` (violated) | finding 3 |
| `sleeve_safety` | `SleeveSafety` | `SleeveInvariant`, `NoSleeveShort`, `ValidIsTrue`, `Conserved`, `AccountInvariant`, `OneOpenOrder`, `ReachesTargets` | two sleeves, two orders, fills share by share, cancels, one disturbance of any kind: no sleeve is short, no share is lost in a division, a validation that passes is true until the order is sent; both inductive invariants of the proofs |
| `sleeve_restart` | `SleeveRestart` | `BookedIsExecuted` (violated) | finding 4 |
| `order_coordination` | `OrderCoordination` | `CoordinationInvariant`, `PostedOnce`, `NothingLeftBehind`, `NothingStillOwned`, `PostsOwnSymbol` | two senders, a retirement with stale lists, another program, restarts at any time: an order is sent once, of an owned symbol; a symbol is handed over empty |
| `native_boundary` | `NativeBoundary` | `BoundaryInvariant`, `SentOnce`, `NothingOverdue`, `SentAtItsOpen`, `OldSignalsStay`, `HeldByOldSignal`, `FailureDropsAll` | opens on time, late, twice, out of order or unattested, two failures, controls, another deployment, a restart: an order is sent once, at its own open and in time, by the process that staged it; an exception drops its cycle for good |

Each property of a passing run has a mutant in `PROJECT.json`: a definition of the
model with a plausible bug of the code put in (the engage does not wait for the
boundary, the release ignores the revision, an enqueue replaces the row it finds,
a send trusts the gate it passed before the lock), under which TLC finds the
property violated.

### Bounds, and why they are enough

- `MaxRequests` (Kill requests): three are the engage, its release, and the
  engage that races with the release, or that follows it with the same recovery.
- `MaxFaults`: one fault in each of the code's handlers, two where a handler's
  own failure is handled again (`finish`, then `finish("UNKNOWN")`). Sequences of
  faults and restarts of any length are what the theorems are for.
- `MaxCrashes`: one restart separates the lives the code tells apart (this owner
  or another).
- `MaxEpoch` is the generation at which controls are no longer asked for: 3
  allows a control that has published to meet a second one before it ends.
- Two commands are the least that can hold each other up, share a key, or lie in
  two journals; two keys the least that can be confused. With one worker both
  commands are in its batch; with two workers each has its own. The liveness run
  has one command and both kinds of control.
- Senders: one of each kind (in the liveness run the ordinary one, which takes every
  lock a functional one takes). Which of two senders of the same kind waits for a
  lock makes no difference to a property that speaks of each sender by itself;
  the theorems have no such bound.
- `SleeveLedger`: two sleeves that want different quantities are the least that
  must share a fill unevenly; three shares of an order give fills of one and two,
  where the remainders decide; two orders let the second follow one that was
  filled, canceled half way or lost. One disturbance is any single fault between
  any two steps; two sleeves have monotone shares, and three, where one more share
  may take one back from a sleeve (allocations 1, 3, 3: three shares are 1, 1, 1,
  four are 0, 2, 2), are left to the theorem.
- `OrderCoordination`: a buy and a sell are the least that can leave something
  owned; two senders the least that can dispatch one order twice or send while the
  other's symbol is retired. The run has one retirement, which restarts and comes
  again; two retirements that each settle a part of the orders are covered by the
  theorems (with one sender they were also checked). Nothing else is bounded:
  `posts` is bounded by `PostedOnce` itself.
- `NativeBoundary`: two signals of one open are the least of which one can raise when
  the other is deferred; a third one waits for the next open of the stream, so that an
  open can come before, at and after its own. Two deployments differ in one signal. The
  clock runs from 0 to 3 with opens at 1 and 2 and a deadline of 1: before, at, within
  and past the deadline of the first, and the first past it while the second is not.
  Two failures are an exception and a journal that cannot record the abort.
- Symmetry is used where the run has no liveness and the parts are interchangeable:
  the two senders of `order_coordination`, and in `dispatch_shared_key` the two
  journals, each with its worker and its command (`EitherJournal` permutes them
  together).

The next-state relations of the passing runs fire every action between them:
`EnqueueFails`, `RaiseCloses` and `SettleFails` in `dispatch_journal`, the desks in
`dispatch_shared_key`, the storage faults in `kill_safety`.

No configuration turns deadlock checking off. The operator's requests and the
crashes are bounded, but the senders, and the cycles of the workers, never are.

### Fairness

`KillLatch` and `ContinuousDispatch` state fairness only for code that runs by
itself. Python's `RLock` wakes some waiter, not the first, so an action that takes
a lock gets strong fairness (it happens if the lock is free again and again) and
the straight-line code after it weak fairness, which is what a runnable thread
has. A POST returns: every adapter sends with a timeout (`brokers.py`,
`live_adapters.py`), and the exception it raises is an answer of `PostReturns`
(`unknown`). `CycleEnds` is strongly fair because a cycle may go on to enqueue in
between but evaluates a finite list. Nothing is assumed of the operator (who may
never ask or confirm), of storage failures, crashes, `EntriesReopen` or of new
cycles starting. The watchdog thread calls the recovery in every round (`server.py:1436`), so
`RecoveryAdvances` is fair as long as a latch is active.

`SleeveLedger`, `OrderCoordination` and `NativeBoundary` state no fairness: their
properties are safety, and what must happen eventually there waits for an operator or
for a feed.

`ControlReturns` needs that no worker waits for SAFETY while it holds the runtime
lock: this is why the dispatcher releases it before the first dispatch.

## 4. Proofs

`tlapm` on each of the seven `...Proofs.tla` modules and on `SumTheorems.tla` checks
everything. The assumptions are the named ones of the modules: `ThreadsDistinct`,
`RoutesTyped`, `BoundsTyped`, `SleevesTyped`, `QuantitiesTyped`, `DisturbancesTyped`,
`OwnersTyped`, `OrdersTyped`, `SignalsTyped`, `LimitsTyped` (kinds of thread do not
overlap, functions are typed, bounds are numbers). Nothing is assumed of the number of threads, commands, keys,
routes, sleeves, orders, symbols, signals, streams, faults or restarts.

| theorem | says |
| --- | --- |
| `KillLatchProofs!Invariant` | `Spec => []LatchInvariant` |
| `TypeCorrect`, `StopWins`, `SwitchExcludesPost` | `TypeOK`, `NoPostUnderKill`, `NoOrdinaryPostUnderSwitch` |
| `ReleaseComparesAndSets` | `ReleaseOnlySampledKill` |
| `ContinuousDispatchProofs!Invariant` | `Spec => []DispatchInvariant` |
| `AtMostOnce`, `ControlsFence` | `OnePostPerKey`, `FencedSend` |
| `SendsAreReserved`, `UncertainHolds`, `OldRowsResolve` | the three action properties |
| `DispatchKeepsItsPromise` | `Spec => KeepsPromise`, the refinement of `OrderPromise` |
| `ContinuousRowsProofs!RowsInvariantHolds`, `RowsTellTheLedger` | `Spec => []RowsInvariant`, `RowsAgreeWithLedger` |
| `SleeveLedgerProofs!Invariant`, `NoShort` | `Spec => []SleeveInvariant`, `NoSleeveShort` |
| `SleeveAccountProofs!NetPlanBalanced`, `SharesTotal` | a net plan is `Balanced`; `Total(Shares(plan, filled)) = plan.side * filled` |
| `AccountExact` | `Spec => []AccountInvariant` |
| `SharesConserved`, `ValidationTrue`, `OneToBook`, `TargetsReached` | `Conserved`, `ValidIsTrue`, `OneOpenOrder`, `ReachesTargets` |
| `OrderCoordinationProofs!Invariant` | `Spec => []CoordinationInvariant` |
| `Once`, `LeavesNothing`, `OwnsNothing`, `PostsOwn` | `PostedOnce`, `NothingLeftBehind`, `NothingStillOwned`, `PostsOwnSymbol` |
| `NativeBoundaryProofs!BoundaryInvariantHolds` | `Spec => []BoundaryInvariant` |
| `NoSignalSentTwice`, `NothingMissedWaits` | `SentOnce`, `NothingOverdue` |
| `EveryOrderAtItsOpen`, `RowsOfTheDeadStay` | `SentAtItsOpen`, `OldSignalsStay` |
| `OldSignalsHold`, `NoOrderSurvivesFailure` | `HeldByOldSignal`, `FailureDropsAll` |

**Why `NoPostUnderKill` needs more than itself.** An engage is acknowledged in the
step that verifies the document, and no sender may be at its POST then: that is
`LocksHeld`, both being inside the boundary. The other way round, a sender that
passes its check must have read what `kill` says, so the latch has to know it:
`LatchKnowsKill` says that a durable Kill reads active from the disk alone (the
marker exists before any document, so a lost document reads as stopped) and that
a Kill of this process is in the sticky state, except while its release is
verifying, holding the write lock that every read needs. `ReleaseFacesSampled`
carries the comparison of `clear_emergency_stop` from the lock acquisition to the
write, for `ReleaseComparesAndSets`.

**Why `OnePostPerKey` does.** `ReservationHeld`: a key nobody reserved was never
posted; a submitter at the fence owns its key's record, alone, and nothing was
posted for it. The checkpoint is an insert that only one of two racing
submitters makes, so the race in `LIVE_OMS` is harmless, and a crash leaves the
record behind. `FencedSend` needs `LocksHeld` (a control publishes under SAFETY,
which a sender holds) and `ClaimHeld` (the row being sent is still this life's,
still `DISPATCHING`, and its journal holds nothing open), for which
`AuthorityIsPast` bounds what earlier lives can have written.

**The refinement** has a lemma per kind of step: an enqueue accepts or refuses, a
POST sends, a publication invalidates, a restart closes what was pending, and
everything else either closes pending commands or stutters. A POST of an order
can only be the first for its key by `ReservationHeld`, which is the guard of
the abstract `Send`; it finds its command live by `FencedSend`.

**Why `RowsAgreeWithLedger` needs more than `DispatchInvariant`.** A row is closed by
the submitter that carries the result of its order, or by a reconciliation that read
the ledger earlier. `RowsInvariant` adds what each of them holds: what a batch queues is queued in the
journal, once, up to the command of the attempt (`QueueHeld`); the ledger carries the
seal of a row only after it was claimed, stays pending while its submitter is past the
checkpoint, and agrees with the result the submitter takes to `finish` (`SealHeld`);
and what the reconciler read of a settled order is still true when it closes the rows,
however old its copy is (`ImageHeld`).

**Why the boundary's theorems hold.** The row is consumed before anything is deferred,
so an order of a waiting row cannot exist (`UnsentHeld`), and `stage` never touches a
row that exists: this gives `SentOnce`. A release has seen every row of its stream
(`StreamHeld`): what it leaves waiting is its own and opens later, and a row of an
earlier process ends it, so the batch that is dispatched stands beside no such row
(`HeldByOldSignal`). An order in the batch was found eligible at the open at hand by
this process (`HandHeld`, `BatchHeld`), the worker keeps that open until its batch is
empty, and the age is looked at in the very step that sends (`SentAtItsOpen`). For
`FailureDropsAll` it is enough that an order is deferred once and only from a batch:
one that left it has no way back.

**Why `NoSleeveShort` needs more than itself.** Rows may be lost, doubled or late
(`PollFails`, `ListEvicts`, `Restart`), so nothing follows from comparing them with
the broker. What is kept is that one order moves the sleeves at a time
(`OneOrderMoves`): when an order is sent every earlier one is `Frozen`, which means
booked in full, or ended with every row of it saved; an order that is frozen never
moves again, because an ended order has no new fill to report (`EndsAreFinal`) and
a full one cannot be booked further (`Bookable`). The validation establishes it: a
sync that succeeded with nothing pending leaves every accepted order frozen, and
every order that was sent is accepted by then. Between its acceptance and its end
the sleeves are the plan's base, its internal crosses and the `Shares` of what was
booked; a share never exceeds its allocation (`SharesRange`, where the remainder
of a division needs its own lemmas), and the plan is `Sound`: no sleeve is short
before the order, after the crosses, or at its target.

**Why `ValidIsTrue` does.** It compares the account with the sum of the sleeves, so
it must be known what makes the two differ. `AccountInvariant` adds to
`SleeveInvariant` that every plan is `Balanced`, that the broker executes no more
than was ordered (`FillsBounded`), that the sleeves together hold what was booked
(`Conserved`), and `AccountFollows`: all orders but the last are `Over`, filled or
known to have ended, so that sleeves and account differ by just what was executed
and not booked of the last one. At the validation every order is frozen, nothing
more will be booked; if the account that was read agrees with the sleeves, all that
was executed of the last order is booked, so it was filled, or it was canceled and,
`Pending` being empty, the ledger knows. No order is working then, and an account
nobody works on does not move until the order is sent. Without the clause on the
read account (`worker.holding`) the invariant is not inductive: the broker may fill
between `GateReads` and `GateDecides`, and only an account that disagreed can be
followed by that. `OneOpenOrder` is the same argument about what is booked. With
notices from the WebSocket (`~PolledOnly`) `Conserved` still holds, and is proved.

These proofs count. `Total` is a fold of the community modules, a recursive
function behind a `CHOOSE`: `SumTheorems` proves that this function exists for any
finite set (`SumsStep`) and from its recursion what sums do (`SumTakes`, `SumPlus`,
`SumTimes`, `SumTight`, `SumCounts`). The induction is on sets in place of
predicates (`NaturalsFromZero`, `SubsetsFromEmpty`, from the least element of a set
of naturals), because the theorems of the library take an operator that the provers
cannot instantiate. On them rest the two results about the arithmetic of the ledger.
`CrossedBalanced`: taking from the front, each at most what it wants, the two sides
of a cross take the same (`ClampsFill`), and the smaller side takes all
(`TotalTight`), so what is left for the broker is on the side of the net.
`SharesTotal`: the remainders of the division sum to the shares left over times the
quantity, each is less than the quantity and only a sleeve that can take one more has
one, so there are enough sleeves for them; and in a ranking of a finite set as many
elements as one asks for have fewer than that many before them (`RanksCount`).
`ReachesTargets` adds that a full fill is its allocation (`SharesFull`).

**Why `NothingStillOwned` does.** A terminal status on record is true of an order
that was sent (`SettledEnded`, from what a retirement read: `ReadersTrue`), and a
symbol that is not a session's has a status for each of its intents
(`HandedSettled`). That the orders together left nothing is harder: a retirement
judges the orders on its own list, and two retirements may each settle a part.
Lists are taken one after another, so the orders they show as not sent form a
chain (`ListsOrdered`), and there is always one list that justifies all that was
settled: what it shows as not sent was settled only if it never will be sent, and
the rest is flat (`FlatWhenSettled`). An order it shows as reserved can still begin
only while it is unsettled, and its symbol is then not released. `PostsOwnSymbol`
and `NothingLeftBehind` follow from the same facts about a sender past
`begin_submission` (`SendersAgree`): its intent is submitted and unsettled, so the
symbol cannot have been released since.

**Only model-checked.** The liveness properties (`EngageReturnsEventually`,
`ReadableKillPublished`, `ControlReturns`, `AttemptEnds`: fairness and `ENABLED` are outside
the prover's reach), and the four findings, which are counterexamples. Every safety
invariant and every action property of a passing run is a theorem.

## 5. Findings

1. **`ReleaseIsChallenged`**: `set_flag` decides that a release needs a challenge on
   a read at `state.py:13498`. A Kill engaged right after it is cleared with neither
   a challenge nor a revision to compare.
2. **`DefiniteEvidenceCloses`**: `reconcile` knows `rejected`, dispatch writes
   `broker_rejected`. A row that a restart leaves open after a rejection holds its
   journal for good.
3. **`UnrecordedOutcomeHolds`**: when the outcome and `UNKNOWN` both fail to be
   saved, the journal itself does not hold; the shared entry block does, until
   the recovery of another cause clears it.
4. **`BookedIsExecuted`**: what was already counted of an order's cumulative fill is
   remembered in memory only (`state.py:15077`). A restart between two partial fills
   rebuilds the order from its dispatch row, which knows no fills
   (`state.py:28735`), and the next poll counts the whole cumulative quantity again.
   The same happens without a restart to an order that is polled after its
   acknowledgement was saved and before it is listed (`state.py:25193`): the shortest
   trace. `handoff.md:1235` promises the opposite. The sleeves stay safe (no sleeve is
   short, and a mismatch with the account stops the portfolio): that is
   `sleeve_safety`.

Two remarks that have no configuration of their own. The recovery does not reach
every Kill: `handoff.md:1244` says that a Kill of the API and one of the bridge converge
to the recovery of one latch generation, and `KillConverges` states it. It fails (put it
in the place of `ReadableKillPublished` in `kill_liveness`, the bounds are enough): an
engage whose document is lost is recovered, and released; a second engage loses its
document too. Both losses read with one revision, so the recovery takes the second for
the one it has handled (`state.py:13402`). Sends stay refused by the latch; `STATE`, the
session stop and the cancels do not follow. `ReadableKillPublished` is what is left of
the promise: a document that can be read has a nonce of its own. And `state.py:24371-24373` and
`tests/test_order_dispatch_safety.py:389` say that the native bridge writes ON at once
and only its answer waits for a POST in flight. `emergency_stop.py:255-263` waits
first and writes then, as its own comment says and as `KillLatch` models it
(`EngageTakesBoundary`). `NoPostUnderKill` holds either way; a crash during that
wait loses the request.

## 6. Not modelled

Of the controls in `ContinuousDispatch`: `RUNTIME_CONTROL_LOCK`, which a STOP holds to
its end (`state.py:28246`) and `set_mode` takes too (12063); the joins of a STOP
(28283-28291): a STOP that joins a worker which waits for SAFETY, held by a `set_mode`
that waits for this STOP, goes on when the join gives up, and the supervisor, outside
the repository, may well return with the worker running (`continuous_live.py:761-768`);
the step of a STOP under SAFETY and the KIS route (28168); and
`FUNCTIONAL_TEST_AUTHORITY_DISPATCH_LOCK`, which senders take before SAFETY (24253) and
functional-test requests around one change of their authority (28392). `ControlReturns`
and `AttemptEnds` speak of the locks that are modelled only.

Of the sleeve ledger: prices, money, fees and their later adjustments, the hash
chain, other symbols, the reuse of broker order numbers on another day. `PollRecords` is one
step where the code saves the rows (`state.py:16557`) and publishes the account after
them (16576): a reader that comes between sees the new rows beside the account of the
poll before. `GateClears` takes it for granted that an order with an open outcome holds
the journal (`UncertaintyHolds`); the double failure of finding 3 removes that hold, and
what the sleeves do after it is not covered. Of the order
coordination: partial quantities, commissions in the base asset and the position
sides of futures in the net, a change of the account between two calls, the age of
evidence; and no liveness, because a blocked retirement is only tried again when the
operator refreshes the account. An intent that was reserved and whose proof could
not be saved keeps its symbol for good: fail-closed, as
`tests/test_order_coordination_retirement.py` (`test_missing_journal_retains_scope`)
wants it.

Of the native boundary: the seals of payloads, the sizing at the open and the marks
and funds it reads, `snapshot`, and that a row of an earlier process is cleared by
hand only.

Of the rest: a dispatch record left `unknown` is resolved by the operator and by
nobody else, and holds its journal until then, so there is no liveness to state; the
rollback of a rename that a power loss undoes; the back-off between attempts
of the recovery; the cancel flow, which writes `cancel_pending` over a dispatch
record; the individual risk gates, whose order does not change what leaves; the
environment variable that halts trading at the process level
(`TRADING_CONTROL_STATE_PATH`) and `build_idempotency_key`, `LIVE_OMS` and the
supervisor, which are in packages outside the repository. Whole components that
are left out, with the reason, are in `PROJECT.json`.

## 7. Plan

In this order; each is a module, an MC module, runs and, except where noted, a
proof module.

1. **EntryBlock** (`state.py`): the six reasons behind
   `STATE["new_entries_blocked"]`, their recoveries, the operator's release, the
   Kill's re-arm. Property: a recovery never clears what another cause raised.
   It continues finding 3. With it, the cancel flow in `ContinuousDispatch` or a
   module beside it.
2. **Money in `SleeveLedger`**: fees and their adjustments (an adjustment that
   returns to an earlier value repeats its identity), and broker numbers that repeat
   on another day.
3. **Partial quantities in `OrderCoordination`**, with the base commission in the net.
4. **KisSharedPool** (`kis_shared_krw_reservations.py`): the head hash as a
   compare-and-set; the cap, and idempotent replays. To be proved.
5. **ProcessLease** (`process_safety.py`, `runtime_scope.py`): kernel leases across
   restarts; composed with `NativeBoundary`, since the owner of a signal is the
   holder of the lease.
6. **FirstLive** (`crypto_first_live_coordinator.py`, `_high_water.py`): one
   exchange at a time, with a high-water record that a rollback of the store
   cannot pass.
7. Proofs still wanted: the cap of `KisSharedPool`, with the sums of `SumTheorems`; the
   holder of a lease.
