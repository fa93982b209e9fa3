------------------------- MODULE ContinuousDispatch -------------------------
(***************************************************************************)
(* Deferred orders of the continuous runtime: the intent journal of        *)
(* continuous_dispatch.py, the order submission of state.py it feeds, and  *)
(* the control generations that fence both.                                *)
(*                                                                         *)
(* A worker evaluates strategies while it holds the runtime mode lock and  *)
(* only queues what it wants to order.  Once the cycle is over it releases *)
(* the lock, claims each command of its batch at most once, reserves the   *)
(* idempotency key of the order in the program ledger, and sends the order *)
(* under the safety lock.  Operator controls invalidate every command      *)
(* queued before or during them; a crash starts a new life that owns none  *)
(* of the commands found in the journal.                                   *)
(*                                                                         *)
(* Each worker has a journal of its own: `Commands` of different workers   *)
(* are rows of different files.  A command is the identity enqueue hashes, *)
(* a key the idempotency key of the order; commands may share a key.       *)
(***************************************************************************)
EXTENDS Integers, Sequences, FiniteSets

CONSTANTS
    Workers,     \* threads that run closed-bar cycles, one journal each
    Desks,       \* threads that submit an order of their own, without a journal
    Commands,    \* identities of deferred intents
    Keys,        \* idempotency keys of orders
    HomeOf,      \* the worker whose strategies evaluate a command
    KeyOf,       \* the idempotency key the order of a command gets
    Reducing,    \* commands verified to reduce risk
    Mutators,    \* controls that hold the safety lock while they run
    Stoppers,    \* STOP controls, that only publish under the safety lock
    Reconciler,  \* the thread that runs broker reconciliation
    NoOne,       \* a free lock
    NoCommand,   \* a worker between two commands, the seal of a desk's order
    NoKey,       \* a desk between two orders
    MaxEpoch,    \* bound: the control generation at which controls are asked for
    MaxFaults,   \* bound: storage failures and exceptions
    MaxCrashes   \* bound: crashes of the process

ASSUME ThreadsDistinct ==
    /\ Workers \cap Desks = {}
    /\ (Workers \cup Desks) \cap (Mutators \cup Stoppers) = {}
    /\ Mutators \cap Stoppers = {}
    /\ Reconciler \notin Workers \cup Desks \cup Mutators \cup Stoppers
    /\ NoOne \notin Workers \cup Desks \cup Mutators \cup Stoppers \cup {Reconciler}
    /\ NoCommand \notin Commands
    /\ NoKey \notin Keys

ASSUME RoutesTyped ==
    /\ HomeOf \in [Commands -> Workers]
    /\ KeyOf \in [Commands -> Keys]
    /\ Reducing \subseteq Commands

ASSUME BoundsTyped ==
    MaxEpoch \in Nat /\ MaxFaults \in Nat /\ MaxCrashes \in Nat

VARIABLES
    rows,            \* the journals: [state, owner, epoch] of each command
    ledger,          \* order_dispatch_journal: [state, seal] of each key
    posted,          \* broker requests sent for each key
    life,            \* the owner token of the running process
    epoch,           \* the control generation of the running process
    controls,        \* _CONTROLS: the controls between begin and end
    entriesBlocked,  \* STATE["new_entries_blocked"]
    known,           \* idempotency keys LIVE_OMS holds in memory
    runtime,         \* holder of RUNTIME_MODE_LOCK
    attempt,         \* holder of _DISPATCH_ATTEMPT_LOCK
    safety,          \* holder of SAFETY_CONFIRMATION_MUTATION_LOCK
    pc,              \* where each thread stands
    seen,            \* the authority a worker read before its enqueue
    batch,           \* the commands a worker queued in this cycle
    now,             \* the command a worker is at
    desk,            \* the key of the order a desk is at
    result,          \* the state of the order a submitter got
    image,           \* the ledger rows the reconciler read
    faults           \* failures so far

durable == <<rows, ledger, posted>>
authority == <<life, epoch, controls>>
memory == <<entriesBlocked, known>>
locks == <<runtime, attempt, safety>>
local == <<pc, seen, batch, now, desk, result>>
vars == <<durable, authority, memory, locks, local, image, faults>>

Controls == Mutators \cup Stoppers
Submitters == Workers \cup Desks
Threads == Submitters \cup Controls \cup {Reconciler}

Absent == [state |-> "absent", owner |-> 0, epoch |-> 0]
RowStates == {"absent", "QUEUED", "BLOCKED", "DISPATCHING", "COMPLETED",
              "UNKNOWN", "ABORTED", "RESOLVED"}

Unreserved == [state |-> "absent", seal |-> NoCommand]
Outcomes == {"acknowledged", "unknown", "broker_rejected", "risk_blocked",
             "adapter_blocked"}
OrderStates == {"absent", "dispatch_pending"} \cup Outcomes

\* The order states that reconcile accepts as evidence.
KnownStates == {"acknowledged", "risk_blocked", "adapter_blocked"}

-----------------------------------------------------------------------------
(* What the journals, the ledger and the authority say.                    *)

Blocked == controls # {}

\* A row whose order may be open, in the eyes of the running life: its own
\* attempts do not count while they are DISPATCHING.
Uncertain(c) ==
    \/ rows[c].state = "UNKNOWN"
    \/ rows[c].state = "DISPATCHING" /\ rows[c].owner # life

\* _unresolved: the journal of w holds an uncertain row.
Unresolved(w) == \E c \in Commands : HomeOf[c] = w /\ Uncertain(c)

\* continuous_dispatch_allowed and the entry block of
\* live_broker_dispatch_allowed: the order of a worker is sealed with its
\* command; the order of a desk is not, and may reduce risk.
Authorised(p) ==
    p \in Workers =>
        /\ ~Blocked
        /\ rows[now[p]].epoch = epoch
        /\ entriesBlocked => now[p] \in Reducing

\* The durable half of the duplicate check of submit_order_intent.
Reserved(k) == ledger[k].state # "absent"

KeyNow(p) == IF p \in Workers THEN KeyOf[now[p]] ELSE desk[p]
SealNow(p) == IF p \in Workers THEN now[p] ELSE NoCommand

Init ==
    /\ rows = [c \in Commands |-> Absent]
    /\ ledger = [k \in Keys |-> Unreserved]
    /\ posted = [k \in Keys |-> 0]
    /\ life = 1
    /\ epoch = 1
    /\ controls = {}
    /\ entriesBlocked = TRUE
    /\ known = {}
    /\ runtime = NoOne /\ attempt = NoOne /\ safety = NoOne
    /\ pc = [t \in Threads |-> "idle"]
    /\ seen = [w \in Workers |-> [epoch |-> 0, blocked |-> FALSE]]
    /\ batch = [w \in Workers |-> <<>>]
    /\ now = [w \in Workers |-> NoCommand]
    /\ desk = [d \in Desks |-> NoKey]
    /\ result = [p \in Submitters |-> "none"]
    /\ image = [k \in Keys |-> Unreserved]
    /\ faults = 0

Goes(t, place) == pc' = [pc EXCEPT ![t] = place]

Fault ==
    /\ faults < MaxFaults
    /\ faults' = faults + 1

-----------------------------------------------------------------------------
(* A cycle: the worker owns the runtime lock and queues intents.           *)

StartCycle(w) ==
    /\ pc[w] = "idle"
    /\ runtime = NoOne
    /\ runtime' = w
    /\ Goes(w, "cycle")
    /\ UNCHANGED <<durable, authority, memory, attempt, safety, seen, batch,
                   now, desk, result, image, faults>>

\* defer and the head of enqueue: the authority is read before the transaction.
EnqueueReads(w, c) ==
    /\ pc[w] = "cycle"
    /\ HomeOf[c] = w
    /\ now' = [now EXCEPT ![w] = c]
    /\ seen' = [seen EXCEPT ![w] = [epoch |-> epoch, blocked |-> Blocked]]
    /\ Goes(w, "insert")
    /\ UNCHANGED <<durable, authority, memory, locks, batch, desk, result,
                   image, faults>>

ForgetsRead(w) ==
    /\ now' = [now EXCEPT ![w] = NoCommand]
    /\ seen' = [seen EXCEPT ![w] = [epoch |-> 0, blocked |-> FALSE]]

\* An enqueue that replaces the row an earlier evaluation left.
EnqueueReplaces(w) ==
    /\ pc[w] = "insert"
    /\ LET held == seen[w].blocked \/ Unresolved(w)
       IN  /\ rows' = [rows EXCEPT ![now[w]] =
                 [state |-> IF held THEN "BLOCKED" ELSE "QUEUED",
                  owner |-> life, epoch |-> seen[w].epoch]]
           /\ batch' = IF held THEN batch ELSE [batch EXCEPT ![w] = Append(@, now[w])]
    /\ ForgetsRead(w)
    /\ Goes(w, "cycle")
    /\ UNCHANGED <<ledger, posted, authority, memory, locks, desk, result,
                   image, faults>>

\* The rest of enqueue, one transaction: only a command the journal does not
\* hold yet is created, and only one it created QUEUED enters the batch.
EnqueueInserts(w) ==
    /\ pc[w] = "insert"
    /\ LET held == seen[w].blocked \/ Unresolved(w)
           row == [state |-> IF held THEN "BLOCKED" ELSE "QUEUED",
                   owner |-> life, epoch |-> seen[w].epoch]
           created == rows[now[w]] = Absent
       IN  /\ rows' = IF created THEN [rows EXCEPT ![now[w]] = row] ELSE rows
           /\ batch' = IF created /\ ~held
                         THEN [batch EXCEPT ![w] = Append(@, now[w])]
                         ELSE batch
    /\ ForgetsRead(w)
    /\ Goes(w, "cycle")
    /\ UNCHANGED <<ledger, posted, authority, memory, locks, desk, result,
                   image, faults>>

LeavesCycle(w, place) ==
    /\ runtime' = NoOne
    /\ Goes(w, IF batch[w] = <<>> THEN "idle" ELSE place)

\* The journal cannot be written: defer reports it and the cycle fails.
EnqueueFails(w) ==
    /\ pc[w] = "insert"
    /\ Fault
    /\ entriesBlocked' = TRUE
    /\ ForgetsRead(w)
    /\ LeavesCycle(w, "abort")
    /\ UNCHANGED <<durable, authority, known, attempt, safety, batch, desk,
                   result, image>>

\* __exit__ without an exception: the lock is released before any dispatch.
CycleEnds(w) ==
    /\ pc[w] = "cycle"
    /\ LeavesCycle(w, "queue")
    /\ UNCHANGED <<durable, authority, memory, attempt, safety, seen, batch,
                   now, desk, result, image, faults>>

\* __exit__ with an exception, the engine checkpoint having failed.
CycleFails(w) ==
    /\ pc[w] = "cycle"
    /\ Fault
    /\ LeavesCycle(w, "abort")
    /\ UNCHANGED <<durable, authority, memory, attempt, safety, seen, batch,
                   now, desk, result, image>>

-----------------------------------------------------------------------------
(* The journal outcome of a command, and the end of an attempt.            *)

\* finish: a compare-and-set on the rows this life may still close.
Closable(c) ==
    /\ rows[c].owner = life
    /\ rows[c].state \in {"QUEUED", "DISPATCHING"}

Closes(c, state) ==
    /\ Closable(c)
    /\ rows' = [rows EXCEPT ![c].state = state]

DropsHead(w, place) ==
    /\ batch' = [batch EXCEPT ![w] = Tail(@)]
    /\ Goes(w, IF Len(batch[w]) = 1 THEN "idle" ELSE place)

AbortNext(w) ==
    /\ pc[w] = "abort"
    /\ \/ /\ Closes(Head(batch[w]), "ABORTED")
          /\ UNCHANGED <<entriesBlocked, faults>>
       \/ /\ Fault
          /\ entriesBlocked' = TRUE
          /\ UNCHANGED rows
    /\ DropsHead(w, "abort")
    /\ UNCHANGED <<ledger, posted, authority, known, locks, seen, now, desk,
                   result, image>>

\* The end of dispatch: the attempt lock is free for the next command.
LeavesAttempt(w) ==
    /\ attempt' = NoOne
    /\ now' = [now EXCEPT ![w] = NoCommand]
    /\ result' = [result EXCEPT ![w] = "none"]
    /\ DropsHead(w, "queue")

-----------------------------------------------------------------------------
(* Dispatch of one command, outside the runtime lock.                      *)

TakeAttempt(w) ==
    /\ pc[w] = "queue"
    /\ attempt = NoOne
    /\ attempt' = w
    /\ now' = [now EXCEPT ![w] = Head(batch[w])]
    /\ Goes(w, "claim")
    /\ UNCHANGED <<durable, authority, memory, runtime, safety, seen, batch,
                   desk, result, image, faults>>

\* claim: the row is this life's and still queued.
Claimable(c) == rows[c].owner = life /\ rows[c].state = "QUEUED"

\* A claim that does not look for uncertain rows.
CurrentIgnoresUnresolved(w) == ~Blocked /\ rows[now[w]].epoch = epoch

\* claim: nothing changed since the row was queued.
Current(w) ==
    /\ ~Blocked
    /\ rows[now[w]].epoch = epoch
    /\ ~Unresolved(w)

Claims(w) ==
    /\ pc[w] = "claim"
    /\ Claimable(now[w])
    /\ Current(w)
    /\ rows' = [rows EXCEPT ![now[w]].state = "DISPATCHING"]
    /\ Goes(w, "gate")
    /\ UNCHANGED <<ledger, posted, authority, memory, locks, seen, batch, now,
                   desk, result, image, faults>>

\* claim returns None; a row that is queued but not current is BLOCKED.
ClaimRefused(w) ==
    /\ pc[w] = "claim"
    /\ ~(Claimable(now[w]) /\ Current(w))
    /\ rows' = IF Claimable(now[w])
                 THEN [rows EXCEPT ![now[w]].state = "BLOCKED"]
                 ELSE rows
    /\ LeavesAttempt(w)
    /\ UNCHANGED <<ledger, posted, authority, memory, runtime, safety, seen,
                   desk, image, faults>>

\* The journal fails before the claim is committed: the row stays QUEUED.
ClaimFails(w) ==
    /\ pc[w] = "claim"
    /\ Fault
    /\ entriesBlocked' = TRUE
    /\ LeavesAttempt(w)
    /\ UNCHANGED <<durable, authority, known, runtime, safety, seen, desk,
                   image>>

SubmitEnds(p, state) ==
    /\ result' = [result EXCEPT ![p] = state]
    /\ Goes(p, "finish")

\* submit_order_intent refuses: a changed generation, the entry block, or any
\* gate of the risk chain, before or after LIVE_OMS.create.
GateRefuses(p) ==
    /\ pc[p] = "gate"
    /\ known' \in {known, known \cup {KeyNow(p)}}
    /\ SubmitEnds(p, "risk_blocked")
    /\ UNCHANGED <<durable, authority, entriesBlocked, locks, seen, batch,
                   now, desk, image, faults>>

\* The key was used before: the result carries the state of that order if it
\* is still among the listed orders, and none at all otherwise.
GateDuplicate(p) ==
    /\ pc[p] = "gate"
    /\ Reserved(KeyNow(p)) \/ KeyNow(p) \in known
    /\ \E state \in {"risk_blocked", "unknown"} :
          /\ state = "unknown" =>
                ledger[KeyNow(p)].state \in {"dispatch_pending", "unknown"}
          /\ SubmitEnds(p, state)
    /\ UNCHANGED <<durable, authority, memory, locks, seen, batch, now, desk,
                   image, faults>>

\* Two submitters may create the order of one key at once: nothing in the
\* repository serialises them on LIVE_OMS.
Racing(p) ==
    \E q \in Submitters \ {p} : pc[q] = "checkpoint" /\ KeyNow(q) = KeyNow(p)

GateAllows(p) ==
    /\ pc[p] = "gate"
    /\ Authorised(p)
    /\ ~Reserved(KeyNow(p))
    /\ KeyNow(p) \notin known \/ Racing(p)
    /\ known' = known \cup {KeyNow(p)}
    /\ Goes(p, "checkpoint")
    /\ UNCHANGED <<durable, authority, entriesBlocked, locks, seen, batch,
                   now, desk, result, image, faults>>

\* An exception anywhere before the order is checkpointed.
GateRaises(p) ==
    /\ pc[p] = "gate"
    /\ Fault
    /\ Goes(p, "raise")
    /\ UNCHANGED <<durable, authority, memory, locks, seen, batch, now, desk,
                   result, image>>

\* The send goes ahead although the ledger did not take the checkpoint.
CheckpointsLater(p) ==
    /\ pc[p] = "checkpoint"
    /\ Goes(p, "fence")
    /\ UNCHANGED <<durable, authority, memory, locks, seen, batch, now, desk,
                   result, image, faults>>

\* A checkpoint that replaces the record it finds.
CheckpointReplaces(p) ==
    /\ pc[p] = "checkpoint"
    /\ ledger' = [ledger EXCEPT ![KeyNow(p)] =
                    [state |-> "dispatch_pending", seal |-> SealNow(p)]]
    /\ Goes(p, "fence")
    /\ UNCHANGED <<rows, posted, authority, memory, locks, seen, batch, now,
                   desk, result, image, faults>>

\* checkpoint_order_dispatch: the INSERT reserves a key nobody reserved.
Checkpoints(p) ==
    /\ pc[p] = "checkpoint"
    /\ ledger[KeyNow(p)].state = "absent"
    /\ ledger' = [ledger EXCEPT ![KeyNow(p)] =
                    [state |-> "dispatch_pending", seal |-> SealNow(p)]]
    /\ Goes(p, "fence")
    /\ UNCHANGED <<rows, posted, authority, memory, locks, seen, batch, now,
                   desk, result, image, faults>>

\* The record was there already: the outcome of this order is not known.
CheckpointExists(p) ==
    /\ pc[p] = "checkpoint"
    /\ ledger[KeyNow(p)].state # "absent"
    /\ SubmitEnds(p, "unknown")
    /\ UNCHANGED <<durable, authority, memory, locks, seen, batch, now, desk,
                   image, faults>>

CheckpointFails(p) ==
    /\ pc[p] = "checkpoint"
    /\ Fault
    /\ SubmitEnds(p, "adapter_blocked")
    /\ UNCHANGED <<durable, authority, memory, locks, seen, batch, now, desk,
                   image>>

\* Any of the checks between the checkpoint and the send, with or without the
\* safety lock, or an adapter that is not ready. Any other exception is taken
\* for an order that may have left.
FenceRefuses(p) ==
    /\ pc[p] = "fence"
    /\ \E state \in {"risk_blocked", "adapter_blocked", "unknown"} :
          result' = [result EXCEPT ![p] = state]
    /\ Goes(p, "settle")
    /\ UNCHANGED <<durable, authority, memory, locks, seen, batch, now, desk,
                   image, faults>>

\* The last check made before the safety lock, and not again under it.
FenceTrustsGate(p) ==
    /\ pc[p] = "fence"
    /\ safety = NoOne
    /\ safety' = p
    /\ Goes(p, "armed")
    /\ UNCHANGED <<durable, authority, memory, runtime, attempt, seen, batch,
                   now, desk, result, image, faults>>

\* The last check, under the safety lock that is kept until the broker answers.
FenceChecks(p) ==
    /\ pc[p] = "fence"
    /\ safety = NoOne
    /\ Authorised(p)
    /\ safety' = p
    /\ Goes(p, "armed")
    /\ UNCHANGED <<durable, authority, memory, runtime, attempt, seen, batch,
                   now, desk, result, image, faults>>

Posts(p) ==
    /\ pc[p] = "armed"
    /\ posted' = [posted EXCEPT ![KeyNow(p)] = @ + 1]
    /\ Goes(p, "post")
    /\ UNCHANGED <<rows, ledger, authority, memory, locks, seen, batch, now,
                   desk, result, image, faults>>

\* A lost answer leaves the fence without releasing the safety lock.
PostLosesLock(p) ==
    /\ pc[p] = "post"
    /\ \E answer \in {"acknowledged", "broker_rejected", "unknown"} :
          /\ result' = [result EXCEPT ![p] = answer]
          /\ safety' = IF answer = "unknown" THEN p ELSE NoOne
    /\ Goes(p, "settle")
    /\ UNCHANGED <<durable, authority, memory, runtime, attempt, seen, batch,
                   now, desk, image, faults>>

PostReturns(p) ==
    /\ pc[p] = "post"
    /\ \E answer \in {"acknowledged", "broker_rejected", "unknown"} :
          result' = [result EXCEPT ![p] = answer]
    /\ safety' = NoOne
    /\ Goes(p, "settle")
    /\ UNCHANGED <<durable, authority, memory, runtime, attempt, seen, batch,
                   now, desk, image, faults>>

\* update_order_dispatch closes the durable record.
Settles(p) ==
    /\ pc[p] = "settle"
    /\ ledger' = [ledger EXCEPT ![KeyNow(p)].state = result[p]]
    /\ Goes(p, "finish")
    /\ UNCHANGED <<rows, posted, authority, memory, locks, seen, batch, now,
                   desk, result, image, faults>>

SettleFails(p) ==
    /\ pc[p] = "settle"
    /\ Fault
    /\ entriesBlocked' = TRUE
    /\ SubmitEnds(p, "unknown")
    /\ UNCHANGED <<durable, authority, known, locks, seen, batch, now, desk,
                   image>>

StatusOf(state) ==
    CASE state = "unknown" -> "UNKNOWN"
      [] state = "acknowledged" -> "COMPLETED"
      [] OTHER -> "BLOCKED"

Finishes(w) ==
    /\ pc[w] = "finish"
    /\ Closes(now[w], StatusOf(result[w]))
    /\ LeavesAttempt(w)
    /\ UNCHANGED <<ledger, posted, authority, memory, runtime, safety, seen,
                   desk, image, faults>>

\* The checkpoint after the order, the sleeve callback, or finish itself.
FinishRaises(w) ==
    /\ pc[w] = "finish"
    /\ Fault
    /\ Goes(w, "raise")
    /\ UNCHANGED <<durable, authority, memory, locks, seen, batch, now, desk,
                   result, image>>

\* An exception handler that puts the command down as never sent.
RaiseBlocks(w) ==
    /\ pc[w] = "raise"
    /\ \/ Closes(now[w], "BLOCKED") /\ UNCHANGED faults
       \/ Fault /\ UNCHANGED rows
    /\ entriesBlocked' = TRUE
    /\ LeavesAttempt(w)
    /\ UNCHANGED <<ledger, posted, authority, known, runtime, safety, seen,
                   desk, image>>

\* An exception handler that leaves before the attempt lock is released.
RaiseKeepsAttempt(w) ==
    /\ pc[w] = "raise"
    /\ Closes(now[w], "UNKNOWN")
    /\ entriesBlocked' = TRUE
    /\ now' = [now EXCEPT ![w] = NoCommand]
    /\ result' = [result EXCEPT ![w] = "none"]
    /\ DropsHead(w, "queue")
    /\ UNCHANGED <<ledger, posted, authority, known, locks, seen, desk, image,
                   faults>>

\* The exception handler: the command is UNKNOWN, if even that can be saved.
RaiseCloses(w) ==
    /\ pc[w] = "raise"
    /\ \/ Closes(now[w], "UNKNOWN") /\ UNCHANGED faults
       \/ Fault /\ UNCHANGED rows
    /\ entriesBlocked' = TRUE
    /\ LeavesAttempt(w)
    /\ UNCHANGED <<ledger, posted, authority, known, runtime, safety, seen,
                   desk, image>>

-----------------------------------------------------------------------------
(* Orders submitted beside the journals: by the operator, by the runner.   *)

DeskAsks(d, k) ==
    /\ pc[d] = "idle"
    /\ desk' = [desk EXCEPT ![d] = k]
    /\ Goes(d, "gate")
    /\ UNCHANGED <<durable, authority, memory, locks, seen, batch, now, result,
                   image, faults>>

DeskAnswered(d) ==
    /\ pc[d] \in {"finish", "raise"}
    /\ desk' = [desk EXCEPT ![d] = NoKey]
    /\ result' = [result EXCEPT ![d] = "none"]
    /\ Goes(d, "idle")
    /\ UNCHANGED <<durable, authority, memory, locks, seen, batch, now, image,
                   faults>>

-----------------------------------------------------------------------------
(* Controls.  begin_control and end_control publish a new generation.      *)

Publishes(t) ==
    /\ controls' = controls \cup {t}
    /\ epoch' = epoch + 1

Retires(t) ==
    /\ controls' = controls \ {t}
    /\ epoch' = epoch + 1

\* The operator, a guard or another runtime asks for a control.
ControlAsked(t) ==
    /\ pc[t] = "idle"
    /\ epoch < MaxEpoch
    /\ Goes(t, "asked")
    /\ UNCHANGED <<durable, authority, memory, locks, seen, batch, now, desk,
                   result, image, faults>>

\* _serialized_safety_mutation: the lock is kept while the control runs.
MutationBegins(m) ==
    /\ pc[m] = "asked"
    /\ safety = NoOne
    /\ safety' = m
    /\ Publishes(m)
    /\ Goes(m, "changes")
    /\ UNCHANGED <<durable, life, memory, runtime, attempt, seen, batch, now,
                   desk, result, image, faults>>

\* The control has its turn on the runtime lock and ends.
MutationEnds(m) ==
    /\ pc[m] = "changes"
    /\ runtime = NoOne
    /\ Retires(m)
    /\ safety' = NoOne
    /\ Goes(m, "idle")
    /\ UNCHANGED <<durable, life, memory, runtime, attempt, seen, batch, now,
                   desk, result, image, faults>>

\* _continuous_stop_control: published under the safety lock, run without it.
\* The lock of STOPs against each other and the join of the worker, made with no
\* lock of this module in hand, are left out (section 6 of the README).
StopPublishes(s) ==
    /\ pc[s] = "asked"
    /\ safety = NoOne
    /\ Publishes(s)
    /\ Goes(s, "changes")
    /\ UNCHANGED <<durable, life, memory, locks, seen, batch, now, desk,
                   result, image, faults>>

StopChangesMode(s) ==
    /\ pc[s] = "changes"
    /\ runtime = NoOne
    /\ Goes(s, "changed")
    /\ UNCHANGED <<durable, authority, memory, locks, seen, batch, now, desk,
                   result, image, faults>>

StopEnds(s) ==
    /\ pc[s] = "changed"
    /\ safety = NoOne
    /\ Retires(s)
    /\ Goes(s, "idle")
    /\ UNCHANGED <<durable, life, memory, locks, seen, batch, now, desk,
                   result, image, faults>>

\* The entry block is lifted, by the operator or by the recovery of another
\* cause that had raised it.
EntriesReopen ==
    /\ entriesBlocked
    /\ entriesBlocked' = FALSE
    /\ UNCHANGED <<durable, authority, known, locks, local, image, faults>>

-----------------------------------------------------------------------------
(* Reconciliation, under the safety lock, and crashes.                     *)

ReconcileReads ==
    /\ pc[Reconciler] = "idle"
    /\ safety = NoOne
    /\ safety' = Reconciler
    /\ image' = ledger
    /\ Goes(Reconciler, "closes")
    /\ UNCHANGED <<durable, authority, memory, runtime, attempt, seen, batch,
                   now, desk, result, faults>>

\* A reconciliation that takes any order of the key for evidence.
EvidenceUnsealed(c) == image[KeyOf[c]].state \in KnownStates

\* reconcile: the order carries the seal of the row and a known state.
Evidence(c) ==
    /\ image[KeyOf[c]].seal = c
    /\ image[KeyOf[c]].state \in KnownStates

ReconcileCloses ==
    /\ pc[Reconciler] = "closes"
    /\ LET closed == {c \in Commands : Uncertain(c) /\ Evidence(c)}
       IN  /\ rows' = [c \in Commands |->
                         IF c \in closed THEN [rows[c] EXCEPT !.state = "RESOLVED"]
                         ELSE rows[c]]
           /\ entriesBlocked' = (entriesBlocked \/
                                 \E c \in Commands \ closed : Uncertain(c))
    /\ image' = [k \in Keys |-> Unreserved]
    /\ safety' = NoOne
    /\ Goes(Reconciler, "idle")
    /\ UNCHANGED <<ledger, posted, authority, known, runtime, attempt, seen,
                   batch, now, desk, result, faults>>

\* The process dies and starts again: only the journals, the ledger and the
\* broker keep what they had.
Crash ==
    /\ life <= MaxCrashes
    /\ life' = life + 1
    /\ epoch' = epoch + 1
    /\ controls' = {}
    /\ entriesBlocked' = TRUE
    /\ known' = {}
    /\ runtime' = NoOne /\ attempt' = NoOne /\ safety' = NoOne
    /\ pc' = [t \in Threads |-> "idle"]
    /\ seen' = [w \in Workers |-> [epoch |-> 0, blocked |-> FALSE]]
    /\ batch' = [w \in Workers |-> <<>>]
    /\ now' = [w \in Workers |-> NoCommand]
    /\ desk' = [d \in Desks |-> NoKey]
    /\ result' = [p \in Submitters |-> "none"]
    /\ image' = [k \in Keys |-> Unreserved]
    /\ UNCHANGED <<durable, faults>>

CycleStep(w) ==
    \/ StartCycle(w) \/ (\E c \in Commands : EnqueueReads(w, c))
    \/ EnqueueInserts(w) \/ EnqueueFails(w) \/ CycleEnds(w) \/ CycleFails(w)
    \/ AbortNext(w)

DispatchStep(w) ==
    \/ TakeAttempt(w) \/ Claims(w) \/ ClaimRefused(w) \/ ClaimFails(w)
    \/ Finishes(w) \/ FinishRaises(w) \/ RaiseCloses(w)

SubmitStep(p) ==
    \/ GateRefuses(p) \/ GateDuplicate(p) \/ GateAllows(p) \/ GateRaises(p)
    \/ Checkpoints(p) \/ CheckpointExists(p) \/ CheckpointFails(p)
    \/ FenceRefuses(p) \/ FenceChecks(p) \/ Posts(p) \/ PostReturns(p)
    \/ Settles(p) \/ SettleFails(p)

ControlStep ==
    \/ \E t \in Controls : ControlAsked(t)
    \/ \E m \in Mutators : MutationBegins(m) \/ MutationEnds(m)
    \/ \E s \in Stoppers : StopPublishes(s) \/ StopChangesMode(s) \/ StopEnds(s)
    \/ EntriesReopen

Next ==
    \/ \E w \in Workers : CycleStep(w) \/ DispatchStep(w)
    \/ \E p \in Submitters : SubmitStep(p)
    \/ \E d \in Desks : DeskAnswered(d) \/ \E k \in Keys : DeskAsks(d, k)
    \/ ControlStep
    \/ ReconcileReads
    \/ ReconcileCloses
    \/ Crash

Spec == Init /\ [][Next]_vars

(***************************************************************************)
(* Fairness.  Python's locks are not fair queues, so a thread that waits   *)
(* for one is only promised it if the lock is free again and again (strong *)
(* fairness).  A broker call returns: every adapter sends with a timeout.  *)
(* Every other step is the straight-line code of a running thread.         *)
(***************************************************************************)
SubmitRuns(p) ==
    /\ WF_vars(\/ GateAllows(p) \/ GateDuplicate(p) \/ GateRefuses(p)
               \/ Checkpoints(p) \/ CheckpointExists(p)
               \/ Posts(p) \/ PostReturns(p) \/ Settles(p))
    /\ SF_vars(safety = NoOne /\ (FenceChecks(p) \/ FenceRefuses(p)))

WorkerRuns(w) ==
    /\ WF_vars(\/ EnqueueInserts(w) \/ AbortNext(w)
               \/ Claims(w) \/ ClaimRefused(w)
               \/ Finishes(w) \/ RaiseCloses(w))
    /\ SF_vars(CycleEnds(w))
    /\ SF_vars(TakeAttempt(w))

ControlRuns ==
    /\ \A m \in Mutators : SF_vars(MutationBegins(m) \/ MutationEnds(m))
    /\ \A s \in Stoppers :
          SF_vars(StopPublishes(s) \/ StopChangesMode(s) \/ StopEnds(s))
    /\ WF_vars(ReconcileCloses)

FairSpec ==
    /\ Spec
    /\ \A w \in Workers : WorkerRuns(w)
    /\ \A p \in Submitters : SubmitRuns(p)
    /\ ControlRuns

-----------------------------------------------------------------------------
(* Properties.                                                             *)

Attempting == {"claim", "gate", "checkpoint", "fence", "armed", "post",
               "settle", "finish", "raise"}
Claimed == Attempting \ {"claim"}
Sending == {"armed", "post"}
Batched == {"abort", "queue"} \cup Attempting
WorkerPlaces == {"idle", "cycle", "insert"} \cup Batched
DeskPlaces == {"idle"} \cup Claimed
Reserving == {"fence", "armed", "post", "settle"}
ControlPlaces == {"idle", "asked", "changes", "changed"}

\* The state is of the shape the journals and the process give it.
TypeOK ==
    /\ rows \in [Commands -> [state : RowStates, owner : Nat, epoch : Nat]]
    /\ ledger \in [Keys -> [state : OrderStates,
                            seal : Commands \cup {NoCommand}]]
    /\ posted \in [Keys -> Nat]
    /\ life \in Nat \ {0} /\ epoch \in Nat \ {0}
    /\ controls \subseteq Controls
    /\ entriesBlocked \in BOOLEAN
    /\ known \subseteq Keys
    /\ runtime \in Workers \cup {NoOne}
    /\ attempt \in Workers \cup {NoOne}
    /\ safety \in Threads \cup {NoOne}
    /\ pc \in [Threads -> WorkerPlaces \cup ControlPlaces \cup {"closes"}]
    /\ seen \in [Workers -> [epoch : Nat, blocked : BOOLEAN]]
    /\ batch \in [Workers -> Seq(Commands)]
    /\ now \in [Workers -> Commands \cup {NoCommand}]
    /\ desk \in [Desks -> Keys \cup {NoKey}]
    /\ result \in [Submitters -> {"none"} \cup Outcomes]
    /\ image \in [Keys -> [state : OrderStates,
                           seal : Commands \cup {NoCommand}]]
    /\ faults \in Nat

\* One idempotency key never reaches a broker twice, whatever crashes, retries
\* of an evaluation and failed saves lie in between: the durable row outlives
\* everything the process knows (submit_order_intent, checkpoint_order_dispatch).
OnePostPerKey == \A k \in Keys : posted[k] <= 1

\* While a control is being applied, and after it until the next evaluation,
\* no order of an older generation is at the broker: STOP and mode changes wait
\* for the send in flight, and the send looks again under the safety lock.
FencedSend ==
    \A w \in Workers : pc[w] \in Sending =>
        controls = {} /\ rows[now[w]].epoch = epoch /\ rows[now[w]].owner = life

\* Who holds a lock is where the lock is taken, and nowhere else: the worker
\* has left the runtime lock before it takes the two locks of the dispatch.
LocksHeld ==
    /\ \A w \in Workers :
          /\ pc[w] \in WorkerPlaces
          /\ runtime = w <=> pc[w] \in {"cycle", "insert"}
          /\ attempt = w <=> pc[w] \in Attempting
    /\ \A d \in Desks : pc[d] \in DeskPlaces
    /\ \A p \in Submitters : safety = p <=> pc[p] \in Sending
    /\ \A m \in Mutators : pc[m] # "idle" /\ pc[m] # "asked" <=> safety = m
    /\ \A s \in Stoppers : safety # s
    /\ pc[Reconciler] # "idle" <=> safety = Reconciler

\* A worker with commands to close or to dispatch has them at hand, and they
\* are rows of its own journal; a desk at an order has its key.
BatchHeld ==
    /\ \A w \in Workers :
        /\ pc[w] \in Batched => batch[w] # <<>>
        /\ \A i \in 1 .. Len(batch[w]) : HomeOf[batch[w][i]] = w
        /\ pc[w] \in Attempting \cup {"insert"} =>
              now[w] \in Commands /\ HomeOf[now[w]] = w
    /\ \A d \in Desks : pc[d] \in Claimed => desk[d] \in Keys

\* A command being dispatched is claimed by this life, and its journal holds
\* no other whose outcome is open.
ClaimHeld ==
    \A w \in Workers : pc[w] \in Claimed =>
        /\ rows[now[w]].state = "DISPATCHING"
        /\ rows[now[w]].owner = life
        /\ ~Unresolved(w)

\* A reservation is of one submitter, and nothing was sent for it yet: not even
\* two submitters that created the order of a key at once both get it.
ReservationHeld ==
    /\ \A k \in Keys : ledger[k].state = "absent" => posted[k] = 0
    /\ \A p, q \in Submitters :
          /\ pc[p] \in Reserving /\ pc[q] \in Reserving
          /\ KeyNow(p) = KeyNow(q)
          => p = q
    /\ \A p \in Submitters :
          /\ pc[p] \in {"fence", "armed"} =>
                /\ ledger[KeyNow(p)] =
                      [state |-> "dispatch_pending", seal |-> SealNow(p)]
                /\ posted[KeyNow(p)] = 0
          /\ pc[p] \in Reserving => ledger[KeyNow(p)].state # "absent"
          /\ pc[p] = "settle" => result[p] \in Outcomes

\* No row, and no authority read, comes from a later life or a later control.
AuthorityIsPast ==
    /\ \A c \in Commands : rows[c].owner <= life /\ rows[c].epoch <= epoch
    /\ \A w \in Workers : seen[w].epoch <= epoch

\* The inductive invariant of the dispatch: durable reservations, fenced sends
\* and held locks keep each other true through crashes and failed saves.
DispatchInvariant ==
    /\ TypeOK
    /\ LocksHeld
    /\ BatchHeld
    /\ ClaimHeld
    /\ ReservationHeld
    /\ FencedSend
    /\ OnePostPerKey
    /\ AuthorityIsPast

\* The outcomes that leave no order open.
Refusals == {"risk_blocked", "adapter_blocked", "broker_rejected"}

\* A journal row that is closed agrees with the order ledger: COMPLETED rows
\* have their acknowledged order, BLOCKED rows left no order that may be open,
\* ABORTED rows left none at all, RESOLVED rows have evidence.
RowsAgreeWithLedger ==
    \A c \in Commands :
        LET order == ledger[KeyOf[c]]
            own == order.seal = c
        IN  /\ rows[c].state = "COMPLETED" => own /\ order.state = "acknowledged"
            /\ rows[c].state = "RESOLVED" => own /\ order.state \in KnownStates
            /\ rows[c].state = "ABORTED" => ~own
            /\ rows[c].state = "BLOCKED" /\ own =>
                  order.state \in Refusals

\* What a batch queues is queued in the journal, once each; the command of an
\* attempt is the head of its batch, and the only one that may have left QUEUED.
QueueHeld ==
    \A w \in Workers :
        /\ pc[w] = "idle" => batch[w] = <<>>
        /\ \A i, j \in 1 .. Len(batch[w]) : batch[w][i] = batch[w][j] => i = j
        /\ pc[w] \in Attempting => now[w] = Head(batch[w])
        /\ \A i \in 1 .. Len(batch[w]) :
              \/ rows[batch[w][i]].state = "QUEUED"
              \/ i = 1 /\ pc[w] \in Claimed

\* An order is sealed between the checkpoint and the end of its attempt only,
\* and stays pending until the result of the attempt is recorded.
SealHeld ==
    /\ \A c \in Commands :
          rows[c].state \in {"absent", "QUEUED"} => ledger[KeyOf[c]].seal # c
    /\ \A p \in Submitters : pc[p] \in Reserving =>
          ledger[KeyNow(p)] = [state |-> "dispatch_pending", seal |-> SealNow(p)]
    /\ \A w \in Workers :
        LET order == ledger[KeyOf[now[w]]]
        IN  /\ pc[w] \in {"gate", "checkpoint"} => order.seal # now[w]
            /\ pc[w] = "finish" =>
                  /\ result[w] \in Outcomes
                  /\ result[w] = "acknowledged" =>
                        order.seal = now[w] /\ order.state = "acknowledged"
                  /\ result[w] \in Refusals /\ order.seal = now[w] =>
                        order.state \in Refusals

\* What the reconciler read of a settled order is still true when it closes the
\* rows: no ledger row changes once its order has an outcome.
ImageHeld == \A k \in Keys : image[k].state \in KnownStates => ledger[k] = image[k]

\* The inductive invariant of the journal, beside that of the dispatch: rows,
\* batches, seals and the reconciler's copy of the ledger move together.
RowsInvariant ==
    /\ QueueHeld
    /\ SealHeld
    /\ ImageHeld
    /\ RowsAgreeWithLedger

\* An order is only sent on a durable reservation of its submitter, which names
\* the command if there is one, a command of this life: the broker side effect
\* comes after checkpoint_order_dispatch.
SendIsReserved ==
    [][\A k \in Keys : posted'[k] # posted[k] =>
          /\ ledger[k].state = "dispatch_pending"
          /\ \E p \in Submitters : KeyNow(p) = k /\ SealNow(p) = ledger[k].seal
          /\ ledger[k].seal \in Commands => rows[ledger[k].seal].owner = life]_vars

\* No new order of a journal is sent while the journal holds one whose outcome
\* is not known: _unresolved holds the journal until reconciliation.
UncertaintyHolds ==
    [][\A w \in Workers : pc[w] = "armed" /\ pc'[w] = "post" => ~Unresolved(w)]_vars

\* The journal is no replay queue: what an earlier life left is only ever
\* closed by reconciliation (module docstring of continuous_dispatch.py).
OldRowsOnlyResolve ==
    [][\A c \in Commands :
          rows[c] # Absent /\ rows[c].owner # life /\ rows'[c] # rows[c] =>
              Uncertain(c) /\ rows'[c] = [rows[c] EXCEPT !.state = "RESOLVED"]]_vars

\* A control that waits for a cycle, or for an order in flight, gets its turn:
\* the worker never waits for the safety lock while it holds the runtime lock.
ControlReturns ==
    \A t \in Controls : pc[t] # "idle" ~> pc[t] = "idle"

\* A command that was taken for dispatch does not stay in the attempt: the lock
\* that serialises all live profiles is always released.
AttemptEnds ==
    \A w \in Workers : attempt = w ~> attempt # w

-----------------------------------------------------------------------------
(* The abstract specification the dispatch implements.                     *)

\* The order of the command was handed to a broker.
Sent(c) == ledger[KeyOf[c]].seal = c /\ posted[KeyOf[c]] > 0

FateOf(c) ==
    CASE Sent(c) -> "sent"
      [] ~Sent(c) /\ rows[c] = Absent -> "new"
      [] ~Sent(c) /\ Closable(c) -> "pending"
      [] OTHER -> "closed"

Promise == INSTANCE OrderPromise WITH
    fate <- [c \in Commands |-> FateOf(c)],
    live <- {c \in Commands : FateOf(c) = "pending" /\ rows[c].epoch = epoch}

\* Through journals, ledger and locks the dispatch keeps its promise: a queued
\* order is sent at most once, by the process that queued it, under the control
\* generation it was queued in, and never beside another order of its key.
KeepsPromise == Promise!Spec

-----------------------------------------------------------------------------
(* What the repository says of the journal, and the code does not do.      *)

\* "Missing records, pending/unknown results and wrong seals stay held": all
\* other evidence closes the row it belongs to.
DefiniteEvidenceCloses ==
    [][pc[Reconciler] = "closes" /\ pc'[Reconciler] = "idle" /\ life' = life =>
         \A c \in Commands :
            Uncertain(c) /\ image[KeyOf[c]].seal = c =>
                \/ image[KeyOf[c]].state \in {"dispatch_pending", "unknown"}
                \/ rows'[c].state = "RESOLVED"]_vars

\* "The order queue or the completion record could not be verified, so new
\* orders were blocked": no new order is sent in the life that failed to record
\* the outcome of an attempt, until that attempt is closed.
UnrecordedOutcomeHolds ==
    [][\A w \in Workers : pc[w] = "armed" /\ pc'[w] = "post" =>
          \/ now[w] \in Reducing
          \/ \A c \in Commands :
                HomeOf[c] = w /\ rows[c].state = "DISPATCHING" => c = now[w]]_vars

=============================================================================
