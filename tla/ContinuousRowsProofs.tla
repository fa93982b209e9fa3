------------------------- MODULE ContinuousRowsProofs -------------------------
(* Proofs that the journals of ContinuousDispatch agree with the order       *)
(* ledger, for any journals, controls and bounds.                            *)
EXTENDS ContinuousDispatchProofs

(* The journals are written by seven operations and by nothing else.         *)
LEMMA RowsMove ==
    ASSUME [Next]_vars, rows' # rows
    PROVE  \/ \E w \in Workers : \/ EnqueueInserts(w) \/ AbortNext(w) \/ Claims(w)
                                 \/ ClaimRefused(w) \/ Finishes(w) \/ RaiseCloses(w)
           \/ ReconcileCloses
<1> USE DEF durable
<1>1. CASE \E w \in Workers : CycleStep(w)
    BY <1>1 DEF CycleStep, StartCycle, EnqueueReads, EnqueueFails, CycleEnds, CycleFails
<1>2. CASE \E w \in Workers : DispatchStep(w)
    BY <1>2 DEF DispatchStep, TakeAttempt, ClaimFails, FinishRaises
<1>3. CASE \E p \in Submitters : SubmitStep(p)
    BY <1>3 DEF SubmitStep, GateRefuses, GateDuplicate, GateAllows, GateRaises, Checkpoints,
                CheckpointExists, CheckpointFails, FenceRefuses, FenceChecks, Posts,
                PostReturns, Settles, SettleFails
<1>4. CASE \E d \in Desks : DeskAnswered(d) \/ \E k \in Keys : DeskAsks(d, k)
    BY <1>4 DEF DeskAnswered, DeskAsks
<1>5. CASE ControlStep
    BY <1>5 DEF ControlStep, ControlAsked, MutationBegins, MutationEnds, StopPublishes,
                StopChangesMode, StopEnds, EntriesReopen
<1>6. CASE ReconcileReads \/ Crash
    BY <1>6 DEF ReconcileReads, Crash
<1>7. CASE UNCHANGED vars
    BY <1>7 DEF vars
<1> QED
    BY <1>1, <1>2, <1>3, <1>4, <1>5, <1>6, <1>7 DEF Next

(* The order ledger is written by the checkpoint and the result of an order. *)
LEMMA LedgerMoves ==
    ASSUME [Next]_vars, ledger' # ledger
    PROVE  \E p \in Submitters : Checkpoints(p) \/ Settles(p)
<1> USE DEF durable
<1>1. CASE \E w \in Workers : CycleStep(w)
    BY <1>1 DEF CycleStep, StartCycle, EnqueueReads, EnqueueInserts, EnqueueFails, CycleEnds,
                CycleFails, AbortNext
<1>2. CASE \E w \in Workers : DispatchStep(w)
    BY <1>2 DEF DispatchStep, TakeAttempt, Claims, ClaimRefused, ClaimFails, Finishes,
                FinishRaises, RaiseCloses
<1>3. CASE \E p \in Submitters : SubmitStep(p)
    BY <1>3 DEF SubmitStep, GateRefuses, GateDuplicate, GateAllows, GateRaises,
                CheckpointExists, CheckpointFails, FenceRefuses, FenceChecks, Posts,
                PostReturns, SettleFails
<1>4. CASE \E d \in Desks : DeskAnswered(d) \/ \E k \in Keys : DeskAsks(d, k)
    BY <1>4 DEF DeskAnswered, DeskAsks
<1>5. CASE ControlStep
    BY <1>5 DEF ControlStep, ControlAsked, MutationBegins, MutationEnds, StopPublishes,
                StopChangesMode, StopEnds, EntriesReopen
<1>6. CASE ReconcileReads \/ ReconcileCloses \/ Crash
    BY <1>6 DEF ReconcileReads, ReconcileCloses, Crash
<1>7. CASE UNCHANGED vars
    BY <1>7 DEF vars
<1> QED
    BY <1>1, <1>2, <1>3, <1>4, <1>5, <1>6, <1>7 DEF Next

(* What a step writes to the ledger: it seals a key nobody reserved with the *)
(* command of the submitter, or gives a pending order its outcome.           *)
LEMMA LedgerWrites ==
    ASSUME DispatchInvariant, SealHeld, [Next]_vars, NEW k \in Keys, ledger'[k] # ledger[k]
    PROVE  \E p \in Submitters :
              /\ KeyNow(p) = k /\ rows' = rows /\ image' = image
              /\ \/ /\ Checkpoints(p) /\ ledger[k].state = "absent"
                    /\ ledger'[k] = [state |-> "dispatch_pending", seal |-> SealNow(p)]
                 \/ /\ Settles(p) /\ ledger[k].state = "dispatch_pending"
                    /\ ledger[k].seal = SealNow(p) /\ ledger'[k].seal = SealNow(p)
                    /\ ledger'[k].state = result[p]
<1>1. PICK p \in Submitters : Checkpoints(p) \/ Settles(p)
    BY LedgerMoves
<1>2. ledger \in [Keys -> [state : OrderStates, seal : Commands \cup {NoCommand}]]
    BY DEF DispatchInvariant, TypeOK
<1>3. CASE Checkpoints(p)
  <2>1. ledger' = [ledger EXCEPT ![KeyNow(p)] =
                     [state |-> "dispatch_pending", seal |-> SealNow(p)]]
        /\ ledger[KeyNow(p)].state = "absent" /\ rows' = rows /\ image' = image
    BY <1>3 DEF Checkpoints
  <2> QED
    BY <1>2, <1>3, <2>1
<1>4. CASE Settles(p)
  <2>1. ledger' = [ledger EXCEPT ![KeyNow(p)].state = result[p]]
        /\ pc[p] = "settle" /\ rows' = rows /\ image' = image
    BY <1>4 DEF Settles
  <2>2. ledger[KeyNow(p)] = [state |-> "dispatch_pending", seal |-> SealNow(p)]
    BY <2>1 DEF SealHeld, Reserving
  <2> QED
    BY <1>2, <1>4, <2>1, <2>2
<1> QED
    BY <1>1, <1>3, <1>4

(* Two submitters never are at one command: it has one journal, one worker.  *)
LEMMA SealIsOwn ==
    ASSUME DispatchInvariant, NEW p \in Submitters, pc[p] \in Claimed, SealNow(p) \in Commands
    PROVE  /\ p \in Workers /\ now[p] = SealNow(p) /\ rows[now[p]].state = "DISPATCHING"
           /\ \A w \in Workers : pc[w] \in Attempting /\ now[w] = now[p] => w = p
<1>1. p \in Workers /\ now[p] = SealNow(p)
    BY ThreadsDistinct DEF SealNow
<1>2. rows[now[p]].state = "DISPATCHING"
    BY <1>1 DEF DispatchInvariant, ClaimHeld
<1>3. HomeOf[now[p]] = p
    BY <1>1 DEF DispatchInvariant, BatchHeld, Claimed
<1>4. \A w \in Workers : pc[w] \in Attempting => HomeOf[now[w]] = w
    BY DEF DispatchInvariant, BatchHeld
<1> QED
    BY <1>1, <1>2, <1>3, <1>4

(* The reconciler's copy is written by the reconciler, and lost in a crash.  *)
LEMMA ImageMoves ==
    ASSUME [Next]_vars, image' # image
    PROVE  ReconcileReads \/ ReconcileCloses \/ Crash
<1>1. CASE \E w \in Workers : CycleStep(w)
    BY <1>1 DEF CycleStep, StartCycle, EnqueueReads, EnqueueInserts, EnqueueFails, CycleEnds,
                CycleFails, AbortNext
<1>2. CASE \E w \in Workers : DispatchStep(w)
    BY <1>2 DEF DispatchStep, TakeAttempt, Claims, ClaimRefused, ClaimFails, Finishes,
                FinishRaises, RaiseCloses
<1>3. CASE \E p \in Submitters : SubmitStep(p)
    BY <1>3 DEF SubmitStep, GateRefuses, GateDuplicate, GateAllows, GateRaises, Checkpoints,
                CheckpointExists, CheckpointFails, FenceRefuses, FenceChecks, Posts,
                PostReturns, Settles, SettleFails
<1>4. CASE \E d \in Desks : DeskAnswered(d) \/ \E k \in Keys : DeskAsks(d, k)
    BY <1>4 DEF DeskAnswered, DeskAsks
<1>5. CASE ControlStep
    BY <1>5 DEF ControlStep, ControlAsked, MutationBegins, MutationEnds, StopPublishes,
                StopChangesMode, StopEnds, EntriesReopen
<1>6. CASE UNCHANGED vars
    BY <1>6 DEF vars
<1> QED
    BY <1>1, <1>2, <1>3, <1>4, <1>5, <1>6 DEF Next

(* The reconciler's copy of a settled order stays true.                      *)
LEMMA ImageStep ==
    ASSUME DispatchInvariant, SealHeld, ImageHeld, [Next]_vars PROVE ImageHeld'
<1>1. CASE image' = image
  <2>1. ASSUME NEW k \in Keys, image[k].state \in KnownStates, ledger'[k] # ledger[k]
        PROVE  FALSE
    <3>1. ledger[k].state \in {"absent", "dispatch_pending"}
      BY <2>1, LedgerWrites
    <3> QED
      BY <2>1, <3>1 DEF ImageHeld, KnownStates
  <2> QED
    BY <1>1, <2>1 DEF ImageHeld
<1>2. CASE image' # image
  <2>1. ReconcileReads \/ ReconcileCloses \/ Crash
    BY <1>2, ImageMoves
  <2>2. CASE ReconcileReads
    BY <2>2 DEF ReconcileReads, durable, ImageHeld
  <2>3. CASE ReconcileCloses \/ Crash
    <3>1. image' = [k \in Keys |-> Unreserved]
      BY <2>3 DEF ReconcileCloses, Crash
    <3> QED
      BY <3>1 DEF ImageHeld, Unreserved, KnownStates
  <2> QED
    BY <2>1, <2>2, <2>3
<1> QED
    BY <1>1, <1>2

(* What a step writes to a row of a journal.                                 *)
LEMMA RowWrites ==
    ASSUME DispatchInvariant, QueueHeld, [Next]_vars, NEW c \in Commands, rows'[c] # rows[c]
    PROVE  /\ ledger' = ledger
           /\ \/ \E w \in Workers : /\ pc[w] = "insert" /\ c = now[w] /\ rows[c] = Absent
                                    /\ rows'[c].state \in {"QUEUED", "BLOCKED"}
              \/ \E w \in Workers : /\ pc[w] = "abort" /\ AbortNext(w) /\ c = Head(batch[w])
                                    /\ rows[c].state = "QUEUED" /\ rows'[c].state = "ABORTED"
              \/ \E w \in Workers : /\ pc[w] = "claim" /\ Claims(w) /\ c = now[w]
                                    /\ rows[c].state = "QUEUED"
                                    /\ rows'[c].state = "DISPATCHING"
              \/ \E w \in Workers : /\ pc[w] = "claim" /\ ClaimRefused(w) /\ c = now[w]
                                    /\ rows[c].state = "QUEUED" /\ rows'[c].state = "BLOCKED"
              \/ \E w \in Workers : /\ pc[w] = "finish" /\ c = now[w]
                                    /\ rows[c].state = "DISPATCHING"
                                    /\ rows'[c].state = StatusOf(result[w])
              \/ \E w \in Workers : /\ pc[w] = "raise" /\ c = now[w]
                                    /\ rows[c].state = "DISPATCHING"
                                    /\ rows'[c].state = "UNKNOWN"
              \/ /\ rows[c].state \in {"UNKNOWN", "DISPATCHING"} /\ Evidence(c)
                 /\ rows'[c].state = "RESOLVED"
<1>0. /\ rows \in [Commands -> [state : RowStates, owner : Nat, epoch : Nat]]
      /\ batch \in [Workers -> Seq(Commands)]
    BY DEF DispatchInvariant, TypeOK
<1>a. \A w \in Workers : pc[w] \in Claimed => rows[now[w]].state = "DISPATCHING"
    BY DEF DispatchInvariant, ClaimHeld
<1>1. ASSUME NEW w \in Workers, EnqueueInserts(w)
      PROVE  /\ pc[w] = "insert" /\ c = now[w] /\ rows[c] = Absent /\ ledger' = ledger
             /\ rows'[c].state \in {"QUEUED", "BLOCKED"}
    BY <1>0, <1>1 DEF EnqueueInserts
<1>2. ASSUME NEW w \in Workers, AbortNext(w)
      PROVE  /\ pc[w] = "abort" /\ c = Head(batch[w]) /\ rows[c].state = "QUEUED"
             /\ rows'[c].state = "ABORTED" /\ ledger' = ledger
  <2>1. /\ pc[w] = "abort" /\ ledger' = ledger
        /\ rows' = [rows EXCEPT ![Head(batch[w])].state = "ABORTED"]
    BY <1>2 DEF AbortNext, Closes
  <2>2. c = Head(batch[w]) /\ rows'[c].state = "ABORTED"
    BY <1>0, <2>1
  <2>3. batch[w] \in Seq(Commands) /\ batch[w] # <<>>
    BY <1>0, <2>1 DEF DispatchInvariant, BatchHeld, Batched
  <2>4. 1 \in 1 .. Len(batch[w]) /\ Head(batch[w]) = batch[w][1]
    BY <2>3
  <2>5. rows[batch[w][1]].state = "QUEUED"
    BY <2>1, <2>4 DEF QueueHeld, Claimed, Attempting
  <2> QED
    BY <2>1, <2>2, <2>4, <2>5
<1>3. ASSUME NEW w \in Workers, Claims(w)
      PROVE  /\ pc[w] = "claim" /\ c = now[w] /\ rows[c].state = "QUEUED"
             /\ rows'[c].state = "DISPATCHING" /\ ledger' = ledger
    BY <1>0, <1>3 DEF Claims, Claimable
<1>4. ASSUME NEW w \in Workers, ClaimRefused(w)
      PROVE  /\ pc[w] = "claim" /\ c = now[w] /\ rows[c].state = "QUEUED"
             /\ rows'[c].state = "BLOCKED" /\ ledger' = ledger
    BY <1>0, <1>4 DEF ClaimRefused, Claimable
<1>5. ASSUME NEW w \in Workers, Finishes(w)
      PROVE  /\ pc[w] = "finish" /\ c = now[w] /\ rows[c].state = "DISPATCHING"
             /\ rows'[c].state = StatusOf(result[w]) /\ ledger' = ledger
  <2>1. /\ pc[w] = "finish" /\ ledger' = ledger
        /\ rows' = [rows EXCEPT ![now[w]].state = StatusOf(result[w])]
    BY <1>5 DEF Finishes, Closes
  <2>2. c = now[w] /\ rows'[c].state = StatusOf(result[w])
    BY <1>0, <2>1
  <2> QED
    BY <1>a, <2>1, <2>2 DEF Claimed, Attempting
<1>6. ASSUME NEW w \in Workers, RaiseCloses(w)
      PROVE  /\ pc[w] = "raise" /\ c = now[w] /\ rows[c].state = "DISPATCHING"
             /\ rows'[c].state = "UNKNOWN" /\ ledger' = ledger
  <2>1. /\ pc[w] = "raise" /\ ledger' = ledger
        /\ rows' = [rows EXCEPT ![now[w]].state = "UNKNOWN"]
    BY <1>6 DEF RaiseCloses, Closes
  <2>2. c = now[w] /\ rows'[c].state = "UNKNOWN"
    BY <1>0, <2>1
  <2> QED
    BY <1>a, <2>1, <2>2 DEF Claimed, Attempting
<1>7. ASSUME ReconcileCloses
      PROVE  /\ rows[c].state \in {"UNKNOWN", "DISPATCHING"} /\ Evidence(c)
             /\ rows'[c].state = "RESOLVED" /\ ledger' = ledger
  <2>1. /\ Uncertain(c) /\ Evidence(c) /\ ledger' = ledger
        /\ rows'[c] = [rows[c] EXCEPT !.state = "RESOLVED"]
    BY <1>7 DEF ReconcileCloses
  <2> QED
    BY <1>0, <2>1 DEF Uncertain
<1> QED
    BY <1>1, <1>2, <1>3, <1>4, <1>5, <1>6, <1>7, RowsMove

(* Closing a row tells what the ledger says of its order, and the ledger     *)
(* keeps saying it.                                                          *)
LEMMA RowsAgreeStep ==
    ASSUME DispatchInvariant, RowsInvariant, [Next]_vars PROVE RowsAgreeWithLedger'
<1> SUFFICES ASSUME NEW c \in Commands
             PROVE  LET order == ledger'[KeyOf[c]]
                        own == order.seal = c
                    IN  /\ rows'[c].state = "COMPLETED" => own /\ order.state = "acknowledged"
                        /\ rows'[c].state = "RESOLVED" => own /\ order.state \in KnownStates
                        /\ rows'[c].state = "ABORTED" => ~own
                        /\ rows'[c].state = "BLOCKED" /\ own => order.state \in Refusals
    BY DEF RowsAgreeWithLedger
<1>0. QueueHeld /\ SealHeld /\ ImageHeld /\ KeyOf[c] \in Keys
    BY RoutesTyped DEF RowsInvariant
<1>a. LET order == ledger[KeyOf[c]]
          own == order.seal = c
      IN  /\ rows[c].state = "COMPLETED" => own /\ order.state = "acknowledged"
          /\ rows[c].state = "RESOLVED" => own /\ order.state \in KnownStates
          /\ rows[c].state = "ABORTED" => ~own
          /\ rows[c].state = "BLOCKED" /\ own => order.state \in Refusals
    BY DEF RowsInvariant, RowsAgreeWithLedger
<1>b. rows[c].state \in {"absent", "QUEUED"} => ledger[KeyOf[c]].seal # c
    BY <1>0 DEF SealHeld
<1>1. CASE rows'[c] = rows[c] /\ ledger'[KeyOf[c]] = ledger[KeyOf[c]]
    BY <1>a, <1>1
<1>2. CASE ledger'[KeyOf[c]] # ledger[KeyOf[c]]
  <2>1. PICK p \in Submitters :
              /\ KeyNow(p) = KeyOf[c] /\ rows' = rows
              /\ \/ /\ Checkpoints(p) /\ ledger[KeyOf[c]].state = "absent"
                    /\ ledger'[KeyOf[c]] = [state |-> "dispatch_pending", seal |-> SealNow(p)]
                 \/ /\ Settles(p) /\ ledger[KeyOf[c]].state = "dispatch_pending"
                    /\ ledger[KeyOf[c]].seal = SealNow(p)
                    /\ ledger'[KeyOf[c]].seal = SealNow(p)
    BY <1>0, <1>2, LedgerWrites
  <2>2. SealNow(p) = c => rows[c].state = "DISPATCHING"
    BY <2>1, SealIsOwn DEF Checkpoints, Settles, Claimed, Attempting
  <2>3. rows[c].state \notin {"COMPLETED", "RESOLVED"}
    BY <1>a, <2>1 DEF KnownStates
  <2>4. ledger'[KeyOf[c]].seal = SealNow(p)
    BY <2>1
  <2> QED
    BY <2>1, <2>2, <2>3, <2>4
<1>3. CASE rows'[c] # rows[c]
  <2>1. ledger' = ledger
    BY <1>0, <1>3, RowWrites
  <2>2. CASE rows[c].state \in {"absent", "QUEUED"}
    <3>1. rows'[c].state \in {"QUEUED", "BLOCKED", "ABORTED", "DISPATCHING"}
      BY <1>0, <1>3, <2>2, RowWrites
    <3> QED
      BY <1>b, <2>1, <2>2, <3>1
  <2>3. CASE \E w \in Workers : /\ pc[w] = "finish" /\ c = now[w]
                                /\ rows'[c].state = StatusOf(result[w])
    <3>1. PICK w \in Workers : /\ pc[w] = "finish" /\ c = now[w]
                               /\ rows'[c].state = StatusOf(result[w])
      BY <2>3
    <3>2. LET order == ledger[KeyOf[c]]
          IN  /\ result[w] \in Outcomes
              /\ result[w] = "acknowledged" => order.seal = c /\ order.state = "acknowledged"
              /\ result[w] \in Refusals /\ order.seal = c => order.state \in Refusals
      BY <1>0, <3>1 DEF SealHeld
    <3> QED
      BY <2>1, <3>1, <3>2 DEF StatusOf, Outcomes, Refusals
  <2>4. CASE Evidence(c) /\ rows'[c].state = "RESOLVED"
    BY <1>0, <2>1, <2>4 DEF Evidence, ImageHeld
  <2>5. CASE rows'[c].state = "UNKNOWN"
    BY <2>5
  <2> QED
    BY <1>0, <1>3, <2>2, <2>3, <2>4, <2>5, RowWrites DEF Absent
<1> QED
    BY <1>1, <1>2, <1>3


(* How a submitter comes to hold a reservation: it takes it at the           *)
(* checkpoint, and stays at its order until the result is recorded.          *)
LEMMA ReservingMoves ==
    ASSUME TypeOK, LocksHeld, [Next]_vars, NEW p \in Submitters, pc'[p] \in Reserving
    PROVE  \/ Checkpoints(p) /\ UNCHANGED <<now, desk>>
           \/ /\ pc[p] \in Reserving
              /\ p \in Workers => UNCHANGED now[p]
              /\ p \in Desks => UNCHANGED desk[p]
<1>a. /\ now \in [Workers -> Commands \cup {NoCommand}]
      /\ desk \in [Desks -> Keys \cup {NoKey}]
      /\ pc \in [Threads -> WorkerPlaces \cup ControlPlaces \cup {"closes"}]
      /\ p \in Threads /\ Workers \subseteq Threads /\ Desks \subseteq Threads
      /\ Submitters = Workers \cup Desks
    BY DEF TypeOK, Threads, Submitters
<1>b. /\ Controls \subseteq Threads /\ p \notin Controls /\ Reconciler \in Threads
      /\ Reconciler # p /\ Workers \cap Desks = {}
    BY ThreadsDistinct DEF Controls, Threads, Submitters
<1> USE <1>a, <1>b DEF local, Goes, Reserving
<1>1. CASE \E w \in Workers : CycleStep(w)
  <2>1. PICK w \in Workers : CycleStep(w)
    BY <1>1
  <2> QED
    BY <2>1 DEF CycleStep, StartCycle, EnqueueReads, EnqueueInserts, EnqueueFails, CycleEnds,
                CycleFails, AbortNext, DropsHead, LeavesCycle, ForgetsRead
<1>2. CASE \E w \in Workers : DispatchStep(w)
  <2>1. PICK w \in Workers : DispatchStep(w)
    BY <1>2
  <2> QED
    BY <2>1 DEF DispatchStep, TakeAttempt, Claims, ClaimRefused, ClaimFails, Finishes,
                FinishRaises, RaiseCloses, DropsHead, LeavesAttempt
<1>3. CASE \E q \in Submitters : SubmitStep(q)
  <2>1. PICK q \in Submitters : SubmitStep(q)
    BY <1>3
  <2> QED
    BY <2>1 DEF SubmitStep, GateRefuses, GateDuplicate, GateAllows, GateRaises, Checkpoints,
                CheckpointExists, CheckpointFails, FenceRefuses, FenceChecks, Posts,
                PostReturns, Settles, SettleFails, SubmitEnds
<1>4. CASE \E d \in Desks : DeskAnswered(d) \/ \E k \in Keys : DeskAsks(d, k)
    BY <1>4 DEF DeskAnswered, DeskAsks
<1>5. CASE ControlStep
    BY <1>5 DEF ControlStep, ControlAsked, MutationBegins, MutationEnds, StopPublishes,
                StopChangesMode, StopEnds, EntriesReopen, Controls
<1>6. CASE ReconcileReads \/ ReconcileCloses
    BY <1>6 DEF ReconcileReads, ReconcileCloses
<1>7. CASE Crash
    BY <1>7 DEF Crash
<1>8. CASE UNCHANGED vars
    BY <1>8 DEF vars
<1> QED
    BY <1>1, <1>2, <1>3, <1>4, <1>5, <1>6, <1>7, <1>8 DEF Next

(* How a worker comes to the gate: by the claim of the command it is at.     *)
LEMMA GateMoves ==
    ASSUME TypeOK, [Next]_vars, NEW w \in Workers, pc'[w] \in {"gate", "checkpoint"}
    PROVE  \/ Claims(w) /\ UNCHANGED now
           \/ pc[w] \in {"gate", "checkpoint"} /\ UNCHANGED now[w]
<1>a. /\ now \in [Workers -> Commands \cup {NoCommand}]
      /\ pc \in [Threads -> WorkerPlaces \cup ControlPlaces \cup {"closes"}]
      /\ w \in Threads /\ Workers \subseteq Threads /\ Submitters \subseteq Threads
    BY DEF TypeOK, Threads, Submitters
<1>b. /\ Controls \subseteq Threads /\ w \notin Controls /\ Reconciler \in Threads
      /\ Reconciler # w /\ Workers \cap Desks = {} /\ Desks \subseteq Threads
    BY ThreadsDistinct DEF Controls, Threads, Submitters
<1> USE <1>a, <1>b DEF local, Goes
<1>1. CASE \E v \in Workers : CycleStep(v)
  <2>1. PICK v \in Workers : CycleStep(v)
    BY <1>1
  <2> QED
    BY <2>1 DEF CycleStep, StartCycle, EnqueueReads, EnqueueInserts, EnqueueFails, CycleEnds,
                CycleFails, AbortNext, DropsHead, LeavesCycle, ForgetsRead
<1>2. CASE \E v \in Workers : DispatchStep(v)
  <2>1. PICK v \in Workers : DispatchStep(v)
    BY <1>2
  <2> QED
    BY <2>1 DEF DispatchStep, TakeAttempt, Claims, ClaimRefused, ClaimFails, Finishes,
                FinishRaises, RaiseCloses, DropsHead, LeavesAttempt
<1>3. CASE \E q \in Submitters : SubmitStep(q)
  <2>1. PICK q \in Submitters : SubmitStep(q)
    BY <1>3
  <2> QED
    BY <2>1 DEF SubmitStep, GateRefuses, GateDuplicate, GateAllows, GateRaises, Checkpoints,
                CheckpointExists, CheckpointFails, FenceRefuses, FenceChecks, Posts,
                PostReturns, Settles, SettleFails, SubmitEnds
<1>4. CASE \E d \in Desks : DeskAnswered(d) \/ \E k \in Keys : DeskAsks(d, k)
    BY <1>4 DEF DeskAnswered, DeskAsks
<1>5. CASE ControlStep
    BY <1>5 DEF ControlStep, ControlAsked, MutationBegins, MutationEnds, StopPublishes,
                StopChangesMode, StopEnds, EntriesReopen, Controls
<1>6. CASE ReconcileReads \/ ReconcileCloses
    BY <1>6 DEF ReconcileReads, ReconcileCloses
<1>7. CASE Crash
    BY <1>7 DEF Crash
<1>8. CASE UNCHANGED vars
    BY <1>8 DEF vars
<1> QED
    BY <1>1, <1>2, <1>3, <1>4, <1>5, <1>6, <1>7, <1>8 DEF Next

(* How a worker comes to the end of an attempt, and with which result.       *)
LEMMA FinishMoves ==
    ASSUME TypeOK, [Next]_vars, NEW w \in Workers, pc'[w] = "finish"
    PROVE  \/ pc[w] = "finish" /\ UNCHANGED <<now[w], result[w]>>
           \/ /\ pc[w] \in {"gate", "checkpoint"} /\ UNCHANGED <<ledger, now>>
              /\ result'[w] \in {"risk_blocked", "unknown", "adapter_blocked"}
           \/ pc[w] = "settle" /\ UNCHANGED now /\ result'[w] = "unknown"
           \/ Settles(w) /\ UNCHANGED <<now, result>>
<1>a. /\ now \in [Workers -> Commands \cup {NoCommand}]
      /\ result \in [Submitters -> {"none"} \cup Outcomes]
      /\ pc \in [Threads -> WorkerPlaces \cup ControlPlaces \cup {"closes"}]
      /\ w \in Threads /\ Workers \subseteq Threads /\ Submitters \subseteq Threads
      /\ w \in Submitters /\ Workers \subseteq Submitters /\ Desks \subseteq Submitters
    BY DEF TypeOK, Threads, Submitters
<1>b. /\ Controls \subseteq Threads /\ w \notin Controls /\ Reconciler \in Threads
      /\ Reconciler # w /\ Workers \cap Desks = {} /\ Desks \subseteq Threads
    BY ThreadsDistinct DEF Controls, Threads, Submitters
<1> USE <1>a, <1>b DEF local, durable, Goes
<1>1. CASE \E v \in Workers : CycleStep(v)
  <2>1. PICK v \in Workers : CycleStep(v)
    BY <1>1
  <2> QED
    BY <2>1 DEF CycleStep, StartCycle, EnqueueReads, EnqueueInserts, EnqueueFails, CycleEnds,
                CycleFails, AbortNext, DropsHead, LeavesCycle, ForgetsRead
<1>2. CASE \E v \in Workers : DispatchStep(v)
  <2>1. PICK v \in Workers : DispatchStep(v)
    BY <1>2
  <2> QED
    BY <2>1 DEF DispatchStep, TakeAttempt, Claims, ClaimRefused, ClaimFails, Finishes,
                FinishRaises, RaiseCloses, DropsHead, LeavesAttempt
<1>3. CASE \E q \in Submitters : SubmitStep(q)
  <2>1. PICK q \in Submitters : SubmitStep(q)
    BY <1>3
  <2> QED
    BY <2>1 DEF SubmitStep, GateRefuses, GateDuplicate, GateAllows, GateRaises, Checkpoints,
                CheckpointExists, CheckpointFails, FenceRefuses, FenceChecks, Posts,
                PostReturns, Settles, SettleFails, SubmitEnds
<1>4. CASE \E d \in Desks : DeskAnswered(d) \/ \E k \in Keys : DeskAsks(d, k)
    BY <1>4 DEF DeskAnswered, DeskAsks
<1>5. CASE ControlStep
    BY <1>5 DEF ControlStep, ControlAsked, MutationBegins, MutationEnds, StopPublishes,
                StopChangesMode, StopEnds, EntriesReopen, Controls
<1>6. CASE ReconcileReads \/ ReconcileCloses
    BY <1>6 DEF ReconcileReads, ReconcileCloses
<1>7. CASE Crash
    BY <1>7 DEF Crash
<1>8. CASE UNCHANGED vars
    BY <1>8 DEF vars
<1> QED
    BY <1>1, <1>2, <1>3, <1>4, <1>5, <1>6, <1>7, <1>8 DEF Next

(* An order stays pending, under the seal of its command, until the result   *)
(* of its attempt is recorded.                                               *)
LEMMA SealStep ==
    ASSUME DispatchInvariant, QueueHeld, SealHeld, [Next]_vars PROVE SealHeld'
<1>a. TypeOK /\ LocksHeld /\ BatchHeld /\ ReservationHeld
    BY DEF DispatchInvariant
<1>b. Workers \subseteq Submitters /\ Submitters \subseteq Threads
    BY DEF Submitters, Threads
<1>c. pc \in [Threads -> WorkerPlaces \cup ControlPlaces \cup {"closes"}]
    BY <1>a DEF TypeOK
<1>d. ASSUME NEW k \in Keys, ledger'[k] # ledger[k]
      PROVE  \E q \in Submitters :
                /\ KeyNow(q) = k
                /\ \/ /\ Checkpoints(q) /\ ledger[k].state = "absent"
                      /\ ledger'[k].seal = SealNow(q)
                   \/ /\ Settles(q) /\ ledger[k].state = "dispatch_pending"
                      /\ ledger[k].seal = SealNow(q) /\ ledger'[k].seal = SealNow(q)
  <2>1. PICK q \in Submitters :
              /\ KeyNow(q) = k
              /\ \/ /\ Checkpoints(q) /\ ledger[k].state = "absent"
                    /\ ledger'[k] = [state |-> "dispatch_pending", seal |-> SealNow(q)]
                 \/ /\ Settles(q) /\ ledger[k].state = "dispatch_pending"
                    /\ ledger[k].seal = SealNow(q) /\ ledger'[k].seal = SealNow(q)
    BY <1>d, LedgerWrites
  <2>2. ledger'[k].seal = SealNow(q)
    BY <2>1
  <2> QED
    BY <2>1, <2>2
<1>e. \A c \in Commands : KeyOf[c] \in Keys
    BY RoutesTyped
<1>1. ASSUME NEW c \in Commands, rows'[c].state \in {"absent", "QUEUED"}
      PROVE  ledger'[KeyOf[c]].seal # c
  <2>1. rows[c].state \in {"absent", "QUEUED"}
    <3>1. CASE rows'[c] # rows[c]
      BY <1>1, <3>1, RowWrites DEF StatusOf, Absent
    <3> QED
      BY <1>1, <3>1
  <2>2. ledger[KeyOf[c]].seal # c
    BY <2>1 DEF SealHeld
  <2>3. CASE ledger'[KeyOf[c]] # ledger[KeyOf[c]]
    <3>1. PICK p \in Submitters :
                /\ Checkpoints(p) \/ Settles(p)
                /\ \/ Checkpoints(p) /\ ledger'[KeyOf[c]].seal = SealNow(p)
                   \/ ledger'[KeyOf[c]].seal = ledger[KeyOf[c]].seal
      BY <2>3, <1>d, <1>e
    <3>2. SealNow(p) = c => rows[c].state = "DISPATCHING"
      BY <3>1, SealIsOwn DEF Checkpoints, Settles, Claimed, Attempting
    <3> QED
      BY <2>1, <2>2, <3>1, <3>2
  <2> QED
    BY <2>2, <2>3
<1>2. ASSUME NEW p \in Submitters, pc'[p] \in Reserving
      PROVE  ledger'[KeyNow(p)'] = [state |-> "dispatch_pending", seal |-> SealNow(p)']
  <2>1. CASE Checkpoints(p)
    <3>1. UNCHANGED <<now, desk>> /\ pc[p] \in Claimed
      BY <2>1 DEF Checkpoints, local, Claimed, Attempting
    <3>2. KeyNow(p)' = KeyNow(p) /\ SealNow(p)' = SealNow(p) /\ KeyNow(p) \in Keys
      BY <1>a, <3>1, KeyHeld DEF KeyNow, SealNow
    <3>3. ledger' = [ledger EXCEPT ![KeyNow(p)] =
                       [state |-> "dispatch_pending", seal |-> SealNow(p)]]
      BY <2>1 DEF Checkpoints
    <3> QED
      BY <1>a, <3>2, <3>3 DEF TypeOK
  <2>2. CASE ~Checkpoints(p)
    <3>1. /\ pc[p] \in Reserving
          /\ p \in Workers => UNCHANGED now[p]
          /\ p \in Desks => UNCHANGED desk[p]
      BY <1>a, <1>2, <2>2, ReservingMoves
    <3>2. KeyNow(p)' = KeyNow(p) /\ SealNow(p)' = SealNow(p) /\ KeyNow(p) \in Keys
      BY <1>a, <3>1, KeyHeld DEF KeyNow, SealNow, Submitters, Reserving, Claimed, Attempting
    <3>3. ledger[KeyNow(p)] = [state |-> "dispatch_pending", seal |-> SealNow(p)]
      BY <3>1 DEF SealHeld
    <3>4. ASSUME ledger'[KeyNow(p)] # ledger[KeyNow(p)] PROVE FALSE
      <4>1. PICK q \in Submitters : Settles(q) /\ KeyNow(q) = KeyNow(p)
        BY <3>2, <3>3, <3>4, <1>d
      <4>2. q = p
        BY <1>a, <3>1, <4>1 DEF ReservationHeld, Settles, Reserving
      <4>3. pc'[p] = "finish"
        BY <1>b, <1>c, <4>1, <4>2 DEF Settles, Goes
      <4> QED
        BY <1>2, <4>3 DEF Reserving
    <3> QED
      BY <3>2, <3>3, <3>4
  <2> QED
    BY <2>1, <2>2
<1>3. ASSUME NEW w \in Workers, pc'[w] \in {"gate", "checkpoint"}
      PROVE  ledger'[KeyOf[now'[w]]].seal # now'[w]
  <2>1. pc[w] \in {"claim", "gate", "checkpoint"} /\ now'[w] = now[w] /\ now[w] \in Commands
    BY <1>3, <1>a, GateMoves, NowHeld DEF Claims, Attempting
  <2>2. ledger[KeyOf[now[w]]].seal # now[w]
    <3>1. CASE pc[w] = "claim"
      <4>1. Claims(w)
        BY <1>3, <1>a, <3>1, GateMoves
      <4>2. rows[now[w]].state = "QUEUED"
        BY <4>1 DEF Claims, Claimable
      <4> QED
        BY <2>1, <4>2 DEF SealHeld
    <3> QED
      BY <2>1, <3>1 DEF SealHeld
  <2>3. ASSUME ledger'[KeyOf[now[w]]].seal = now[w] PROVE FALSE
    <3>1. PICK p \in Submitters : Checkpoints(p) /\ SealNow(p) = now[w]
      BY <2>1, <2>2, <2>3, <1>d, <1>e
    <3>2. w = p
      BY <2>1, <3>1, SealIsOwn DEF Checkpoints, Claimed, Attempting
    <3>3. pc'[w] = "fence"
      BY <1>b, <1>c, <3>1, <3>2 DEF Checkpoints, Goes
    <3> QED
      BY <1>3, <3>3
  <2> QED
    BY <2>1, <2>3
<1>4. ASSUME NEW w \in Workers, pc'[w] = "finish"
      PROVE  LET order == ledger'[KeyOf[now'[w]]]
             IN  /\ result'[w] \in Outcomes
                 /\ result'[w] = "acknowledged" =>
                       order.seal = now'[w] /\ order.state = "acknowledged"
                 /\ result'[w] \in Refusals /\ order.seal = now'[w] =>
                       order.state \in Refusals
  <2> USE DEF Outcomes, Refusals
  <2>1. CASE pc[w] = "finish" /\ UNCHANGED <<now[w], result[w]>>
    <3>1. /\ result[w] \in Outcomes /\ now[w] \in Commands
          /\ result[w] = "acknowledged" =>
               /\ ledger[KeyOf[now[w]]].seal = now[w]
               /\ ledger[KeyOf[now[w]]].state = "acknowledged"
          /\ result[w] \in Refusals /\ ledger[KeyOf[now[w]]].seal = now[w] =>
               ledger[KeyOf[now[w]]].state \in Refusals
      BY <1>a, <2>1, NowHeld DEF SealHeld, Attempting
    <3>2. ASSUME ledger'[KeyOf[now[w]]] # ledger[KeyOf[now[w]]]
          PROVE  /\ result[w] # "acknowledged"
                 /\ ~(result[w] \in Refusals /\ ledger'[KeyOf[now[w]]].seal = now[w])
      <4>1. PICK p \in Submitters :
                  \/ /\ Checkpoints(p) /\ ledger[KeyOf[now[w]]].state = "absent"
                     /\ ledger'[KeyOf[now[w]]].seal = SealNow(p)
                  \/ /\ Settles(p) /\ ledger[KeyOf[now[w]]].state = "dispatch_pending"
                     /\ ledger'[KeyOf[now[w]]].seal = ledger[KeyOf[now[w]]].seal
        BY <3>1, <3>2, <1>d, <1>e
      <4>2. Checkpoints(p) => SealNow(p) # now[w]
        <5>1. ASSUME Checkpoints(p), SealNow(p) = now[w] PROVE FALSE
          <6>1. w = p
            BY <2>1, <3>1, <5>1, SealIsOwn DEF Checkpoints, Claimed, Attempting
          <6> QED
            BY <2>1, <5>1, <6>1 DEF Checkpoints
        <5> QED
          BY <5>1
      <4> QED
        BY <3>1, <4>1, <4>2
    <3> QED
      BY <2>1, <3>1, <3>2
  <2>2. CASE /\ pc[w] \in {"gate", "checkpoint"} /\ UNCHANGED <<ledger, now>>
             /\ result'[w] \in {"risk_blocked", "unknown", "adapter_blocked"}
    BY <2>2 DEF SealHeld
  <2>3. CASE pc[w] = "settle" /\ UNCHANGED now /\ result'[w] = "unknown"
    BY <2>3
  <2>4. CASE Settles(w) /\ UNCHANGED <<now, result>>
    <3>1. /\ result[w] \in Outcomes /\ KeyNow(w) \in Keys
          /\ KeyNow(w) = KeyOf[now[w]] /\ SealNow(w) = now[w]
      BY <1>a, <1>b, <2>4, KeyHeld DEF Settles, ReservationHeld, KeyNow, SealNow, Claimed, Attempting
    <3>2. ledger[KeyNow(w)] = [state |-> "dispatch_pending", seal |-> now[w]]
      BY <1>b, <2>4, <3>1 DEF SealHeld, Settles, Reserving
    <3>3. ledger' = [ledger EXCEPT ![KeyNow(w)].state = result[w]]
      BY <2>4 DEF Settles
    <3>4. ledger'[KeyNow(w)].state = result[w] /\ ledger'[KeyNow(w)].seal = now[w]
      BY <1>a, <3>1, <3>2, <3>3 DEF TypeOK
    <3> QED
      BY <2>4, <3>1, <3>4
  <2> QED
    BY <1>4, <1>a, <2>1, <2>2, <2>3, <2>4, FinishMoves
<1> QED
    BY <1>1, <1>2, <1>3, <1>4 DEF SealHeld, KeyNow, SealNow

(* The commands of a batch are in Commands, at positions that Tail shifts.   *)
LEMMA BatchTyped ==
    ASSUME TypeOK, NEW w \in Workers, batch[w] # <<>>
    PROVE  /\ batch[w] \in Seq(Commands) /\ Len(batch[w]) \in Nat \ {0}
           /\ \A i \in 1 .. Len(batch[w]) : batch[w][i] \in Commands
           /\ Head(batch[w]) = batch[w][1] /\ 1 \in 1 .. Len(batch[w])
           /\ Tail(batch[w]) \in Seq(Commands)
           /\ Len(Tail(batch[w])) = Len(batch[w]) - 1
           /\ \A i \in 1 .. Len(Tail(batch[w])) :
                 Tail(batch[w])[i] = batch[w][i + 1] /\ i + 1 \in 1 .. Len(batch[w])
<1> DEFINE s == batch[w]
<1>1. s \in Seq(Commands) /\ s # <<>>
    BY DEF TypeOK
<1> HIDE DEF s
<1>2. Len(s) \in Nat \ {0} /\ \A i \in 1 .. Len(s) : s[i] \in Commands
    BY <1>1
<1>3. Head(s) = s[1] /\ 1 \in 1 .. Len(s)
    BY <1>1, <1>2
<1>4. Tail(s) \in Seq(Commands) /\ Len(Tail(s)) = Len(s) - 1
    BY <1>1
<1>5. \A i \in 1 .. Len(Tail(s)) : Tail(s)[i] = s[i + 1] /\ i + 1 \in 1 .. Len(s)
    BY <1>1, <1>2, <1>4
<1> QED
    BY <1>1, <1>2, <1>3, <1>4, <1>5 DEF s

(* A command that waits in a batch stays queued; only the head is taken, and *)
(* only by the worker of the batch.                                          *)
LEMMA QueuedStays ==
    ASSUME DispatchInvariant, QueueHeld, [Next]_vars, NEW w \in Workers,
           NEW i \in 1 .. Len(batch[w]), rows[batch[w][i]].state = "QUEUED"
    PROVE  \/ rows'[batch[w][i]].state = "QUEUED"
           \/ i = 1 /\ (AbortNext(w) \/ Claims(w) \/ ClaimRefused(w))
<1> DEFINE c == batch[w][i]
<1>1. TypeOK /\ BatchHeld
    BY DEF DispatchInvariant
<1>2. c \in Commands /\ HomeOf[c] = w /\ batch[w] # <<>>
    BY <1>1 DEF TypeOK, BatchHeld
<1>3. SUFFICES ASSUME rows'[c].state # "QUEUED"
               PROVE  i = 1 /\ (AbortNext(w) \/ Claims(w) \/ ClaimRefused(w))
    OBVIOUS
<1>4. PICK v \in Workers :
            \/ pc[v] = "abort" /\ AbortNext(v) /\ c = Head(batch[v])
            \/ pc[v] = "claim" /\ (Claims(v) \/ ClaimRefused(v)) /\ c = now[v]
    BY <1>2, <1>3, RowWrites DEF Absent
<1>5. c = Head(batch[v]) /\ HomeOf[c] = v
    BY <1>1, <1>4, HeadHeld DEF QueueHeld, Attempting, Batched
<1>6. v = w
    BY <1>2, <1>5
<1>7. Head(batch[w]) = batch[w][1] /\ 1 \in 1 .. Len(batch[w])
    BY <1>1, <1>2, BatchTyped
<1>8. i = 1
    BY <1>5, <1>6, <1>7 DEF QueueHeld
<1> QED
    BY <1>4, <1>6, <1>8

(* What a step does to the batch of a worker: a command enters it, its head  *)
(* leaves it, a crash forgets it, or it stays while the worker goes on.      *)
LEMMA BatchMoves ==
    ASSUME DispatchInvariant, QueueHeld, [Next]_vars, NEW w \in Workers
    PROVE  \/ batch'[w] = <<>> /\ pc'[w] = "idle"
           \/ EnqueueInserts(w)
           \/ /\ pc[w] \in Batched /\ batch'[w] = Tail(batch[w])
              /\ \/ pc'[w] = "idle" /\ Len(batch[w]) = 1
                 \/ pc'[w] \in {"abort", "queue"}
           \/ /\ batch'[w] = batch[w] /\ ~AbortNext(w) /\ ~ClaimRefused(w)
              /\ pc'[w] = "idle" => batch[w] = <<>>
              /\ pc'[w] \in Attempting => now'[w] = Head(batch[w])
              /\ pc[w] \in Claimed => pc'[w] \in Claimed
              /\ Claims(w) => pc'[w] \in Claimed
<1>a. /\ now \in [Workers -> Commands \cup {NoCommand}]
      /\ batch \in [Workers -> Seq(Commands)]
      /\ pc \in [Threads -> WorkerPlaces \cup ControlPlaces \cup {"closes"}]
      /\ w \in Threads /\ Workers \subseteq Threads /\ Submitters \subseteq Threads
      /\ Workers \subseteq Submitters
    BY DEF DispatchInvariant, TypeOK, Threads, Submitters
<1>b. /\ Controls \subseteq Threads /\ w \notin Controls /\ Reconciler \in Threads
      /\ Reconciler # w /\ Workers \cap Desks = {} /\ Desks \subseteq Threads
    BY ThreadsDistinct DEF Controls, Threads, Submitters
<1>c. /\ pc[w] = "idle" => batch[w] = <<>>
      /\ pc[w] \in Attempting => now[w] = Head(batch[w])
    BY DEF QueueHeld
<1> DEFINE Stays == /\ batch'[w] = batch[w]
                    /\ ~AbortNext(w) /\ ~ClaimRefused(w) /\ ~Claims(w)
                    /\ pc'[w] = "idle" => batch[w] = <<>>
                    /\ pc'[w] \in Attempting => now'[w] = Head(batch[w])
                    /\ pc[w] \in Claimed => pc'[w] \in Claimed
<1>d. ASSUME batch'[w] = batch[w], pc'[w] = pc[w], now'[w] = now[w] PROVE Stays
  <2>1. ~AbortNext(w)
    <3>1. ASSUME AbortNext(w) PROVE FALSE
      <4>1. pc[w] = "abort" /\ batch'[w] = Tail(batch[w]) /\ batch[w] # <<>>
        BY <1>a, <3>1 DEF AbortNext, DropsHead, DispatchInvariant, BatchHeld, Batched
      <4>2. Len(Tail(batch[w])) = Len(batch[w]) - 1 /\ Len(batch[w]) \in Nat \ {0}
        BY <4>1, BatchTyped DEF DispatchInvariant
      <4>3. Tail(batch[w]) = batch[w]
        BY <1>d, <4>1
      <4>4. Len(Tail(batch[w])) = Len(batch[w])
        BY <4>3, Zenon
      <4> QED
        BY <4>2, <4>4
    <3> QED
      BY <3>1
  <2>2. ~ClaimRefused(w) /\ ~Claims(w)
    <3>1. ClaimRefused(w) \/ Claims(w) => pc[w] = "claim" /\ pc'[w] # "claim"
      BY <1>a DEF ClaimRefused, Claims, LeavesAttempt, DropsHead, Goes
    <3> QED
      BY <1>d, <3>1
  <2> QED
    BY <1>c, <1>d, <2>1, <2>2
<1> HIDE DEF Stays
<1> USE DEF local, Goes
<1>1. CASE \E v \in Workers : CycleStep(v)
  <2>1. PICK v \in Workers : CycleStep(v)
    BY <1>1
  <2>2. CASE v # w
    <3>1. batch'[w] = batch[w] /\ pc'[w] = pc[w] /\ now'[w] = now[w]
      BY <1>a, <2>1, <2>2 DEF CycleStep, StartCycle, EnqueueReads, EnqueueInserts,
             EnqueueFails, CycleEnds, CycleFails, AbortNext, DropsHead, LeavesCycle, ForgetsRead
    <3> QED
      BY <1>d, <3>1 DEF Stays
  <2>3. CASE v = w /\ AbortNext(w)
    BY <1>a, <2>3 DEF AbortNext, DropsHead, Batched
  <2>4. CASE v = w /\ EnqueueInserts(w)
    BY <2>4
  <2>5. CASE v = w /\ ~AbortNext(w) /\ ~EnqueueInserts(w)
    <3>1. /\ batch'[w] = batch[w] /\ pc[w] \in {"idle", "cycle", "insert"}
          /\ pc'[w] \notin Attempting
          /\ pc'[w] = "idle" => batch[w] = <<>>
      BY <1>a, <2>1, <2>5 DEF CycleStep, StartCycle, EnqueueReads, EnqueueFails, CycleEnds,
             CycleFails, LeavesCycle, Attempting
    <3> QED
      BY <2>5, <3>1 DEF Claims, ClaimRefused, Claimed, Attempting
  <2> QED
    BY <2>2, <2>3, <2>4, <2>5
<1>2. CASE \E v \in Workers : DispatchStep(v)
  <2>1. PICK v \in Workers : DispatchStep(v)
    BY <1>2
  <2>2. CASE v # w
    <3>1. batch'[w] = batch[w] /\ pc'[w] = pc[w] /\ now'[w] = now[w]
      BY <1>a, <2>1, <2>2 DEF DispatchStep, TakeAttempt, Claims, ClaimRefused, ClaimFails,
             Finishes, FinishRaises, RaiseCloses, DropsHead, LeavesAttempt
    <3> QED
      BY <1>d, <3>1 DEF Stays
  <2>3. CASE v = w /\ (ClaimRefused(w) \/ ClaimFails(w) \/ Finishes(w) \/ RaiseCloses(w))
    BY <1>a, <2>3 DEF ClaimRefused, ClaimFails, Finishes, RaiseCloses, LeavesAttempt,
           DropsHead, Batched, Attempting
  <2>4. CASE v = w /\ (TakeAttempt(w) \/ Claims(w) \/ FinishRaises(w))
    <3>1. /\ batch'[w] = batch[w] /\ pc'[w] \in {"claim", "gate", "raise"}
          /\ pc'[w] = "claim" => pc[w] = "queue" /\ now'[w] = Head(batch[w])
          /\ pc'[w] = "gate" => pc[w] = "claim" /\ now'[w] = now[w]
          /\ pc'[w] = "raise" => pc[w] = "finish" /\ now'[w] = now[w]
      BY <1>a, <2>4 DEF TakeAttempt, Claims, FinishRaises
    <3>2. ~AbortNext(w) /\ ~ClaimRefused(w)
      BY <1>a, <3>1 DEF AbortNext, ClaimRefused, LeavesAttempt, DropsHead
    <3> QED
      BY <1>c, <3>1, <3>2 DEF Claims, Claimed, Attempting
  <2> QED
    BY <2>1, <2>2, <2>3, <2>4 DEF DispatchStep
<1>3. CASE \E p \in Submitters : SubmitStep(p)
  <2>1. PICK p \in Submitters : SubmitStep(p)
    BY <1>3
  <2>2. batch' = batch /\ now' = now
    BY <2>1 DEF SubmitStep, GateRefuses, GateDuplicate, GateAllows, GateRaises, Checkpoints,
           CheckpointExists, CheckpointFails, FenceRefuses, FenceChecks, Posts, PostReturns,
           Settles, SettleFails
  <2>3. CASE p # w
    <3>1. pc'[w] = pc[w]
      BY <1>a, <2>1, <2>3 DEF SubmitStep, GateRefuses, GateDuplicate, GateAllows, GateRaises,
             Checkpoints, CheckpointExists, CheckpointFails, FenceRefuses, FenceChecks, Posts,
             PostReturns, Settles, SettleFails, SubmitEnds
    <3> QED
      BY <1>d, <2>2, <3>1 DEF Stays
  <2>4. CASE p = w
    <3>1. pc[w] \in Claimed /\ pc'[w] \in Claimed
      BY <1>a, <2>1, <2>4 DEF SubmitStep, GateRefuses, GateDuplicate, GateAllows, GateRaises,
             Checkpoints, CheckpointExists, CheckpointFails, FenceRefuses, FenceChecks, Posts,
             PostReturns, Settles, SettleFails, SubmitEnds, Claimed, Attempting
    <3> QED
      BY <1>c, <2>2, <3>1 DEF AbortNext, ClaimRefused, Claimed, Attempting
  <2> QED
    BY <2>3, <2>4
<1>4. CASE \E d \in Desks : DeskAnswered(d) \/ \E k \in Keys : DeskAsks(d, k)
  <2>1. batch' = batch /\ now' = now /\ pc'[w] = pc[w]
    BY <1>a, <1>b, <1>4 DEF DeskAnswered, DeskAsks
  <2> QED
    BY <1>d, <2>1 DEF Stays
<1>5. CASE ControlStep
  <2>1. batch' = batch /\ now' = now /\ pc'[w] = pc[w]
    BY <1>a, <1>b, <1>5 DEF ControlStep, ControlAsked, MutationBegins, MutationEnds,
           StopPublishes, StopChangesMode, StopEnds, EntriesReopen, Controls
  <2> QED
    BY <1>d, <2>1 DEF Stays
<1>6. CASE ReconcileReads \/ ReconcileCloses
  <2>1. batch' = batch /\ now' = now /\ pc'[w] = pc[w]
    BY <1>a, <1>b, <1>6 DEF ReconcileReads, ReconcileCloses
  <2> QED
    BY <1>d, <2>1 DEF Stays
<1>7. CASE Crash
    BY <1>a, <1>7 DEF Crash
<1>8. CASE UNCHANGED vars
    BY <1>d, <1>8 DEF vars, Stays
<1> QED
    BY <1>1, <1>2, <1>3, <1>4, <1>5, <1>6, <1>7, <1>8 DEF Next

(* The batches and the journals go on together: what a worker has queued is  *)
(* queued in its journal until it is the command of its attempt.             *)
LEMMA QueueStep ==
    ASSUME DispatchInvariant, QueueHeld, [Next]_vars PROVE QueueHeld'
<1> SUFFICES ASSUME NEW w \in Workers
             PROVE  /\ pc'[w] = "idle" => batch'[w] = <<>>
                    /\ \A i, j \in 1 .. Len(batch'[w]) :
                          batch'[w][i] = batch'[w][j] => i = j
                    /\ pc'[w] \in Attempting => now'[w] = Head(batch'[w])
                    /\ \A i \in 1 .. Len(batch'[w]) :
                          \/ rows'[batch'[w][i]].state = "QUEUED"
                          \/ i = 1 /\ pc'[w] \in Claimed
    BY DEF QueueHeld
<1>a. TypeOK /\ batch[w] \in Seq(Commands)
    BY DEF DispatchInvariant, TypeOK
<1>b. /\ \A i, j \in 1 .. Len(batch[w]) : batch[w][i] = batch[w][j] => i = j
      /\ \A i \in 1 .. Len(batch[w]) :
            \/ rows[batch[w][i]].state = "QUEUED"
            \/ i = 1 /\ pc[w] \in Claimed
    BY DEF QueueHeld
<1>c. \A i \in 1 .. Len(batch[w]) : rows[batch[w][i]].state = "QUEUED" =>
         \/ rows'[batch[w][i]].state = "QUEUED"
         \/ i = 1 /\ (AbortNext(w) \/ Claims(w) \/ ClaimRefused(w))
    BY QueuedStays
<1>1. CASE batch'[w] = <<>> /\ pc'[w] = "idle"
    BY <1>1 DEF Attempting
<1>2. CASE EnqueueInserts(w)
  <2> DEFINE s == batch[w]
             c == now[w]
  <2>1. /\ pc[w] = "insert" /\ c \in Commands /\ pc'[w] = "cycle"
    <3>1. pc \in [Threads -> WorkerPlaces \cup ControlPlaces \cup {"closes"}] /\ w \in Threads
      BY <1>a DEF TypeOK, Threads, Submitters
    <3> QED
      BY <1>2, <1>a, <3>1, NowHeld DEF EnqueueInserts, Goes, DispatchInvariant
  <2>2. \A i \in 1 .. Len(s) : rows[s[i]].state = "QUEUED" /\ rows'[s[i]].state = "QUEUED"
    BY <1>b, <1>c, <2>1 DEF Claimed, Attempting, AbortNext, Claims, ClaimRefused
  <2>3. \/ batch'[w] = s
        \/ /\ batch'[w] = Append(s, c) /\ rows[c] = Absent /\ rows'[c].state = "QUEUED"
    <3>1. /\ rows \in [Commands -> [state : RowStates, owner : Nat, epoch : Nat]]
          /\ batch \in [Workers -> Seq(Commands)]
      BY <1>a DEF TypeOK
    <3> QED
      BY <1>2, <2>1, <3>1 DEF EnqueueInserts
  <2> HIDE DEF s, c
  <2>4. CASE batch'[w] = s
    BY <1>b, <2>1, <2>2, <2>4 DEF s, Attempting
  <2>5. CASE batch'[w] = Append(s, c) /\ rows[c] = Absent /\ rows'[c].state = "QUEUED"
    <3>1. s \in Seq(Commands) /\ Len(s) \in Nat
      BY <1>a DEF s
    <3>2. /\ Len(Append(s, c)) = Len(s) + 1 /\ Append(s, c)[Len(s) + 1] = c
          /\ \A i \in 1 .. Len(s) : Append(s, c)[i] = s[i]
      BY <2>1, <3>1
    <3>3. \A i \in 1 .. Len(s) : s[i] # c
      BY <2>2, <2>5 DEF Absent
    <3>4. \A i \in 1 .. Len(s) + 1 : i \in 1 .. Len(s) \/ i = Len(s) + 1
      BY <3>1
    <3>5. \A i \in 1 .. Len(Append(s, c)) : rows'[Append(s, c)[i]].state = "QUEUED"
      BY <2>2, <2>5, <3>2, <3>4
    <3>6. \A i, j \in 1 .. Len(Append(s, c)) :
             Append(s, c)[i] = Append(s, c)[j] => i = j
      BY <1>b, <3>2, <3>3, <3>4 DEF s
    <3> QED
      BY <2>1, <2>5, <3>5, <3>6 DEF Attempting
  <2> QED
    BY <2>3, <2>4, <2>5
<1>3. CASE /\ pc[w] \in Batched /\ batch'[w] = Tail(batch[w])
           /\ \/ pc'[w] = "idle" /\ Len(batch[w]) = 1
              \/ pc'[w] \in {"abort", "queue"}
  <2>1. batch[w] # <<>>
    BY <1>3 DEF DispatchInvariant, BatchHeld
  <2>2. /\ Len(batch[w]) \in Nat \ {0} /\ Tail(batch[w]) \in Seq(Commands)
        /\ Len(Tail(batch[w])) = Len(batch[w]) - 1
        /\ \A i \in 1 .. Len(Tail(batch[w])) :
              Tail(batch[w])[i] = batch[w][i + 1] /\ i + 1 \in 1 .. Len(batch[w])
    BY <1>a, <2>1, BatchTyped
  <2> DEFINE t == Tail(batch[w])
  <2>3. \A i \in 1 .. Len(t) : rows'[t[i]].state = "QUEUED"
    <3>1. ASSUME NEW i \in 1 .. Len(t) PROVE rows'[t[i]].state = "QUEUED"
      <4>1. t[i] = batch[w][i + 1] /\ i + 1 \in 1 .. Len(batch[w]) /\ i + 1 # 1
        BY <2>2
      <4> QED
        BY <1>b, <1>c, <4>1
    <3> QED
      BY <3>1
  <2>4. \A i, j \in 1 .. Len(t) : t[i] = t[j] => i = j
    <3>1. ASSUME NEW i \in 1 .. Len(t), NEW j \in 1 .. Len(t), t[i] = t[j] PROVE i = j
      <4>1. i + 1 = j + 1
        BY <1>b, <2>2, <3>1
      <4> QED
        BY <4>1
    <3> QED
      BY <3>1
  <2>7. t \in Seq(Commands) /\ Len(t) = Len(batch[w]) - 1
    BY <2>2
  <2> HIDE DEF t
  <2>5. Len(batch[w]) = 1 => t = <<>>
    BY <2>7
  <2>6. batch'[w] = t
    BY <1>3 DEF t
  <2> QED
    BY <1>3, <2>3, <2>4, <2>5, <2>6 DEF Attempting
<1>4. CASE /\ batch'[w] = batch[w] /\ ~AbortNext(w) /\ ~ClaimRefused(w)
           /\ pc'[w] = "idle" => batch[w] = <<>>
           /\ pc'[w] \in Attempting => now'[w] = Head(batch[w])
           /\ pc[w] \in Claimed => pc'[w] \in Claimed
           /\ Claims(w) => pc'[w] \in Claimed
  <2>1. ASSUME NEW i \in 1 .. Len(batch[w])
        PROVE  \/ rows'[batch[w][i]].state = "QUEUED"
               \/ i = 1 /\ pc'[w] \in Claimed
    <3>1. CASE rows[batch[w][i]].state = "QUEUED"
      BY <1>c, <1>4, <2>1, <3>1
    <3>2. CASE i = 1 /\ pc[w] \in Claimed
      BY <1>4, <3>2
    <3> QED
      BY <1>b, <2>1, <3>1, <3>2
  <2> QED
    BY <1>b, <1>4, <2>1
<1> QED
    BY <1>1, <1>2, <1>3, <1>4, BatchMoves

\* The invariant holds when the program starts.
LEMMA RowsInvariantInit == Init => RowsInvariant
<1> SUFFICES ASSUME Init PROVE RowsInvariant
    OBVIOUS
<1> USE ThreadsDistinct, RoutesTyped DEF Init, Threads, Submitters, Controls, Attempting,
        Claimed, Reserving
<1>1. QueueHeld
    BY DEF QueueHeld
<1>2. SealHeld
    BY DEF SealHeld, Unreserved
<1>3. ImageHeld
    BY DEF ImageHeld
<1>4. RowsAgreeWithLedger
    BY DEF RowsAgreeWithLedger, Absent
<1> QED
    BY <1>1, <1>2, <1>3, <1>4 DEF RowsInvariant

(* In every reachable state the journals, the batches of the workers, the    *)
(* seals of the ledger and the reconciler's copy agree.                      *)
THEOREM RowsInvariantHolds == Spec => []RowsInvariant
<1>1. Init => DispatchInvariant /\ RowsInvariant
    BY InvariantInit, RowsInvariantInit
<1>2. DispatchInvariant /\ RowsInvariant /\ [Next]_vars =>
         (DispatchInvariant /\ RowsInvariant)'
  <2> SUFFICES ASSUME DispatchInvariant, RowsInvariant, [Next]_vars
               PROVE  DispatchInvariant' /\ RowsInvariant'
    OBVIOUS
  <2>1. DispatchInvariant'
    BY InvariantStep
  <2>2. QueueHeld' /\ SealHeld' /\ ImageHeld'
    BY QueueStep, SealStep, ImageStep DEF RowsInvariant
  <2>3. RowsAgreeWithLedger'
    BY RowsAgreeStep
  <2> QED
    BY <2>1, <2>2, <2>3 DEF RowsInvariant
<1> QED
    BY <1>1, <1>2, PTL DEF Spec

(* A closed row of a journal tells what became of its order: COMPLETED has   *)
(* its acknowledged order, BLOCKED and ABORTED left none open, RESOLVED has  *)
(* evidence (finish and reconcile of continuous_dispatch.py), for any number *)
(* of journals, crashes and failed saves.                                    *)
THEOREM RowsTellTheLedger == Spec => []RowsAgreeWithLedger
<1>1. RowsInvariant => RowsAgreeWithLedger
    BY DEF RowsInvariant
<1> QED
    BY <1>1, RowsInvariantHolds, PTL
===============================================================================
