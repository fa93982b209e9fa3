----------------------- MODULE ContinuousDispatchProofs -----------------------
(* Proofs about ContinuousDispatch, for any journals, controls and bounds.   *)
EXTENDS ContinuousDispatch, TLAPS

\* The command at the head of a batch is one of the worker that took it.
LEMMA HeadHeld ==
    ASSUME TypeOK, BatchHeld, NEW w \in Workers, pc[w] \in Batched
    PROVE  /\ Head(batch[w]) \in Commands /\ HomeOf[Head(batch[w])] = w
           /\ Tail(batch[w]) \in Seq(Commands)
           /\ Len(batch[w]) \in Nat /\ Len(Tail(batch[w])) = Len(batch[w]) - 1
           /\ \A i \in 1 .. Len(Tail(batch[w])) : HomeOf[Tail(batch[w])[i]] = w
           /\ Len(batch[w]) # 1 => Tail(batch[w]) # <<>>
<1> DEFINE s == batch[w]
<1>1. s \in Seq(Commands) /\ s # <<>> /\ \A i \in 1 .. Len(s) : HomeOf[s[i]] = w
    BY DEF TypeOK, BatchHeld
<1>2. Head(s) = s[1] /\ Head(s) \in Commands /\ Tail(s) \in Seq(Commands)
    BY <1>1
<1>3. Len(s) \in Nat /\ Len(s) >= 1 /\ Len(Tail(s)) = Len(s) - 1
    BY <1>1
<1>4. \A i \in 1 .. Len(Tail(s)) : Tail(s)[i] = s[i + 1] /\ i + 1 \in 1 .. Len(s)
    BY <1>1, <1>3
<1>5. Len(<<>>) = 0
    OBVIOUS
<1>6. ASSUME Tail(s) = <<>> PROVE Len(s) = 1
  <2>1. Len(Tail(s)) = Len(<<>>)
    BY <1>6, Zenon
  <2> QED
    BY <2>1, <1>3, <1>5
<1> QED
    BY <1>1, <1>2, <1>3, <1>4, <1>6

\* A row that changes its state is still a row.
LEMMA RowCloses ==
    ASSUME TypeOK, NEW c \in Commands, NEW state \in RowStates
    PROVE  [rows EXCEPT ![c].state = state]
              \in [Commands -> [state : RowStates, owner : Nat, epoch : Nat]]
<1>1. rows \in [Commands -> [state : RowStates, owner : Nat, epoch : Nat]]
  BY DEF TypeOK
<1> QED
  BY <1>1

\* A ledger entry that changes its state is still an entry.
LEMMA OrderSettles ==
    ASSUME TypeOK, NEW k \in Keys, NEW state \in OrderStates
    PROVE  [ledger EXCEPT ![k].state = state]
              \in [Keys -> [state : OrderStates, seal : Commands \cup {NoCommand}]]
<1>1. ledger \in [Keys -> [state : OrderStates, seal : Commands \cup {NoCommand}]]
  BY DEF TypeOK
<1> QED
  BY <1>1

\* A command under way is one of the worker that handles it.
LEMMA NowHeld ==
    ASSUME TypeOK, BatchHeld, NEW w \in Workers, pc[w] \in Attempting \cup {"insert"}
    PROVE  now[w] \in Commands /\ HomeOf[now[w]] = w
BY DEF BatchHeld

\* A submission past its claim has a key, and a seal or none.
LEMMA KeyHeld ==
    ASSUME TypeOK, BatchHeld, NEW p \in Submitters, pc[p] \in Claimed
    PROVE  KeyNow(p) \in Keys /\ SealNow(p) \in Commands \cup {NoCommand}
<1>1. CASE p \in Workers
  <2>1. now[p] \in Commands
    BY <1>1, NowHeld DEF Claimed
  <2> QED
    BY <1>1, <2>1, RoutesTyped DEF KeyNow, SealNow
<1>2. CASE p \in Desks
    BY <1>2, ThreadsDistinct DEF BatchHeld, KeyNow, SealNow
<1> QED
    BY <1>1, <1>2 DEF Submitters

\* A step leaves rows, entries, batches and locks of their shape.
LEMMA TypeStep ==
    TypeOK /\ BatchHeld /\ ReservationHeld /\ [Next]_vars => TypeOK'
<1> SUFFICES ASSUME TypeOK, BatchHeld, ReservationHeld, [Next]_vars PROVE TypeOK'
    OBVIOUS
<1>a. \A w \in Workers : pc[w] \in Batched =>
           Head(batch[w]) \in Commands /\ Tail(batch[w]) \in Seq(Commands)
    BY HeadHeld
<1>b. \A w \in Workers : pc[w] \in Attempting \cup {"insert"} =>
           now[w] \in Commands
    BY NowHeld
<1>c. \A p \in Submitters : pc[p] \in Claimed =>
           KeyNow(p) \in Keys /\ SealNow(p) \in Commands \cup {NoCommand}
    BY KeyHeld
<1>d. \A c \in Commands : \A s \in {"ABORTED", "DISPATCHING", "BLOCKED", "UNKNOWN", "COMPLETED"} :
           [rows EXCEPT ![c].state = s]
              \in [Commands -> [state : RowStates, owner : Nat, epoch : Nat]]
    BY RowCloses DEF RowStates
<1> USE DEF TypeOK, Threads, Controls, Submitters, WorkerPlaces, DeskPlaces, ControlPlaces, Batched, Attempting, Claimed, durable, authority, memory, locks, local, Goes
<1>1. CASE \E w \in Workers : StartCycle(w)
    BY <1>1 DEF StartCycle
<1>2. CASE \E w \in Workers : \E c \in Commands : EnqueueReads(w, c)
  <2>1. PICK w \in Workers, c \in Commands : EnqueueReads(w, c)
    BY <1>2
  <2>2. seen' \in [Workers -> [epoch : Nat, blocked : BOOLEAN]]
    BY <2>1 DEF EnqueueReads, Blocked
  <2> QED
    BY <2>1, <2>2 DEF EnqueueReads
<1>3. CASE \E w \in Workers : EnqueueInserts(w)
    BY <1>3, <1>b DEF EnqueueInserts, ForgetsRead, Absent, RowStates
<1>4. CASE \E w \in Workers : EnqueueFails(w)
    BY <1>4 DEF EnqueueFails, ForgetsRead, LeavesCycle, Fault
<1>5. CASE \E w \in Workers : CycleEnds(w)
    BY <1>5 DEF CycleEnds, LeavesCycle
<1>6. CASE \E w \in Workers : CycleFails(w)
  <2>1. PICK w \in Workers : CycleFails(w)
    BY <1>6
  <2>2. rows' \in [Commands -> [state : RowStates, owner : Nat, epoch : Nat]]
    BY <2>1, <1>a, <1>b, <1>d DEF CycleFails, LeavesCycle, Fault
  <2>3. batch' \in [Workers -> Seq(Commands)]
    BY <2>1, <1>a DEF CycleFails, LeavesCycle, Fault
  <2>4. pc' \in [Threads -> WorkerPlaces \cup ControlPlaces \cup {"closes"}]
    BY <2>1 DEF CycleFails, LeavesCycle, Fault
  <2>5. faults' \in Nat /\ entriesBlocked' \in BOOLEAN
    BY <2>1 DEF CycleFails, LeavesCycle, Fault
  <2> QED
    BY <2>1, <2>2, <2>3, <2>4, <2>5 DEF CycleFails, LeavesCycle
<1>7. CASE \E w \in Workers : AbortNext(w)
  <2>1. PICK w \in Workers : AbortNext(w)
    BY <1>7
  <2>2. CASE Closes(Head(batch[w]), "ABORTED") /\ UNCHANGED <<entriesBlocked, faults>>
    <3>1. rows' \in [Commands -> [state : RowStates, owner : Nat, epoch : Nat]]
        BY <2>1, <2>2, <1>a, <1>b, <1>d DEF AbortNext, Closes
    <3>2. batch' \in [Workers -> Seq(Commands)]
        BY <2>1, <1>a DEF AbortNext, Closes, Closable, DropsHead, Fault, RowStates
    <3>3. pc' \in [Threads -> WorkerPlaces \cup ControlPlaces \cup {"closes"}]
        BY <2>1 DEF AbortNext, Closes, Closable, DropsHead, Fault, RowStates
    <3> QED
        BY <2>1, <2>2, <3>1, <3>2, <3>3 DEF AbortNext, LeavesAttempt, DropsHead
  <2>3. CASE Fault /\ UNCHANGED rows /\ entriesBlocked' = TRUE
    <3>1. batch' \in [Workers -> Seq(Commands)]
        BY <2>1, <1>a DEF AbortNext, Closes, Closable, DropsHead, Fault, RowStates
    <3>2. pc' \in [Threads -> WorkerPlaces \cup ControlPlaces \cup {"closes"}]
        BY <2>1 DEF AbortNext, Closes, Closable, DropsHead, Fault, RowStates
    <3>3. faults' \in Nat /\ entriesBlocked' \in BOOLEAN
        BY <2>1, <2>3 DEF AbortNext, Fault
    <3> QED
        BY <2>1, <2>3, <3>1, <3>2, <3>3 DEF AbortNext, LeavesAttempt
  <2> QED
    BY <2>1, <2>2, <2>3 DEF AbortNext
<1>8. CASE \E w \in Workers : TakeAttempt(w)
    BY <1>8, <1>a, <1>b, SMTT(30) DEF TakeAttempt
<1>9. CASE \E w \in Workers : Claims(w)
  <2>1. PICK w \in Workers : Claims(w)
    BY <1>9
  <2>2. rows' \in [Commands -> [state : RowStates, owner : Nat, epoch : Nat]]
    BY <2>1, <1>a, <1>b, <1>d DEF Claims, Claimable, RowStates
  <2>3. batch' \in [Workers -> Seq(Commands)]
    BY <2>1, <1>a DEF Claims, Claimable, RowStates
  <2>4. pc' \in [Threads -> WorkerPlaces \cup ControlPlaces \cup {"closes"}]
    BY <2>1 DEF Claims, Claimable, RowStates
  <2>5. faults' \in Nat /\ entriesBlocked' \in BOOLEAN
    BY <2>1 DEF Claims, Claimable, RowStates
  <2> QED
    BY <2>1, <2>2, <2>3, <2>4, <2>5 DEF Claims
<1>10. CASE \E w \in Workers : ClaimRefused(w)
  <2>1. PICK w \in Workers : ClaimRefused(w)
    BY <1>10
  <2>2. rows' \in [Commands -> [state : RowStates, owner : Nat, epoch : Nat]]
    BY <2>1, <1>a, <1>b, <1>d DEF ClaimRefused, Claimable, LeavesAttempt, DropsHead, RowStates
  <2>3. batch' \in [Workers -> Seq(Commands)]
    BY <2>1, <1>a DEF ClaimRefused, Claimable, LeavesAttempt, DropsHead, RowStates
  <2>4. pc' \in [Threads -> WorkerPlaces \cup ControlPlaces \cup {"closes"}]
    BY <2>1 DEF ClaimRefused, Claimable, LeavesAttempt, DropsHead, RowStates
  <2>5. faults' \in Nat /\ entriesBlocked' \in BOOLEAN
    BY <2>1 DEF ClaimRefused, Claimable, LeavesAttempt, DropsHead, RowStates
  <2> QED
    BY <2>1, <2>2, <2>3, <2>4, <2>5 DEF ClaimRefused, LeavesAttempt, DropsHead
<1>11. CASE \E w \in Workers : ClaimFails(w)
  <2>1. PICK w \in Workers : ClaimFails(w)
    BY <1>11
  <2>2. rows' \in [Commands -> [state : RowStates, owner : Nat, epoch : Nat]]
    BY <2>1, <1>a, <1>b, <1>d DEF ClaimFails, Fault, LeavesAttempt, DropsHead
  <2>3. batch' \in [Workers -> Seq(Commands)]
    BY <2>1, <1>a DEF ClaimFails, Fault, LeavesAttempt, DropsHead
  <2>4. pc' \in [Threads -> WorkerPlaces \cup ControlPlaces \cup {"closes"}]
    BY <2>1 DEF ClaimFails, Fault, LeavesAttempt, DropsHead
  <2>5. faults' \in Nat /\ entriesBlocked' \in BOOLEAN
    BY <2>1 DEF ClaimFails, Fault, LeavesAttempt, DropsHead
  <2> QED
    BY <2>1, <2>2, <2>3, <2>4, <2>5 DEF ClaimFails, LeavesAttempt, DropsHead
<1>12. CASE \E w \in Workers : Finishes(w)
  <2>1. PICK w \in Workers : Finishes(w)
    BY <1>12
  <2>2. rows' \in [Commands -> [state : RowStates, owner : Nat, epoch : Nat]]
    BY <2>1, <1>a, <1>b, <1>d DEF Finishes, Closes, Closable, LeavesAttempt, DropsHead, StatusOf, RowStates
  <2>3. batch' \in [Workers -> Seq(Commands)]
    BY <2>1, <1>a DEF Finishes, Closes, Closable, LeavesAttempt, DropsHead, StatusOf, RowStates
  <2>4. pc' \in [Threads -> WorkerPlaces \cup ControlPlaces \cup {"closes"}]
    BY <2>1 DEF Finishes, Closes, Closable, LeavesAttempt, DropsHead, StatusOf, RowStates
  <2>5. faults' \in Nat /\ entriesBlocked' \in BOOLEAN
    BY <2>1 DEF Finishes, Closes, Closable, LeavesAttempt, DropsHead, StatusOf, RowStates
  <2> QED
    BY <2>1, <2>2, <2>3, <2>4, <2>5 DEF Finishes, LeavesAttempt, DropsHead
<1>13. CASE \E w \in Workers : FinishRaises(w)
    BY <1>13 DEF FinishRaises, Fault
<1>14. CASE \E w \in Workers : RaiseCloses(w)
  <2>1. PICK w \in Workers : RaiseCloses(w)
    BY <1>14
  <2>2. CASE Closes(now[w], "UNKNOWN") /\ UNCHANGED faults
    <3>1. rows' \in [Commands -> [state : RowStates, owner : Nat, epoch : Nat]]
        BY <2>1, <2>2, <1>a, <1>b, <1>d DEF RaiseCloses, Closes
    <3>2. batch' \in [Workers -> Seq(Commands)]
        BY <2>1, <1>a DEF RaiseCloses, Closes, Closable, Fault, LeavesAttempt, DropsHead, RowStates
    <3>3. pc' \in [Threads -> WorkerPlaces \cup ControlPlaces \cup {"closes"}]
        BY <2>1 DEF RaiseCloses, Closes, Closable, Fault, LeavesAttempt, DropsHead, RowStates
    <3> QED
        BY <2>1, <2>2, <3>1, <3>2, <3>3 DEF RaiseCloses, LeavesAttempt, DropsHead
  <2>3. CASE Fault /\ UNCHANGED rows
    <3>1. batch' \in [Workers -> Seq(Commands)]
        BY <2>1, <1>a DEF RaiseCloses, Closes, Closable, Fault, LeavesAttempt, DropsHead, RowStates
    <3>2. pc' \in [Threads -> WorkerPlaces \cup ControlPlaces \cup {"closes"}]
        BY <2>1 DEF RaiseCloses, Closes, Closable, Fault, LeavesAttempt, DropsHead, RowStates
    <3>3. faults' \in Nat /\ entriesBlocked' \in BOOLEAN
        BY <2>1, <2>3 DEF RaiseCloses, Fault
    <3> QED
        BY <2>1, <2>3, <3>1, <3>2, <3>3 DEF RaiseCloses, LeavesAttempt
  <2> QED
    BY <2>1, <2>2, <2>3 DEF RaiseCloses
<1>15. CASE \E p \in Submitters : GateRefuses(p)
    BY <1>15, <1>c DEF GateRefuses, SubmitEnds, Outcomes
<1>16. CASE \E p \in Submitters : GateDuplicate(p)
  <2>1. PICK p \in Submitters : GateDuplicate(p)
    BY <1>16
  <2>2. PICK state \in {"risk_blocked", "unknown"} : SubmitEnds(p, state)
    BY <2>1 DEF GateDuplicate
  <2>3. pc[p] = "gate" /\ UNCHANGED <<durable, authority, memory, locks, seen, batch, now, desk, image, faults>>
    BY <2>1 DEF GateDuplicate
  <2> QED
    BY <2>2, <2>3, <1>c DEF SubmitEnds, Outcomes
<1>17. CASE \E p \in Submitters : GateAllows(p)
    BY <1>17, <1>c DEF GateAllows
<1>18. CASE \E p \in Submitters : GateRaises(p)
    BY <1>18 DEF GateRaises, Fault
<1>19. CASE \E p \in Submitters : Checkpoints(p)
    BY <1>19, <1>c DEF Checkpoints, OrderStates
<1>20. CASE \E p \in Submitters : CheckpointExists(p)
    BY <1>20 DEF CheckpointExists, SubmitEnds, Outcomes
<1>21. CASE \E p \in Submitters : CheckpointFails(p)
    BY <1>21 DEF CheckpointFails, Fault, SubmitEnds, Outcomes
<1>22. CASE \E p \in Submitters : FenceRefuses(p)
    BY <1>22 DEF FenceRefuses, Outcomes
<1>23. CASE \E p \in Submitters : FenceChecks(p)
    BY <1>23 DEF FenceChecks
<1>24. CASE \E p \in Submitters : Posts(p)
    BY <1>24, <1>c DEF Posts
<1>25. CASE \E p \in Submitters : PostReturns(p)
    BY <1>25 DEF PostReturns, Outcomes
<1>26. CASE \E p \in Submitters : Settles(p)
  <2>1. PICK p \in Submitters : Settles(p)
    BY <1>26
  <2>2. result[p] \in OrderStates /\ KeyNow(p) \in Keys
    BY <2>1, <1>c DEF Settles, OrderStates, ReservationHeld, Reserving
  <2>3. ledger' \in [Keys -> [state : OrderStates, seal : Commands \cup {NoCommand}]]
    BY <2>1, <2>2, OrderSettles DEF Settles
  <2>4. pc' \in [Threads -> WorkerPlaces \cup ControlPlaces \cup {"closes"}]
    BY <2>1 DEF Settles
  <2> QED
    BY <2>1, <2>3, <2>4 DEF Settles
<1>27. CASE \E p \in Submitters : SettleFails(p)
    BY <1>27 DEF SettleFails, Fault, SubmitEnds, Outcomes
<1>28. CASE \E d \in Desks : \E k \in Keys : DeskAsks(d, k)
    BY <1>28 DEF DeskAsks
<1>29. CASE \E d \in Desks : DeskAnswered(d)
    BY <1>29 DEF DeskAnswered
<1>30. CASE \E t \in Controls : ControlAsked(t)
    BY <1>30 DEF ControlAsked
<1>31. CASE \E m \in Mutators : MutationBegins(m)
    BY <1>31 DEF MutationBegins, Publishes
<1>32. CASE \E m \in Mutators : MutationEnds(m)
    BY <1>32 DEF MutationEnds, Retires
<1>33. CASE \E s \in Stoppers : StopPublishes(s)
    BY <1>33 DEF StopPublishes, Publishes
<1>34. CASE \E s \in Stoppers : StopChangesMode(s)
    BY <1>34 DEF StopChangesMode
<1>35. CASE \E s \in Stoppers : StopEnds(s)
    BY <1>35 DEF StopEnds, Retires
<1>36. CASE EntriesReopen
    BY <1>36 DEF EntriesReopen
<1>37. CASE ReconcileReads
    BY <1>37 DEF ReconcileReads
<1>38. CASE ReconcileCloses
  <2>1. rows' \in [Commands -> [state : RowStates, owner : Nat, epoch : Nat]]
    <3>1. \A c \in Commands :
              /\ rows[c] \in [state : RowStates, owner : Nat, epoch : Nat]
              /\ [rows[c] EXCEPT !.state = "RESOLVED"]
                    \in [state : RowStates, owner : Nat, epoch : Nat]
      <4> SUFFICES ASSUME NEW c \in Commands
                   PROVE  /\ rows[c] \in [state : RowStates, owner : Nat, epoch : Nat]
                          /\ [rows[c] EXCEPT !.state = "RESOLVED"]
                                \in [state : RowStates, owner : Nat, epoch : Nat]
          OBVIOUS
      <4>1. rows[c] \in [state : RowStates, owner : Nat, epoch : Nat]
          OBVIOUS
      <4>2. "RESOLVED" \in RowStates
          BY DEF RowStates
      <4> HIDE DEF TypeOK
      <4> QED
          BY <4>1, <4>2
    <3>2. PICK closed \in SUBSET Commands :
             rows' = [c \in Commands |-> IF c \in closed THEN [rows[c] EXCEPT !.state = "RESOLVED"]
                                         ELSE rows[c]]
        BY <1>38 DEF ReconcileCloses
    <3> QED
        BY <3>1, <3>2
  <2>2. image' \in [Keys -> [state : OrderStates, seal : Commands \cup {NoCommand}]]
    BY <1>38 DEF ReconcileCloses, Unreserved, OrderStates
  <2>3. pc' \in [Threads -> WorkerPlaces \cup ControlPlaces \cup {"closes"}]
    BY <1>38 DEF ReconcileCloses
  <2>4. entriesBlocked' \in BOOLEAN
    BY <1>38 DEF ReconcileCloses
  <2> QED
    BY <1>38, <2>1, <2>2, <2>3, <2>4 DEF ReconcileCloses
<1>39. CASE Crash
    BY <1>39 DEF Crash, Unreserved, OrderStates
<1>40. CASE UNCHANGED vars
    BY <1>40 DEF vars
<1> QED
    BY <1>1, <1>2, <1>3, <1>4, <1>5, <1>6, <1>7, <1>8, <1>9, <1>10,
       <1>11, <1>12, <1>13, <1>14, <1>15, <1>16, <1>17, <1>18, <1>19, <1>20,
       <1>21, <1>22, <1>23, <1>24, <1>25, <1>26, <1>27, <1>28, <1>29, <1>30,
       <1>31, <1>32, <1>33, <1>34, <1>35, <1>36, <1>37, <1>38, <1>39, <1>40
    DEF Next, CycleStep, DispatchStep, SubmitStep, ControlStep

\* What TypeOK says of the threads and of the holders of the locks.
LEMMA PlacesTyped ==
    TypeOK => /\ pc \in [Threads -> WorkerPlaces \cup ControlPlaces \cup {"closes"}]
              /\ runtime \in Workers \cup {NoOne}
              /\ attempt \in Workers \cup {NoOne}
              /\ safety \in Threads \cup {NoOne}
BY DEF TypeOK

\* A thread holds the locks of the place where it is, and lets go of none early.
LEMMA LocksStep ==
    TypeOK /\ LocksHeld /\ [Next]_vars => LocksHeld'
<1> SUFFICES ASSUME TypeOK, LocksHeld, [Next]_vars PROVE LocksHeld'
    OBVIOUS
<1>a. /\ pc \in [Threads -> WorkerPlaces \cup ControlPlaces \cup {"closes"}]
     /\ runtime \in Workers \cup {NoOne}
     /\ attempt \in Workers \cup {NoOne}
     /\ safety \in Threads \cup {NoOne}
    BY PlacesTyped
<1> USE <1>a, ThreadsDistinct DEF LocksHeld, Threads, Controls, Submitters, WorkerPlaces, DeskPlaces, ControlPlaces, Batched, Attempting, Claimed, Sending, durable, authority, memory, locks, local, Goes
<1>1. CASE \E w \in Workers : StartCycle(w)
    BY <1>1 DEF StartCycle
<1>2. CASE \E w \in Workers : \E c \in Commands : EnqueueReads(w, c)
    BY <1>2 DEF EnqueueReads
<1>3. CASE \E w \in Workers : EnqueueInserts(w)
    BY <1>3 DEF EnqueueInserts, ForgetsRead
<1>4. CASE \E w \in Workers : EnqueueFails(w)
    BY <1>4 DEF EnqueueFails, ForgetsRead, LeavesCycle, Fault
<1>5. CASE \E w \in Workers : CycleEnds(w)
    BY <1>5 DEF CycleEnds, LeavesCycle
<1>6. CASE \E w \in Workers : CycleFails(w)
    BY <1>6 DEF CycleFails, LeavesCycle, Fault
<1>7. CASE \E w \in Workers : AbortNext(w)
    BY <1>7 DEF AbortNext, Closes, Closable, DropsHead, Fault
<1>8. CASE \E w \in Workers : TakeAttempt(w)
    BY <1>8 DEF TakeAttempt
<1>9. CASE \E w \in Workers : Claims(w)
    BY <1>9 DEF Claims, Claimable
<1>10. CASE \E w \in Workers : ClaimRefused(w)
    BY <1>10 DEF ClaimRefused, Claimable, LeavesAttempt, DropsHead
<1>11. CASE \E w \in Workers : ClaimFails(w)
    BY <1>11 DEF ClaimFails, Fault, LeavesAttempt, DropsHead
<1>12. CASE \E w \in Workers : Finishes(w)
    BY <1>12 DEF Finishes, Closes, Closable, LeavesAttempt, DropsHead, StatusOf
<1>13. CASE \E w \in Workers : FinishRaises(w)
    BY <1>13 DEF FinishRaises, Fault
<1>14. CASE \E w \in Workers : RaiseCloses(w)
    BY <1>14 DEF RaiseCloses, Closes, Closable, Fault, LeavesAttempt, DropsHead
<1>15. CASE \E p \in Submitters : GateRefuses(p)
    BY <1>15 DEF GateRefuses, SubmitEnds
<1>16. CASE \E p \in Submitters : GateDuplicate(p)
  <2>1. PICK p \in Submitters : GateDuplicate(p)
    BY <1>16
  <2>2. PICK state \in {"risk_blocked", "unknown"} : SubmitEnds(p, state)
    BY <2>1 DEF GateDuplicate
  <2>3. pc[p] = "gate" /\ UNCHANGED <<durable, authority, memory, locks, seen, batch, now, desk, image, faults>>
    BY <2>1 DEF GateDuplicate
  <2> QED
    BY <2>2, <2>3 DEF SubmitEnds
<1>17. CASE \E p \in Submitters : GateAllows(p)
    BY <1>17 DEF GateAllows
<1>18. CASE \E p \in Submitters : GateRaises(p)
    BY <1>18 DEF GateRaises, Fault
<1>19. CASE \E p \in Submitters : Checkpoints(p)
    BY <1>19 DEF Checkpoints
<1>20. CASE \E p \in Submitters : CheckpointExists(p)
    BY <1>20 DEF CheckpointExists, SubmitEnds
<1>21. CASE \E p \in Submitters : CheckpointFails(p)
    BY <1>21 DEF CheckpointFails, Fault, SubmitEnds
<1>22. CASE \E p \in Submitters : FenceRefuses(p)
    BY <1>22 DEF FenceRefuses
<1>23. CASE \E p \in Submitters : FenceChecks(p)
    BY <1>23 DEF FenceChecks
<1>24. CASE \E p \in Submitters : Posts(p)
    BY <1>24 DEF Posts
<1>25. CASE \E p \in Submitters : PostReturns(p)
    BY <1>25 DEF PostReturns
<1>26. CASE \E p \in Submitters : Settles(p)
    BY <1>26 DEF Settles
<1>27. CASE \E p \in Submitters : SettleFails(p)
    BY <1>27 DEF SettleFails, Fault, SubmitEnds
<1>28. CASE \E d \in Desks : \E k \in Keys : DeskAsks(d, k)
    BY <1>28 DEF DeskAsks
<1>29. CASE \E d \in Desks : DeskAnswered(d)
    BY <1>29 DEF DeskAnswered
<1>30. CASE \E t \in Controls : ControlAsked(t)
    BY <1>30 DEF ControlAsked
<1>31. CASE \E m \in Mutators : MutationBegins(m)
    BY <1>31 DEF MutationBegins, Publishes
<1>32. CASE \E m \in Mutators : MutationEnds(m)
    BY <1>32 DEF MutationEnds, Retires
<1>33. CASE \E s \in Stoppers : StopPublishes(s)
    BY <1>33 DEF StopPublishes, Publishes
<1>34. CASE \E s \in Stoppers : StopChangesMode(s)
    BY <1>34 DEF StopChangesMode
<1>35. CASE \E s \in Stoppers : StopEnds(s)
    BY <1>35 DEF StopEnds, Retires
<1>36. CASE EntriesReopen
    BY <1>36 DEF EntriesReopen
<1>37. CASE ReconcileReads
    BY <1>37 DEF ReconcileReads
<1>38. CASE ReconcileCloses
    BY <1>38 DEF ReconcileCloses
<1>39. CASE Crash
    BY <1>39 DEF Crash
<1>40. CASE UNCHANGED vars
    BY <1>40 DEF vars
<1> QED
    BY <1>1, <1>2, <1>3, <1>4, <1>5, <1>6, <1>7, <1>8, <1>9, <1>10,
       <1>11, <1>12, <1>13, <1>14, <1>15, <1>16, <1>17, <1>18, <1>19, <1>20,
       <1>21, <1>22, <1>23, <1>24, <1>25, <1>26, <1>27, <1>28, <1>29, <1>30,
       <1>31, <1>32, <1>33, <1>34, <1>35, <1>36, <1>37, <1>38, <1>39, <1>40
    DEF Next, CycleStep, DispatchStep, SubmitStep, ControlStep

\* A worker takes only its own commands into a batch, and drops none.
LEMMA BatchStep ==
    TypeOK /\ BatchHeld /\ [Next]_vars => BatchHeld'
<1> SUFFICES ASSUME TypeOK, BatchHeld, [Next]_vars PROVE BatchHeld'
    OBVIOUS
<1>a. /\ pc \in [Threads -> WorkerPlaces \cup ControlPlaces \cup {"closes"}]
     /\ batch \in [Workers -> Seq(Commands)] /\ now \in [Workers -> Commands \cup {NoCommand}]
     /\ desk \in [Desks -> Keys \cup {NoKey}]
    BY DEF TypeOK
<1>b. \A w \in Workers : pc[w] \in Batched =>
        /\ Tail(batch[w]) \in Seq(Commands)
        /\ \A i \in 1 .. Len(Tail(batch[w])) : HomeOf[Tail(batch[w])[i]] = w
        /\ Len(batch[w]) # 1 => Tail(batch[w]) # <<>>
    BY HeadHeld
<1>c. \A w \in Workers : pc[w] \in Batched =>
        Head(batch[w]) \in Commands /\ HomeOf[Head(batch[w])] = w
    BY HeadHeld
<1> USE <1>a, ThreadsDistinct DEF BatchHeld, Threads, Controls, Submitters, WorkerPlaces, DeskPlaces, ControlPlaces, Batched, Attempting, Claimed, durable, authority, memory, locks, local, Goes
<1>1. CASE \E w \in Workers : StartCycle(w)
    BY <1>1 DEF StartCycle
<1>2. CASE \E w \in Workers : \E c \in Commands : EnqueueReads(w, c)
    BY <1>2 DEF EnqueueReads
<1>3. CASE \E w \in Workers : EnqueueInserts(w)
    BY <1>3 DEF EnqueueInserts, ForgetsRead
<1>4. CASE \E w \in Workers : EnqueueFails(w)
    BY <1>4 DEF EnqueueFails, ForgetsRead, LeavesCycle, Fault
<1>5. CASE \E w \in Workers : CycleEnds(w)
    BY <1>5 DEF CycleEnds, LeavesCycle
<1>6. CASE \E w \in Workers : CycleFails(w)
    BY <1>6 DEF CycleFails, LeavesCycle, Fault
<1>7. CASE \E w \in Workers : AbortNext(w)
  <2>1. PICK w \in Workers : AbortNext(w)
    BY <1>7
  <2>2. pc[w] \in Batched
    BY <2>1 DEF AbortNext
  <2>3. batch' = [batch EXCEPT ![w] = Tail(@)] /\ now' \in {now, [now EXCEPT ![w] = NoCommand]}
    BY <2>1 DEF AbortNext, Closes, Closable, DropsHead, Fault
  <2>4. \A v \in Threads : v # w => pc'[v] = pc[v]
    BY <2>1 DEF AbortNext, Closes, Closable, DropsHead, Fault
  <2>5. desk' = desk /\ w \notin Desks
    BY <2>1 DEF AbortNext
  <2>6. pc'[w] \in {"idle", "abort", "queue"} /\ (pc'[w] # "idle" => Len(batch[w]) # 1)
    BY <2>1 DEF AbortNext, Closes, Closable, DropsHead, Fault
  <2>7. \A v \in Workers : pc'[v] \in Batched => batch'[v] # <<>>
    BY <2>2, <2>3, <2>4, <2>6, <1>b
  <2>8. \A v \in Workers : \A i \in 1 .. Len(batch'[v]) : HomeOf[batch'[v][i]] = v
    BY <2>2, <2>3, <1>b
  <2>9. \A v \in Workers : pc'[v] \in Attempting \cup {"insert"} =>
          v # w /\ pc'[v] = pc[v] /\ now'[v] = now[v]
    BY <2>3, <2>4, <2>6
  <2>10. \A d \in Desks : pc'[d] = pc[d] /\ desk'[d] = desk[d]
    BY <2>4, <2>5
  <2> QED
    BY <2>7, <2>8, <2>9, <2>10
<1>8. CASE \E w \in Workers : TakeAttempt(w)
    BY <1>8, <1>c DEF TakeAttempt
<1>9. CASE \E w \in Workers : Claims(w)
    BY <1>9 DEF Claims, Claimable
<1>10. CASE \E w \in Workers : ClaimRefused(w)
  <2>1. PICK w \in Workers : ClaimRefused(w)
    BY <1>10
  <2>2. pc[w] \in Batched
    BY <2>1 DEF ClaimRefused
  <2>3. batch' = [batch EXCEPT ![w] = Tail(@)] /\ now' \in {now, [now EXCEPT ![w] = NoCommand]}
    BY <2>1 DEF ClaimRefused, Claimable, LeavesAttempt, DropsHead
  <2>4. \A v \in Threads : v # w => pc'[v] = pc[v]
    BY <2>1 DEF ClaimRefused, Claimable, LeavesAttempt, DropsHead
  <2>5. desk' = desk /\ w \notin Desks
    BY <2>1 DEF ClaimRefused
  <2>6. pc'[w] \in {"idle", "abort", "queue"} /\ (pc'[w] # "idle" => Len(batch[w]) # 1)
    BY <2>1 DEF ClaimRefused, Claimable, LeavesAttempt, DropsHead
  <2>7. \A v \in Workers : pc'[v] \in Batched => batch'[v] # <<>>
    BY <2>2, <2>3, <2>4, <2>6, <1>b
  <2>8. \A v \in Workers : \A i \in 1 .. Len(batch'[v]) : HomeOf[batch'[v][i]] = v
    BY <2>2, <2>3, <1>b
  <2>9. \A v \in Workers : pc'[v] \in Attempting \cup {"insert"} =>
          v # w /\ pc'[v] = pc[v] /\ now'[v] = now[v]
    BY <2>3, <2>4, <2>6
  <2>10. \A d \in Desks : pc'[d] = pc[d] /\ desk'[d] = desk[d]
    BY <2>4, <2>5
  <2> QED
    BY <2>7, <2>8, <2>9, <2>10
<1>11. CASE \E w \in Workers : ClaimFails(w)
  <2>1. PICK w \in Workers : ClaimFails(w)
    BY <1>11
  <2>2. pc[w] \in Batched
    BY <2>1 DEF ClaimFails
  <2>3. batch' = [batch EXCEPT ![w] = Tail(@)] /\ now' \in {now, [now EXCEPT ![w] = NoCommand]}
    BY <2>1 DEF ClaimFails, Fault, LeavesAttempt, DropsHead
  <2>4. \A v \in Threads : v # w => pc'[v] = pc[v]
    BY <2>1 DEF ClaimFails, Fault, LeavesAttempt, DropsHead
  <2>5. desk' = desk /\ w \notin Desks
    BY <2>1 DEF ClaimFails
  <2>6. pc'[w] \in {"idle", "abort", "queue"} /\ (pc'[w] # "idle" => Len(batch[w]) # 1)
    BY <2>1 DEF ClaimFails, Fault, LeavesAttempt, DropsHead
  <2>7. \A v \in Workers : pc'[v] \in Batched => batch'[v] # <<>>
    BY <2>2, <2>3, <2>4, <2>6, <1>b
  <2>8. \A v \in Workers : \A i \in 1 .. Len(batch'[v]) : HomeOf[batch'[v][i]] = v
    BY <2>2, <2>3, <1>b
  <2>9. \A v \in Workers : pc'[v] \in Attempting \cup {"insert"} =>
          v # w /\ pc'[v] = pc[v] /\ now'[v] = now[v]
    BY <2>3, <2>4, <2>6
  <2>10. \A d \in Desks : pc'[d] = pc[d] /\ desk'[d] = desk[d]
    BY <2>4, <2>5
  <2> QED
    BY <2>7, <2>8, <2>9, <2>10
<1>12. CASE \E w \in Workers : Finishes(w)
  <2>1. PICK w \in Workers : Finishes(w)
    BY <1>12
  <2>2. pc[w] \in Batched
    BY <2>1 DEF Finishes
  <2>3. batch' = [batch EXCEPT ![w] = Tail(@)] /\ now' \in {now, [now EXCEPT ![w] = NoCommand]}
    BY <2>1 DEF Finishes, Closes, Closable, LeavesAttempt, DropsHead, StatusOf
  <2>4. \A v \in Threads : v # w => pc'[v] = pc[v]
    BY <2>1 DEF Finishes, Closes, Closable, LeavesAttempt, DropsHead, StatusOf
  <2>5. desk' = desk /\ w \notin Desks
    BY <2>1 DEF Finishes
  <2>6. pc'[w] \in {"idle", "abort", "queue"} /\ (pc'[w] # "idle" => Len(batch[w]) # 1)
    BY <2>1 DEF Finishes, Closes, Closable, LeavesAttempt, DropsHead, StatusOf
  <2>7. \A v \in Workers : pc'[v] \in Batched => batch'[v] # <<>>
    BY <2>2, <2>3, <2>4, <2>6, <1>b
  <2>8. \A v \in Workers : \A i \in 1 .. Len(batch'[v]) : HomeOf[batch'[v][i]] = v
    BY <2>2, <2>3, <1>b
  <2>9. \A v \in Workers : pc'[v] \in Attempting \cup {"insert"} =>
          v # w /\ pc'[v] = pc[v] /\ now'[v] = now[v]
    BY <2>3, <2>4, <2>6
  <2>10. \A d \in Desks : pc'[d] = pc[d] /\ desk'[d] = desk[d]
    BY <2>4, <2>5
  <2> QED
    BY <2>7, <2>8, <2>9, <2>10
<1>13. CASE \E w \in Workers : FinishRaises(w)
    BY <1>13 DEF FinishRaises, Fault
<1>14. CASE \E w \in Workers : RaiseCloses(w)
  <2>1. PICK w \in Workers : RaiseCloses(w)
    BY <1>14
  <2>2. pc[w] \in Batched
    BY <2>1 DEF RaiseCloses
  <2>3. batch' = [batch EXCEPT ![w] = Tail(@)] /\ now' \in {now, [now EXCEPT ![w] = NoCommand]}
    BY <2>1 DEF RaiseCloses, Closes, Closable, Fault, LeavesAttempt, DropsHead
  <2>4. \A v \in Threads : v # w => pc'[v] = pc[v]
    BY <2>1 DEF RaiseCloses, Closes, Closable, Fault, LeavesAttempt, DropsHead
  <2>5. desk' = desk /\ w \notin Desks
    BY <2>1 DEF RaiseCloses
  <2>6. pc'[w] \in {"idle", "abort", "queue"} /\ (pc'[w] # "idle" => Len(batch[w]) # 1)
    BY <2>1 DEF RaiseCloses, Closes, Closable, Fault, LeavesAttempt, DropsHead
  <2>7. \A v \in Workers : pc'[v] \in Batched => batch'[v] # <<>>
    BY <2>2, <2>3, <2>4, <2>6, <1>b
  <2>8. \A v \in Workers : \A i \in 1 .. Len(batch'[v]) : HomeOf[batch'[v][i]] = v
    BY <2>2, <2>3, <1>b
  <2>9. \A v \in Workers : pc'[v] \in Attempting \cup {"insert"} =>
          v # w /\ pc'[v] = pc[v] /\ now'[v] = now[v]
    BY <2>3, <2>4, <2>6
  <2>10. \A d \in Desks : pc'[d] = pc[d] /\ desk'[d] = desk[d]
    BY <2>4, <2>5
  <2> QED
    BY <2>7, <2>8, <2>9, <2>10
<1>15. CASE \E p \in Submitters : GateRefuses(p)
    BY <1>15 DEF GateRefuses, SubmitEnds
<1>16. CASE \E p \in Submitters : GateDuplicate(p)
  <2>1. PICK p \in Submitters : GateDuplicate(p)
    BY <1>16
  <2>2. PICK state \in {"risk_blocked", "unknown"} : SubmitEnds(p, state)
    BY <2>1 DEF GateDuplicate
  <2>3. pc[p] = "gate" /\ UNCHANGED <<durable, authority, memory, locks, seen, batch, now, desk, image, faults>>
    BY <2>1 DEF GateDuplicate
  <2> QED
    BY <2>2, <2>3 DEF SubmitEnds
<1>17. CASE \E p \in Submitters : GateAllows(p)
    BY <1>17 DEF GateAllows
<1>18. CASE \E p \in Submitters : GateRaises(p)
    BY <1>18 DEF GateRaises, Fault
<1>19. CASE \E p \in Submitters : Checkpoints(p)
    BY <1>19 DEF Checkpoints
<1>20. CASE \E p \in Submitters : CheckpointExists(p)
    BY <1>20 DEF CheckpointExists, SubmitEnds
<1>21. CASE \E p \in Submitters : CheckpointFails(p)
    BY <1>21 DEF CheckpointFails, Fault, SubmitEnds
<1>22. CASE \E p \in Submitters : FenceRefuses(p)
    BY <1>22 DEF FenceRefuses
<1>23. CASE \E p \in Submitters : FenceChecks(p)
    BY <1>23 DEF FenceChecks
<1>24. CASE \E p \in Submitters : Posts(p)
    BY <1>24 DEF Posts
<1>25. CASE \E p \in Submitters : PostReturns(p)
    BY <1>25 DEF PostReturns
<1>26. CASE \E p \in Submitters : Settles(p)
    BY <1>26 DEF Settles
<1>27. CASE \E p \in Submitters : SettleFails(p)
    BY <1>27 DEF SettleFails, Fault, SubmitEnds
<1>28. CASE \E d \in Desks : \E k \in Keys : DeskAsks(d, k)
  <2>1. PICK d \in Desks, k \in Keys : DeskAsks(d, k)
    BY <1>28
  <2>2. desk' = [desk EXCEPT ![d] = k] /\ UNCHANGED <<batch, now>>
    BY <2>1 DEF DeskAsks
  <2>3. \A t \in Threads : t # d => pc'[t] = pc[t]
    BY <2>1 DEF DeskAsks
  <2>4. \A w \in Workers : pc'[w] = pc[w]
    BY <2>3
  <2>5. \A e \in Desks : pc'[e] \in Claimed => desk'[e] \in Keys
    BY <2>2, <2>3
  <2> QED
    BY <2>2, <2>4, <2>5
<1>29. CASE \E d \in Desks : DeskAnswered(d)
    BY <1>29 DEF DeskAnswered
<1>30. CASE \E t \in Controls : ControlAsked(t)
    BY <1>30 DEF ControlAsked
<1>31. CASE \E m \in Mutators : MutationBegins(m)
    BY <1>31 DEF MutationBegins, Publishes
<1>32. CASE \E m \in Mutators : MutationEnds(m)
    BY <1>32 DEF MutationEnds, Retires
<1>33. CASE \E s \in Stoppers : StopPublishes(s)
    BY <1>33 DEF StopPublishes, Publishes
<1>34. CASE \E s \in Stoppers : StopChangesMode(s)
    BY <1>34 DEF StopChangesMode
<1>35. CASE \E s \in Stoppers : StopEnds(s)
    BY <1>35 DEF StopEnds, Retires
<1>36. CASE EntriesReopen
    BY <1>36 DEF EntriesReopen
<1>37. CASE ReconcileReads
    BY <1>37 DEF ReconcileReads
<1>38. CASE ReconcileCloses
    BY <1>38 DEF ReconcileCloses
<1>39. CASE Crash
    BY <1>39 DEF Crash
<1>40. CASE UNCHANGED vars
    BY <1>40 DEF vars
<1> QED
    BY <1>1, <1>2, <1>3, <1>4, <1>5, <1>6, <1>7, <1>8, <1>9, <1>10,
       <1>11, <1>12, <1>13, <1>14, <1>15, <1>16, <1>17, <1>18, <1>19, <1>20,
       <1>21, <1>22, <1>23, <1>24, <1>25, <1>26, <1>27, <1>28, <1>29, <1>30,
       <1>31, <1>32, <1>33, <1>34, <1>35, <1>36, <1>37, <1>38, <1>39, <1>40
    DEF Next, CycleStep, DispatchStep, SubmitStep, ControlStep

\* A worker handles a row only while the row says it is claimed.
LEMMA ClaimStep ==
    TypeOK /\ LocksHeld /\ BatchHeld /\ ClaimHeld /\ [Next]_vars => ClaimHeld'
<1> SUFFICES ASSUME TypeOK, LocksHeld, BatchHeld, ClaimHeld, [Next]_vars PROVE ClaimHeld'
    OBVIOUS
<1>a. /\ pc \in [Threads -> WorkerPlaces \cup ControlPlaces \cup {"closes"}]
     /\ rows \in [Commands -> [state : RowStates, owner : Nat, epoch : Nat]]
     /\ now \in [Workers -> Commands \cup {NoCommand}] /\ life \in Nat
    BY DEF TypeOK
<1>b. \A v, w \in Workers : pc[v] \in Attempting /\ pc[w] \in Attempting => v = w
    BY ThreadsDistinct DEF LocksHeld
<1>c. \A w \in Workers : pc[w] \in Attempting \cup {"insert"} =>
        now[w] \in Commands /\ HomeOf[now[w]] = w
    BY NowHeld
<1>d. \A w \in Workers : pc[w] \in Batched =>
        Head(batch[w]) \in Commands /\ HomeOf[Head(batch[w])] = w
    BY HeadHeld
<1> USE <1>a, ThreadsDistinct DEF ClaimHeld, Unresolved, Uncertain, Threads, Controls, Submitters, WorkerPlaces, DeskPlaces, ControlPlaces, Batched, Attempting, Claimed, durable, authority, memory, locks, local, Goes
<1>1. CASE \E w \in Workers : StartCycle(w)
    BY <1>1, <1>b, <1>c DEF StartCycle
<1>2. CASE \E w \in Workers : \E c \in Commands : EnqueueReads(w, c)
    BY <1>2, <1>b, <1>c DEF EnqueueReads
<1>3. CASE \E w \in Workers : EnqueueInserts(w)
    BY <1>3, <1>b, <1>c DEF EnqueueInserts, ForgetsRead, Absent
<1>4. CASE \E w \in Workers : EnqueueFails(w)
    BY <1>4, <1>b, <1>c DEF EnqueueFails, ForgetsRead, LeavesCycle, Fault
<1>5. CASE \E w \in Workers : CycleEnds(w)
    BY <1>5, <1>b, <1>c DEF CycleEnds, LeavesCycle
<1>6. CASE \E w \in Workers : CycleFails(w)
    BY <1>6, <1>b, <1>c DEF CycleFails, LeavesCycle, Fault
<1>7. CASE \E w \in Workers : AbortNext(w)
  <2>1. PICK w \in Workers : AbortNext(w)
    BY <1>7
  <2>2. \A c \in Commands : HomeOf[c] # w => rows'[c] = rows[c]
    BY <2>1, <1>d DEF AbortNext, Closes
  <2>3. \A v \in Workers : pc'[v] \in Claimed => v # w /\ pc[v] \in Claimed
    BY <2>1 DEF AbortNext, DropsHead
  <2>4. now' = now /\ life' = life
    BY <2>1 DEF AbortNext
  <2> QED
    BY <2>2, <2>3, <2>4, <1>c
<1>8. CASE \E w \in Workers : TakeAttempt(w)
    BY <1>8, <1>b, <1>c DEF TakeAttempt
<1>9. CASE \E w \in Workers : Claims(w)
    BY <1>9, <1>b, <1>c DEF Claims, Claimable, Current
<1>10. CASE \E w \in Workers : ClaimRefused(w)
    BY <1>10, <1>b, <1>c DEF ClaimRefused, Claimable, LeavesAttempt, DropsHead
<1>11. CASE \E w \in Workers : ClaimFails(w)
    BY <1>11, <1>b, <1>c DEF ClaimFails, Fault, LeavesAttempt, DropsHead
<1>12. CASE \E w \in Workers : Finishes(w)
    BY <1>12, <1>b, <1>c DEF Finishes, Closes, Closable, LeavesAttempt, DropsHead, StatusOf
<1>13. CASE \E w \in Workers : FinishRaises(w)
    BY <1>13, <1>b, <1>c DEF FinishRaises, Fault
<1>14. CASE \E w \in Workers : RaiseCloses(w)
    BY <1>14, <1>b, <1>c DEF RaiseCloses, Closes, Closable, Fault, LeavesAttempt, DropsHead
<1>15. CASE \E p \in Submitters : GateRefuses(p)
    BY <1>15, <1>b, <1>c DEF GateRefuses, SubmitEnds
<1>16. CASE \E p \in Submitters : GateDuplicate(p)
    BY <1>16, <1>b, <1>c DEF GateDuplicate, SubmitEnds
<1>17. CASE \E p \in Submitters : GateAllows(p)
    BY <1>17, <1>b, <1>c DEF GateAllows
<1>18. CASE \E p \in Submitters : GateRaises(p)
    BY <1>18, <1>b, <1>c DEF GateRaises, Fault
<1>19. CASE \E p \in Submitters : Checkpoints(p)
    BY <1>19, <1>b, <1>c DEF Checkpoints
<1>20. CASE \E p \in Submitters : CheckpointExists(p)
    BY <1>20, <1>b, <1>c DEF CheckpointExists, SubmitEnds
<1>21. CASE \E p \in Submitters : CheckpointFails(p)
    BY <1>21, <1>b, <1>c DEF CheckpointFails, Fault, SubmitEnds
<1>22. CASE \E p \in Submitters : FenceRefuses(p)
    BY <1>22, <1>b, <1>c DEF FenceRefuses
<1>23. CASE \E p \in Submitters : FenceChecks(p)
    BY <1>23, <1>b, <1>c DEF FenceChecks
<1>24. CASE \E p \in Submitters : Posts(p)
    BY <1>24, <1>b, <1>c DEF Posts
<1>25. CASE \E p \in Submitters : PostReturns(p)
    BY <1>25, <1>b, <1>c DEF PostReturns
<1>26. CASE \E p \in Submitters : Settles(p)
    BY <1>26, <1>b, <1>c DEF Settles
<1>27. CASE \E p \in Submitters : SettleFails(p)
    BY <1>27, <1>b, <1>c DEF SettleFails, Fault, SubmitEnds
<1>28. CASE \E d \in Desks : \E k \in Keys : DeskAsks(d, k)
    BY <1>28, <1>b, <1>c DEF DeskAsks
<1>29. CASE \E d \in Desks : DeskAnswered(d)
    BY <1>29, <1>b, <1>c DEF DeskAnswered
<1>30. CASE \E t \in Controls : ControlAsked(t)
    BY <1>30, <1>b, <1>c DEF ControlAsked
<1>31. CASE \E m \in Mutators : MutationBegins(m)
    BY <1>31, <1>b, <1>c DEF MutationBegins, Publishes
<1>32. CASE \E m \in Mutators : MutationEnds(m)
    BY <1>32, <1>b, <1>c DEF MutationEnds, Retires
<1>33. CASE \E s \in Stoppers : StopPublishes(s)
    BY <1>33, <1>b, <1>c DEF StopPublishes, Publishes
<1>34. CASE \E s \in Stoppers : StopChangesMode(s)
    BY <1>34, <1>b, <1>c DEF StopChangesMode
<1>35. CASE \E s \in Stoppers : StopEnds(s)
    BY <1>35, <1>b, <1>c DEF StopEnds, Retires
<1>36. CASE EntriesReopen
    BY <1>36, <1>b, <1>c DEF EntriesReopen
<1>37. CASE ReconcileReads
    BY <1>37, <1>b, <1>c DEF ReconcileReads
<1>38. CASE ReconcileCloses
    BY <1>38, <1>b, <1>c DEF ReconcileCloses
<1>39. CASE Crash
    BY <1>39, <1>b, <1>c DEF Crash
<1>40. CASE UNCHANGED vars
    BY <1>40 DEF vars
<1> QED
    BY <1>1, <1>2, <1>3, <1>4, <1>5, <1>6, <1>7, <1>8, <1>9, <1>10,
       <1>11, <1>12, <1>13, <1>14, <1>15, <1>16, <1>17, <1>18, <1>19, <1>20,
       <1>21, <1>22, <1>23, <1>24, <1>25, <1>26, <1>27, <1>28, <1>29, <1>30,
       <1>31, <1>32, <1>33, <1>34, <1>35, <1>36, <1>37, <1>38, <1>39, <1>40
    DEF Next, CycleStep, DispatchStep, SubmitStep, ControlStep

\* A reservation stays with one submitter, with nothing sent for it yet.
LEMMA ReservationStep ==
    TypeOK /\ BatchHeld /\ LocksHeld /\ ReservationHeld /\ [Next]_vars => ReservationHeld'
<1> SUFFICES ASSUME TypeOK, BatchHeld, LocksHeld, ReservationHeld, [Next]_vars PROVE ReservationHeld'
    OBVIOUS
<1>a. /\ pc \in [Threads -> WorkerPlaces \cup ControlPlaces \cup {"closes"}]
     /\ ledger \in [Keys -> [state : OrderStates, seal : Commands \cup {NoCommand}]]
     /\ posted \in [Keys -> Nat]
     /\ now \in [Workers -> Commands \cup {NoCommand}]
     /\ desk \in [Desks -> Keys \cup {NoKey}]
     /\ result \in [Submitters -> {"none"} \cup Outcomes]
    BY DEF TypeOK
<1>c. \A p \in Submitters : pc[p] \in Claimed => KeyNow(p) \in Keys
    BY KeyHeld
<1> USE <1>a, ThreadsDistinct DEF ReservationHeld, Reserving, Outcomes, Threads, Controls, Submitters, WorkerPlaces, DeskPlaces, ControlPlaces, Batched, Attempting, Claimed, durable, authority, memory, locks, local, Goes
<1>1. CASE \E w \in Workers : StartCycle(w)
    BY <1>1, <1>c DEF StartCycle, KeyNow, SealNow
<1>2. CASE \E w \in Workers : \E c \in Commands : EnqueueReads(w, c)
  <2>1. PICK w \in Workers : \E c \in Commands : EnqueueReads(w, c)
    BY <1>2
  <2>2. \A q \in Submitters : q # w =>
          KeyNow(q)' = KeyNow(q) /\ SealNow(q)' = SealNow(q) /\ pc'[q] = pc[q] /\ result'[q] = result[q]
    BY <2>1 DEF EnqueueReads, KeyNow, SealNow
  <2>3. pc'[w] \notin Reserving /\ w \in Submitters
    BY <2>1 DEF EnqueueReads, KeyNow, SealNow
  <2>4. UNCHANGED <<ledger, posted>>
    BY <2>1 DEF EnqueueReads
  <2> QED
    BY <2>2, <2>3, <2>4
<1>3. CASE \E w \in Workers : EnqueueInserts(w)
  <2>1. PICK w \in Workers : EnqueueInserts(w)
    BY <1>3
  <2>2. \A q \in Submitters : q # w =>
          KeyNow(q)' = KeyNow(q) /\ SealNow(q)' = SealNow(q) /\ pc'[q] = pc[q] /\ result'[q] = result[q]
    BY <2>1 DEF EnqueueInserts, ForgetsRead, KeyNow, SealNow
  <2>3. pc'[w] \notin Reserving /\ w \in Submitters
    BY <2>1 DEF EnqueueInserts, ForgetsRead, KeyNow, SealNow
  <2>4. UNCHANGED <<ledger, posted>>
    BY <2>1 DEF EnqueueInserts
  <2> QED
    BY <2>2, <2>3, <2>4
<1>4. CASE \E w \in Workers : EnqueueFails(w)
  <2>1. PICK w \in Workers : EnqueueFails(w)
    BY <1>4
  <2>2. \A q \in Submitters : q # w =>
          KeyNow(q)' = KeyNow(q) /\ SealNow(q)' = SealNow(q) /\ pc'[q] = pc[q] /\ result'[q] = result[q]
    BY <2>1 DEF EnqueueFails, ForgetsRead, LeavesCycle, Fault, KeyNow, SealNow
  <2>3. pc'[w] \notin Reserving /\ w \in Submitters
    BY <2>1 DEF EnqueueFails, ForgetsRead, LeavesCycle, Fault, KeyNow, SealNow
  <2>4. UNCHANGED <<ledger, posted>>
    BY <2>1 DEF EnqueueFails
  <2> QED
    BY <2>2, <2>3, <2>4
<1>5. CASE \E w \in Workers : CycleEnds(w)
    BY <1>5, <1>c DEF CycleEnds, LeavesCycle, KeyNow, SealNow
<1>6. CASE \E w \in Workers : CycleFails(w)
    BY <1>6, <1>c DEF CycleFails, LeavesCycle, Fault, KeyNow, SealNow
<1>7. CASE \E w \in Workers : AbortNext(w)
    BY <1>7, <1>c DEF AbortNext, Closes, Closable, DropsHead, Fault, KeyNow, SealNow
<1>8. CASE \E w \in Workers : TakeAttempt(w)
  <2>1. PICK w \in Workers : TakeAttempt(w)
    BY <1>8
  <2>2. \A q \in Submitters : q # w =>
          KeyNow(q)' = KeyNow(q) /\ SealNow(q)' = SealNow(q) /\ pc'[q] = pc[q] /\ result'[q] = result[q]
    BY <2>1 DEF TakeAttempt, KeyNow, SealNow
  <2>3. pc'[w] \notin Reserving /\ w \in Submitters
    BY <2>1 DEF TakeAttempt, KeyNow, SealNow
  <2>4. UNCHANGED <<ledger, posted>>
    BY <2>1 DEF TakeAttempt
  <2> QED
    BY <2>2, <2>3, <2>4
<1>9. CASE \E w \in Workers : Claims(w)
    BY <1>9, <1>c DEF Claims, Claimable, KeyNow, SealNow
<1>10. CASE \E w \in Workers : ClaimRefused(w)
  <2>1. PICK w \in Workers : ClaimRefused(w)
    BY <1>10
  <2>2. \A q \in Submitters : q # w =>
          KeyNow(q)' = KeyNow(q) /\ SealNow(q)' = SealNow(q) /\ pc'[q] = pc[q] /\ result'[q] = result[q]
    BY <2>1 DEF ClaimRefused, Claimable, LeavesAttempt, DropsHead, KeyNow, SealNow
  <2>3. pc'[w] \notin Reserving /\ w \in Submitters
    BY <2>1 DEF ClaimRefused, Claimable, LeavesAttempt, DropsHead, KeyNow, SealNow
  <2>4. UNCHANGED <<ledger, posted>>
    BY <2>1 DEF ClaimRefused
  <2> QED
    BY <2>2, <2>3, <2>4
<1>11. CASE \E w \in Workers : ClaimFails(w)
  <2>1. PICK w \in Workers : ClaimFails(w)
    BY <1>11
  <2>2. \A q \in Submitters : q # w =>
          KeyNow(q)' = KeyNow(q) /\ SealNow(q)' = SealNow(q) /\ pc'[q] = pc[q] /\ result'[q] = result[q]
    BY <2>1 DEF ClaimFails, Fault, LeavesAttempt, DropsHead, KeyNow, SealNow
  <2>3. pc'[w] \notin Reserving /\ w \in Submitters
    BY <2>1 DEF ClaimFails, Fault, LeavesAttempt, DropsHead, KeyNow, SealNow
  <2>4. UNCHANGED <<ledger, posted>>
    BY <2>1 DEF ClaimFails
  <2> QED
    BY <2>2, <2>3, <2>4
<1>12. CASE \E w \in Workers : Finishes(w)
  <2>1. PICK w \in Workers : Finishes(w)
    BY <1>12
  <2>2. \A q \in Submitters : q # w =>
          KeyNow(q)' = KeyNow(q) /\ SealNow(q)' = SealNow(q) /\ pc'[q] = pc[q] /\ result'[q] = result[q]
    BY <2>1 DEF Finishes, Closes, Closable, LeavesAttempt, DropsHead, StatusOf, KeyNow, SealNow
  <2>3. pc'[w] \notin Reserving /\ w \in Submitters
    BY <2>1 DEF Finishes, Closes, Closable, LeavesAttempt, DropsHead, StatusOf, KeyNow, SealNow
  <2>4. UNCHANGED <<ledger, posted>>
    BY <2>1 DEF Finishes
  <2> QED
    BY <2>2, <2>3, <2>4
<1>13. CASE \E w \in Workers : FinishRaises(w)
    BY <1>13, <1>c DEF FinishRaises, Fault, KeyNow, SealNow
<1>14. CASE \E w \in Workers : RaiseCloses(w)
  <2>1. PICK w \in Workers : RaiseCloses(w)
    BY <1>14
  <2>2. \A q \in Submitters : q # w =>
          KeyNow(q)' = KeyNow(q) /\ SealNow(q)' = SealNow(q) /\ pc'[q] = pc[q] /\ result'[q] = result[q]
    BY <2>1 DEF RaiseCloses, Closes, Closable, Fault, LeavesAttempt, DropsHead, KeyNow, SealNow
  <2>3. pc'[w] \notin Reserving /\ w \in Submitters
    BY <2>1 DEF RaiseCloses, Closes, Closable, Fault, LeavesAttempt, DropsHead, KeyNow, SealNow
  <2>4. UNCHANGED <<ledger, posted>>
    BY <2>1 DEF RaiseCloses
  <2> QED
    BY <2>2, <2>3, <2>4
<1>15. CASE \E p \in Submitters : GateRefuses(p)
  <2>1. PICK p \in Submitters : GateRefuses(p)
    BY <1>15
  <2>2. \A q \in Submitters : KeyNow(q)' = KeyNow(q) /\ SealNow(q)' = SealNow(q)
    BY <2>1 DEF GateRefuses, KeyNow, SealNow
  <2>3. \A q \in Submitters : q # p => pc'[q] = pc[q] /\ result'[q] = result[q]
    BY <2>1 DEF GateRefuses, SubmitEnds
  <2> QED
    BY <2>1, <2>2, <2>3, <1>c DEF GateRefuses, SubmitEnds
<1>16. CASE \E p \in Submitters : GateDuplicate(p)
  <2>1. PICK p \in Submitters : GateDuplicate(p)
    BY <1>16
  <2>2. \A q \in Submitters : KeyNow(q)' = KeyNow(q) /\ SealNow(q)' = SealNow(q)
    BY <2>1 DEF GateDuplicate, KeyNow, SealNow
  <2>3. \A q \in Submitters : q # p => pc'[q] = pc[q] /\ result'[q] = result[q]
    BY <2>1 DEF GateDuplicate, SubmitEnds
  <2> QED
    BY <2>1, <2>2, <2>3, <1>c DEF GateDuplicate, SubmitEnds
<1>17. CASE \E p \in Submitters : GateAllows(p)
  <2>1. PICK p \in Submitters : GateAllows(p)
    BY <1>17
  <2>2. \A q \in Submitters : KeyNow(q)' = KeyNow(q) /\ SealNow(q)' = SealNow(q)
    BY <2>1 DEF GateAllows, KeyNow, SealNow
  <2>3. \A q \in Submitters : q # p => pc'[q] = pc[q] /\ result'[q] = result[q]
    BY <2>1 DEF GateAllows
  <2> QED
    BY <2>1, <2>2, <2>3, <1>c DEF GateAllows
<1>18. CASE \E p \in Submitters : GateRaises(p)
  <2>1. PICK p \in Submitters : GateRaises(p)
    BY <1>18
  <2>2. \A q \in Submitters : KeyNow(q)' = KeyNow(q) /\ SealNow(q)' = SealNow(q)
    BY <2>1 DEF GateRaises, KeyNow, SealNow
  <2>3. \A q \in Submitters : q # p => pc'[q] = pc[q] /\ result'[q] = result[q]
    BY <2>1 DEF GateRaises, Fault
  <2> QED
    BY <2>1, <2>2, <2>3, <1>c DEF GateRaises, Fault
<1>19. CASE \E p \in Submitters : Checkpoints(p)
  <2>1. PICK p \in Submitters : Checkpoints(p)
    BY <1>19
  <2>2. \A q \in Submitters : KeyNow(q)' = KeyNow(q) /\ SealNow(q)' = SealNow(q)
    BY <2>1 DEF Checkpoints, KeyNow, SealNow
  <2>3. \A q \in Submitters : q # p => pc'[q] = pc[q] /\ result'[q] = result[q]
    BY <2>1 DEF Checkpoints
  <2>4. KeyNow(p) \in Keys /\ ledger[KeyNow(p)].state = "absent" /\ posted[KeyNow(p)] = 0
    BY <2>1, <1>c DEF Checkpoints
  <2>5. /\ ledger'[KeyNow(p)] = [state |-> "dispatch_pending", seal |-> SealNow(p)]
        /\ \A k \in Keys : k # KeyNow(p) => ledger'[k] = ledger[k]
    BY <2>1, <2>4 DEF Checkpoints
  <2>6. \A q \in Submitters : q # p /\ pc[q] \in Reserving => KeyNow(q) # KeyNow(p)
    BY <2>4
  <2>7. posted' = posted /\ pc'[p] = "fence"
    BY <2>1 DEF Checkpoints
  <2> QED
    BY <2>1, <2>2, <2>3, <2>4, <2>5, <2>6, <2>7, <1>c DEF Checkpoints
<1>20. CASE \E p \in Submitters : CheckpointExists(p)
  <2>1. PICK p \in Submitters : CheckpointExists(p)
    BY <1>20
  <2>2. \A q \in Submitters : KeyNow(q)' = KeyNow(q) /\ SealNow(q)' = SealNow(q)
    BY <2>1 DEF CheckpointExists, KeyNow, SealNow
  <2>3. \A q \in Submitters : q # p => pc'[q] = pc[q] /\ result'[q] = result[q]
    BY <2>1 DEF CheckpointExists, SubmitEnds
  <2> QED
    BY <2>1, <2>2, <2>3, <1>c DEF CheckpointExists, SubmitEnds
<1>21. CASE \E p \in Submitters : CheckpointFails(p)
  <2>1. PICK p \in Submitters : CheckpointFails(p)
    BY <1>21
  <2>2. \A q \in Submitters : KeyNow(q)' = KeyNow(q) /\ SealNow(q)' = SealNow(q)
    BY <2>1 DEF CheckpointFails, KeyNow, SealNow
  <2>3. \A q \in Submitters : q # p => pc'[q] = pc[q] /\ result'[q] = result[q]
    BY <2>1 DEF CheckpointFails, Fault, SubmitEnds
  <2> QED
    BY <2>1, <2>2, <2>3, <1>c DEF CheckpointFails, Fault, SubmitEnds
<1>22. CASE \E p \in Submitters : FenceRefuses(p)
  <2>1. PICK p \in Submitters : FenceRefuses(p)
    BY <1>22
  <2>2. \A q \in Submitters : KeyNow(q)' = KeyNow(q) /\ SealNow(q)' = SealNow(q)
    BY <2>1 DEF FenceRefuses, KeyNow, SealNow
  <2>3. \A q \in Submitters : q # p => pc'[q] = pc[q] /\ result'[q] = result[q]
    BY <2>1 DEF FenceRefuses
  <2> QED
    BY <2>1, <2>2, <2>3, <1>c DEF FenceRefuses
<1>23. CASE \E p \in Submitters : FenceChecks(p)
  <2>1. PICK p \in Submitters : FenceChecks(p)
    BY <1>23
  <2>2. \A q \in Submitters : KeyNow(q)' = KeyNow(q) /\ SealNow(q)' = SealNow(q)
    BY <2>1 DEF FenceChecks, KeyNow, SealNow
  <2>3. \A q \in Submitters : q # p => pc'[q] = pc[q] /\ result'[q] = result[q]
    BY <2>1 DEF FenceChecks
  <2> QED
    BY <2>1, <2>2, <2>3, <1>c DEF FenceChecks
<1>24. CASE \E p \in Submitters : Posts(p)
  <2>1. PICK p \in Submitters : Posts(p)
    BY <1>24
  <2>2. \A q \in Submitters : KeyNow(q)' = KeyNow(q) /\ SealNow(q)' = SealNow(q)
    BY <2>1 DEF Posts, KeyNow, SealNow
  <2>3. \A q \in Submitters : q # p => pc'[q] = pc[q] /\ result'[q] = result[q]
    BY <2>1 DEF Posts
  <2>4. KeyNow(p) \in Keys /\ ledger[KeyNow(p)].state = "dispatch_pending"
    <3>1. pc[p] = "armed"
        BY <2>1 DEF Posts
    <3>2. ledger[KeyNow(p)] = [state |-> "dispatch_pending", seal |-> SealNow(p)]
        BY <3>1
    <3> QED
        BY <1>c, <3>1, <3>2
  <2>5. \A k \in Keys : ledger[k].state = "absent" => posted'[k] = posted[k]
    BY <2>1, <2>4 DEF Posts
  <2>6. \A q \in Submitters : q # p /\ pc[q] \in Reserving => KeyNow(q) # KeyNow(p)
    BY <2>1 DEF Posts
  <2>7. \A q \in Submitters : q # p /\ pc[q] \in {"fence", "armed"} =>
            posted'[KeyNow(q)] = posted[KeyNow(q)]
    <3> SUFFICES ASSUME NEW q \in Submitters, q # p, pc[q] \in {"fence", "armed"}
                 PROVE  posted'[KeyNow(q)] = posted[KeyNow(q)]
        OBVIOUS
    <3>1. KeyNow(q) # KeyNow(p)
        BY <2>6
    <3>2. KeyNow(q) \in Keys
        BY <1>c
    <3>3. posted' = [posted EXCEPT ![KeyNow(p)] = @ + 1] /\ posted \in [Keys -> Nat]
        BY <2>1 DEF Posts
    <3>4. \A a, b \in Keys : a # b => [posted EXCEPT ![b] = @ + 1][a] = posted[a]
        BY <3>3
    <3> QED
        BY <2>4, <3>1, <3>2, <3>3, <3>4
  <2>8. ledger' = ledger /\ pc'[p] = "post"
    BY <2>1 DEF Posts
  <2> QED
    BY <2>1, <2>2, <2>3, <2>5, <2>7, <2>8 DEF Posts
<1>25. CASE \E p \in Submitters : PostReturns(p)
  <2>1. PICK p \in Submitters : PostReturns(p)
    BY <1>25
  <2>2. \A q \in Submitters : KeyNow(q)' = KeyNow(q) /\ SealNow(q)' = SealNow(q)
    BY <2>1 DEF PostReturns, KeyNow, SealNow
  <2>3. \A q \in Submitters : q # p => pc'[q] = pc[q] /\ result'[q] = result[q]
    BY <2>1 DEF PostReturns
  <2> QED
    BY <2>1, <2>2, <2>3, <1>c DEF PostReturns
<1>26. CASE \E p \in Submitters : Settles(p)
  <2>1. PICK p \in Submitters : Settles(p)
    BY <1>26
  <2>2. \A q \in Submitters : KeyNow(q)' = KeyNow(q) /\ SealNow(q)' = SealNow(q)
    BY <2>1 DEF Settles, KeyNow, SealNow
  <2>3. \A q \in Submitters : q # p => pc'[q] = pc[q] /\ result'[q] = result[q]
    BY <2>1 DEF Settles
  <2>4. KeyNow(p) \in Keys /\ result[p] \in Outcomes /\ ledger[KeyNow(p)].state # "absent"
    BY <2>1, <1>c DEF Settles
  <2>5. /\ ledger'[KeyNow(p)].state # "absent"
        /\ \A k \in Keys : k # KeyNow(p) => ledger'[k] = ledger[k]
    BY <2>1, <2>4 DEF Settles
  <2>6. \A q \in Submitters : q # p /\ pc[q] \in Reserving => KeyNow(q) # KeyNow(p)
    BY <2>1 DEF Settles
  <2>7. posted' = posted /\ pc'[p] = "finish"
    BY <2>1 DEF Settles
  <2> QED
    BY <2>1, <2>2, <2>3, <2>4, <2>5, <2>6, <2>7, <1>c
<1>27. CASE \E p \in Submitters : SettleFails(p)
  <2>1. PICK p \in Submitters : SettleFails(p)
    BY <1>27
  <2>2. \A q \in Submitters : KeyNow(q)' = KeyNow(q) /\ SealNow(q)' = SealNow(q)
    BY <2>1 DEF SettleFails, KeyNow, SealNow
  <2>3. \A q \in Submitters : q # p => pc'[q] = pc[q] /\ result'[q] = result[q]
    BY <2>1 DEF SettleFails, Fault, SubmitEnds
  <2> QED
    BY <2>1, <2>2, <2>3, <1>c DEF SettleFails, Fault, SubmitEnds
<1>28. CASE \E d \in Desks : \E k \in Keys : DeskAsks(d, k)
    BY <1>28, <1>c DEF DeskAsks, KeyNow, SealNow
<1>29. CASE \E d \in Desks : DeskAnswered(d)
    BY <1>29, <1>c DEF DeskAnswered, KeyNow, SealNow
<1>30. CASE \E t \in Controls : ControlAsked(t)
    BY <1>30, <1>c DEF ControlAsked, KeyNow, SealNow
<1>31. CASE \E m \in Mutators : MutationBegins(m)
    BY <1>31, <1>c DEF MutationBegins, Publishes, KeyNow, SealNow
<1>32. CASE \E m \in Mutators : MutationEnds(m)
    BY <1>32, <1>c DEF MutationEnds, Retires, KeyNow, SealNow
<1>33. CASE \E s \in Stoppers : StopPublishes(s)
    BY <1>33, <1>c DEF StopPublishes, Publishes, KeyNow, SealNow
<1>34. CASE \E s \in Stoppers : StopChangesMode(s)
    BY <1>34, <1>c DEF StopChangesMode, KeyNow, SealNow
<1>35. CASE \E s \in Stoppers : StopEnds(s)
    BY <1>35, <1>c DEF StopEnds, Retires, KeyNow, SealNow
<1>36. CASE EntriesReopen
    BY <1>36, <1>c DEF EntriesReopen, KeyNow, SealNow
<1>37. CASE ReconcileReads
    BY <1>37, <1>c DEF ReconcileReads, KeyNow, SealNow
<1>38. CASE ReconcileCloses
    BY <1>38, <1>c DEF ReconcileCloses, KeyNow, SealNow
<1>39. CASE Crash
    BY <1>39, <1>c DEF Crash, KeyNow, SealNow
<1>40. CASE UNCHANGED vars
    BY <1>40 DEF vars, KeyNow, SealNow
<1> QED
    BY <1>1, <1>2, <1>3, <1>4, <1>5, <1>6, <1>7, <1>8, <1>9, <1>10,
       <1>11, <1>12, <1>13, <1>14, <1>15, <1>16, <1>17, <1>18, <1>19, <1>20,
       <1>21, <1>22, <1>23, <1>24, <1>25, <1>26, <1>27, <1>28, <1>29, <1>30,
       <1>31, <1>32, <1>33, <1>34, <1>35, <1>36, <1>37, <1>38, <1>39, <1>40
    DEF Next, CycleStep, DispatchStep, SubmitStep, ControlStep

\* No send starts under controls other than those it was decided under.
LEMMA FencedStep ==
    TypeOK /\ LocksHeld /\ BatchHeld /\ ClaimHeld /\ FencedSend /\ [Next]_vars => FencedSend'
<1> SUFFICES ASSUME TypeOK, LocksHeld, BatchHeld, ClaimHeld, FencedSend, [Next]_vars PROVE FencedSend'
    OBVIOUS
<1>a. /\ pc \in [Threads -> WorkerPlaces \cup ControlPlaces \cup {"closes"}]
     /\ rows \in [Commands -> [state : RowStates, owner : Nat, epoch : Nat]]
     /\ now \in [Workers -> Commands \cup {NoCommand}]
    BY DEF TypeOK
<1>b. \A v, w \in Workers : pc[v] \in Attempting /\ pc[w] \in Attempting => v = w
    BY ThreadsDistinct DEF LocksHeld
<1>c. \A w \in Workers : pc[w] \in Attempting \cup {"insert"} => now[w] \in Commands
    BY NowHeld
<1>e. \A w \in Workers : pc[w] \in Sending => safety = w
    BY DEF LocksHeld, Submitters
<1>f. \A w \in Workers : pc[w] \in Claimed =>
        rows[now[w]].state = "DISPATCHING" /\ rows[now[w]].owner = life
    BY DEF ClaimHeld
<1>g. \A m \in Mutators : pc[m] = "changes" => safety = m
    BY DEF LocksHeld
<1> USE <1>a, ThreadsDistinct DEF FencedSend, Sending, Threads, Controls, Submitters, WorkerPlaces, DeskPlaces, ControlPlaces, Batched, Attempting, Claimed, durable, authority, memory, locks, local, Goes
<1>1. CASE \E w \in Workers : StartCycle(w)
    BY <1>1, <1>b, <1>c, <1>e, <1>f DEF StartCycle
<1>2. CASE \E w \in Workers : \E c \in Commands : EnqueueReads(w, c)
    BY <1>2, <1>b, <1>c, <1>e, <1>f DEF EnqueueReads
<1>3. CASE \E w \in Workers : EnqueueInserts(w)
  <2>1. PICK w \in Workers : EnqueueInserts(w)
    BY <1>3
  <2>2. now[w] \in Commands
    BY <2>1, <1>c DEF EnqueueInserts
  <2>3. \A c \in Commands : rows[c] # Absent => rows'[c] = rows[c]
    BY <2>1, <2>2 DEF EnqueueInserts
  <2>4. \A v \in Workers : pc'[v] \in Sending => v # w /\ pc[v] \in Sending /\ now'[v] = now[v]
    BY <2>1 DEF EnqueueInserts, ForgetsRead
  <2>5. \A v \in Workers : pc[v] \in Sending => now[v] \in Commands /\ rows[now[v]] # Absent
    BY <1>c, <1>f DEF Absent
  <2>6. UNCHANGED authority
    BY <2>1 DEF EnqueueInserts
  <2> QED
    BY <2>3, <2>4, <2>5, <2>6
<1>4. CASE \E w \in Workers : EnqueueFails(w)
    BY <1>4, <1>b, <1>c, <1>e, <1>f DEF EnqueueFails, ForgetsRead, LeavesCycle, Fault
<1>5. CASE \E w \in Workers : CycleEnds(w)
    BY <1>5, <1>b, <1>c, <1>e, <1>f DEF CycleEnds, LeavesCycle
<1>6. CASE \E w \in Workers : CycleFails(w)
    BY <1>6, <1>b, <1>c, <1>e, <1>f DEF CycleFails, LeavesCycle, Fault
<1>7. CASE \E w \in Workers : AbortNext(w)
  <2>1. PICK w \in Workers : AbortNext(w)
    BY <1>7
  <2>2. \A c \in Commands : rows'[c].epoch = rows[c].epoch /\ rows'[c].owner = rows[c].owner
    BY <2>1 DEF AbortNext, Closes
  <2>3. \A v \in Workers : pc'[v] \in Sending => pc[v] \in Sending
    BY <2>1 DEF AbortNext, DropsHead
  <2>4. now' = now /\ UNCHANGED authority
    BY <2>1 DEF AbortNext
  <2> QED
    BY <2>2, <2>3, <2>4, <1>c
<1>8. CASE \E w \in Workers : TakeAttempt(w)
    BY <1>8, <1>b, <1>c, <1>e, <1>f DEF TakeAttempt
<1>9. CASE \E w \in Workers : Claims(w)
    BY <1>9, <1>b, <1>c, <1>e, <1>f DEF Claims, Claimable
<1>10. CASE \E w \in Workers : ClaimRefused(w)
    BY <1>10, <1>b, <1>c, <1>e, <1>f DEF ClaimRefused, Claimable, LeavesAttempt, DropsHead
<1>11. CASE \E w \in Workers : ClaimFails(w)
    BY <1>11, <1>b, <1>c, <1>e, <1>f DEF ClaimFails, Fault, LeavesAttempt, DropsHead
<1>12. CASE \E w \in Workers : Finishes(w)
    BY <1>12, <1>b, <1>c, <1>e, <1>f DEF Finishes, Closes, Closable, LeavesAttempt, DropsHead, StatusOf
<1>13. CASE \E w \in Workers : FinishRaises(w)
    BY <1>13, <1>b, <1>c, <1>e, <1>f DEF FinishRaises, Fault
<1>14. CASE \E w \in Workers : RaiseCloses(w)
    BY <1>14, <1>b, <1>c, <1>e, <1>f DEF RaiseCloses, Closes, Closable, Fault, LeavesAttempt, DropsHead
<1>15. CASE \E p \in Submitters : GateRefuses(p)
    BY <1>15, <1>b, <1>c, <1>e, <1>f DEF GateRefuses, SubmitEnds
<1>16. CASE \E p \in Submitters : GateDuplicate(p)
    BY <1>16, <1>b, <1>c, <1>e, <1>f DEF GateDuplicate, SubmitEnds
<1>17. CASE \E p \in Submitters : GateAllows(p)
    BY <1>17, <1>b, <1>c, <1>e, <1>f DEF GateAllows
<1>18. CASE \E p \in Submitters : GateRaises(p)
    BY <1>18, <1>b, <1>c, <1>e, <1>f DEF GateRaises, Fault
<1>19. CASE \E p \in Submitters : Checkpoints(p)
    BY <1>19, <1>b, <1>c, <1>e, <1>f DEF Checkpoints
<1>20. CASE \E p \in Submitters : CheckpointExists(p)
    BY <1>20, <1>b, <1>c, <1>e, <1>f DEF CheckpointExists, SubmitEnds
<1>21. CASE \E p \in Submitters : CheckpointFails(p)
    BY <1>21, <1>b, <1>c, <1>e, <1>f DEF CheckpointFails, Fault, SubmitEnds
<1>22. CASE \E p \in Submitters : FenceRefuses(p)
    BY <1>22, <1>b, <1>c, <1>e, <1>f DEF FenceRefuses
<1>23. CASE \E p \in Submitters : FenceChecks(p)
    BY <1>23, <1>b, <1>c, <1>e, <1>f DEF FenceChecks, Authorised, Blocked
<1>24. CASE \E p \in Submitters : Posts(p)
    BY <1>24, <1>b, <1>c, <1>e, <1>f DEF Posts
<1>25. CASE \E p \in Submitters : PostReturns(p)
    BY <1>25, <1>b, <1>c, <1>e, <1>f DEF PostReturns
<1>26. CASE \E p \in Submitters : Settles(p)
    BY <1>26, <1>b, <1>c, <1>e, <1>f DEF Settles
<1>27. CASE \E p \in Submitters : SettleFails(p)
    BY <1>27, <1>b, <1>c, <1>e, <1>f DEF SettleFails, Fault, SubmitEnds
<1>28. CASE \E d \in Desks : \E k \in Keys : DeskAsks(d, k)
    BY <1>28, <1>b, <1>c, <1>e, <1>f DEF DeskAsks
<1>29. CASE \E d \in Desks : DeskAnswered(d)
    BY <1>29, <1>b, <1>c, <1>e, <1>f DEF DeskAnswered
<1>30. CASE \E t \in Controls : ControlAsked(t)
    BY <1>30, <1>b, <1>c, <1>e, <1>f DEF ControlAsked
<1>31. CASE \E m \in Mutators : MutationBegins(m)
    BY <1>31, <1>e DEF MutationBegins, Publishes
<1>32. CASE \E m \in Mutators : MutationEnds(m)
    BY <1>32, <1>e, <1>g DEF MutationEnds, Retires
<1>33. CASE \E s \in Stoppers : StopPublishes(s)
    BY <1>33, <1>e DEF StopPublishes, Publishes
<1>34. CASE \E s \in Stoppers : StopChangesMode(s)
    BY <1>34, <1>b, <1>c, <1>e, <1>f DEF StopChangesMode
<1>35. CASE \E s \in Stoppers : StopEnds(s)
    BY <1>35, <1>e DEF StopEnds, Retires
<1>36. CASE EntriesReopen
    BY <1>36, <1>b, <1>c, <1>e, <1>f DEF EntriesReopen
<1>37. CASE ReconcileReads
    BY <1>37, <1>b, <1>c, <1>e, <1>f DEF ReconcileReads
<1>38. CASE ReconcileCloses
    BY <1>38, <1>b, <1>c, <1>e, <1>f DEF ReconcileCloses
<1>39. CASE Crash
    BY <1>39, <1>b, <1>c, <1>e, <1>f DEF Crash
<1>40. CASE UNCHANGED vars
    BY <1>40 DEF vars
<1> QED
    BY <1>1, <1>2, <1>3, <1>4, <1>5, <1>6, <1>7, <1>8, <1>9, <1>10,
       <1>11, <1>12, <1>13, <1>14, <1>15, <1>16, <1>17, <1>18, <1>19, <1>20,
       <1>21, <1>22, <1>23, <1>24, <1>25, <1>26, <1>27, <1>28, <1>29, <1>30,
       <1>31, <1>32, <1>33, <1>34, <1>35, <1>36, <1>37, <1>38, <1>39, <1>40
    DEF Next, CycleStep, DispatchStep, SubmitStep, ControlStep

\* What a worker knows of owner and epoch is never ahead of the journal.
LEMMA PastStep ==
    TypeOK /\ AuthorityIsPast /\ [Next]_vars => AuthorityIsPast'
<1> SUFFICES ASSUME TypeOK, AuthorityIsPast, [Next]_vars PROVE AuthorityIsPast'
    OBVIOUS
<1>a. /\ rows \in [Commands -> [state : RowStates, owner : Nat, epoch : Nat]]
     /\ seen \in [Workers -> [epoch : Nat, blocked : BOOLEAN]]
     /\ life \in Nat /\ epoch \in Nat
    BY DEF TypeOK
<1> USE <1>a DEF AuthorityIsPast, durable, authority, memory, locks, local, Goes
<1>1. CASE \E w \in Workers : StartCycle(w)
    BY <1>1 DEF StartCycle
<1>2. CASE \E w \in Workers : \E c \in Commands : EnqueueReads(w, c)
    BY <1>2 DEF EnqueueReads
<1>3. CASE \E w \in Workers : EnqueueInserts(w)
    BY <1>3 DEF EnqueueInserts, ForgetsRead, Absent
<1>4. CASE \E w \in Workers : EnqueueFails(w)
    BY <1>4 DEF EnqueueFails, ForgetsRead, LeavesCycle, Fault
<1>5. CASE \E w \in Workers : CycleEnds(w)
    BY <1>5 DEF CycleEnds, LeavesCycle
<1>6. CASE \E w \in Workers : CycleFails(w)
    BY <1>6 DEF CycleFails, LeavesCycle, Fault
<1>7. CASE \E w \in Workers : AbortNext(w)
  <2>1. PICK w \in Workers : AbortNext(w)
    BY <1>7
  <2>2. \A c \in Commands : rows'[c].owner = rows[c].owner /\ rows'[c].epoch = rows[c].epoch
    BY <2>1 DEF AbortNext, Closes
  <2>3. UNCHANGED <<authority, seen>>
    BY <2>1 DEF AbortNext
  <2> QED
    BY <2>2, <2>3
<1>8. CASE \E w \in Workers : TakeAttempt(w)
    BY <1>8 DEF TakeAttempt
<1>9. CASE \E w \in Workers : Claims(w)
    BY <1>9 DEF Claims, Claimable
<1>10. CASE \E w \in Workers : ClaimRefused(w)
    BY <1>10 DEF ClaimRefused, Claimable, LeavesAttempt, DropsHead
<1>11. CASE \E w \in Workers : ClaimFails(w)
    BY <1>11 DEF ClaimFails, Fault, LeavesAttempt, DropsHead
<1>12. CASE \E w \in Workers : Finishes(w)
    BY <1>12 DEF Finishes, Closes, Closable, LeavesAttempt, DropsHead, StatusOf
<1>13. CASE \E w \in Workers : FinishRaises(w)
    BY <1>13 DEF FinishRaises, Fault
<1>14. CASE \E w \in Workers : RaiseCloses(w)
  <2>1. PICK w \in Workers : RaiseCloses(w)
    BY <1>14
  <2>2. \A c \in Commands : rows'[c].owner = rows[c].owner /\ rows'[c].epoch = rows[c].epoch
    BY <2>1 DEF RaiseCloses, Closes
  <2>3. UNCHANGED <<authority, seen>>
    BY <2>1 DEF RaiseCloses
  <2> QED
    BY <2>2, <2>3
<1>15. CASE \E p \in Submitters : GateRefuses(p)
    BY <1>15 DEF GateRefuses, SubmitEnds
<1>16. CASE \E p \in Submitters : GateDuplicate(p)
  <2>1. PICK p \in Submitters : GateDuplicate(p)
    BY <1>16
  <2>2. PICK state \in {"risk_blocked", "unknown"} : SubmitEnds(p, state)
    BY <2>1 DEF GateDuplicate
  <2>3. pc[p] = "gate" /\ UNCHANGED <<durable, authority, memory, locks, seen, batch, now, desk, image, faults>>
    BY <2>1 DEF GateDuplicate
  <2> QED
    BY <2>2, <2>3 DEF SubmitEnds
<1>17. CASE \E p \in Submitters : GateAllows(p)
    BY <1>17 DEF GateAllows
<1>18. CASE \E p \in Submitters : GateRaises(p)
    BY <1>18 DEF GateRaises, Fault
<1>19. CASE \E p \in Submitters : Checkpoints(p)
    BY <1>19 DEF Checkpoints
<1>20. CASE \E p \in Submitters : CheckpointExists(p)
    BY <1>20 DEF CheckpointExists, SubmitEnds
<1>21. CASE \E p \in Submitters : CheckpointFails(p)
    BY <1>21 DEF CheckpointFails, Fault, SubmitEnds
<1>22. CASE \E p \in Submitters : FenceRefuses(p)
    BY <1>22 DEF FenceRefuses
<1>23. CASE \E p \in Submitters : FenceChecks(p)
    BY <1>23 DEF FenceChecks
<1>24. CASE \E p \in Submitters : Posts(p)
    BY <1>24 DEF Posts
<1>25. CASE \E p \in Submitters : PostReturns(p)
    BY <1>25 DEF PostReturns
<1>26. CASE \E p \in Submitters : Settles(p)
    BY <1>26 DEF Settles
<1>27. CASE \E p \in Submitters : SettleFails(p)
    BY <1>27 DEF SettleFails, Fault, SubmitEnds
<1>28. CASE \E d \in Desks : \E k \in Keys : DeskAsks(d, k)
    BY <1>28 DEF DeskAsks
<1>29. CASE \E d \in Desks : DeskAnswered(d)
    BY <1>29 DEF DeskAnswered
<1>30. CASE \E t \in Controls : ControlAsked(t)
    BY <1>30 DEF ControlAsked
<1>31. CASE \E m \in Mutators : MutationBegins(m)
    BY <1>31 DEF MutationBegins, Publishes
<1>32. CASE \E m \in Mutators : MutationEnds(m)
    BY <1>32 DEF MutationEnds, Retires
<1>33. CASE \E s \in Stoppers : StopPublishes(s)
    BY <1>33 DEF StopPublishes, Publishes
<1>34. CASE \E s \in Stoppers : StopChangesMode(s)
    BY <1>34 DEF StopChangesMode
<1>35. CASE \E s \in Stoppers : StopEnds(s)
    BY <1>35 DEF StopEnds, Retires
<1>36. CASE EntriesReopen
    BY <1>36 DEF EntriesReopen
<1>37. CASE ReconcileReads
    BY <1>37 DEF ReconcileReads
<1>38. CASE ReconcileCloses
    BY <1>38 DEF ReconcileCloses
<1>39. CASE Crash
    BY <1>39 DEF Crash
<1>40. CASE UNCHANGED vars
    BY <1>40 DEF vars
<1> QED
    BY <1>1, <1>2, <1>3, <1>4, <1>5, <1>6, <1>7, <1>8, <1>9, <1>10,
       <1>11, <1>12, <1>13, <1>14, <1>15, <1>16, <1>17, <1>18, <1>19, <1>20,
       <1>21, <1>22, <1>23, <1>24, <1>25, <1>26, <1>27, <1>28, <1>29, <1>30,
       <1>31, <1>32, <1>33, <1>34, <1>35, <1>36, <1>37, <1>38, <1>39, <1>40
    DEF Next, CycleStep, DispatchStep, SubmitStep, ControlStep

\* The broker is called by the posting step alone.
LEMMA OnlyPostsSends ==
    [Next]_vars /\ posted' # posted => \E p \in Submitters : Posts(p)
<1> SUFFICES ASSUME [Next]_vars, posted' # posted PROVE \E p \in Submitters : Posts(p)
    OBVIOUS
<1> USE DEF durable
<1>1. CASE \E w \in Workers : CycleStep(w)
    BY <1>1 DEF CycleStep, StartCycle, EnqueueReads, EnqueueInserts, EnqueueFails, CycleEnds,
                CycleFails, AbortNext
<1>2. CASE \E w \in Workers : DispatchStep(w)
    BY <1>2 DEF DispatchStep, TakeAttempt, Claims, ClaimRefused, ClaimFails, Finishes,
                FinishRaises, RaiseCloses
<1>6. CASE \E p \in Submitters : SubmitStep(p)
    BY <1>6 DEF SubmitStep, GateRefuses, GateDuplicate, GateAllows, GateRaises, Checkpoints,
                CheckpointExists, CheckpointFails, FenceRefuses, FenceChecks, PostReturns,
                Settles, SettleFails
<1>7. CASE \E d \in Desks : DeskAnswered(d) \/ \E k \in Keys : DeskAsks(d, k)
    BY <1>7 DEF DeskAnswered, DeskAsks
<1>3. CASE ControlStep
    BY <1>3 DEF ControlStep, ControlAsked, MutationBegins, MutationEnds, StopPublishes,
                StopChangesMode, StopEnds, EntriesReopen
<1>4. CASE ReconcileReads \/ ReconcileCloses \/ Crash
    BY <1>4 DEF ReconcileReads, ReconcileCloses, Crash
<1>5. CASE UNCHANGED vars
    BY <1>5 DEF vars
<1> QED
    BY <1>1, <1>2, <1>3, <1>4, <1>5, <1>6, <1>7 DEF Next

\* A key whose entry is past its reservation is not posted again.
LEMMA OnePostStep ==
    TypeOK /\ BatchHeld /\ ReservationHeld /\ OnePostPerKey /\ [Next]_vars => OnePostPerKey'
<1> SUFFICES ASSUME TypeOK, BatchHeld, ReservationHeld, OnePostPerKey, [Next]_vars
             PROVE OnePostPerKey'
    OBVIOUS
<1>1. CASE posted' = posted
    BY <1>1 DEF OnePostPerKey
<1>2. CASE posted' # posted
  <2>1. PICK p \in Submitters : Posts(p)
    BY <1>2, OnlyPostsSends
  <2>2. posted[KeyNow(p)] = 0
    BY <2>1 DEF Posts, ReservationHeld
  <2> QED
    BY <2>1, <2>2 DEF Posts, OnePostPerKey, TypeOK
<1> QED
    BY <1>1, <1>2

\* The invariant holds when the program starts.
LEMMA InvariantInit == Init => DispatchInvariant
<1> SUFFICES ASSUME Init PROVE DispatchInvariant
    OBVIOUS
<1> USE ThreadsDistinct DEF Init, Threads, Submitters, Controls, DeskPlaces, Reserving, WorkerPlaces, ControlPlaces, Batched,
        Attempting, Claimed, Sending
<1>1. TypeOK
    BY BoundsTyped DEF TypeOK, Absent, Unreserved, RowStates, OrderStates
<1>2. LocksHeld
    BY DEF LocksHeld
<1>3. BatchHeld
    BY DEF BatchHeld
<1>4. ClaimHeld /\ FencedSend
    BY DEF ClaimHeld, FencedSend
<1>5. ReservationHeld /\ OnePostPerKey
    BY DEF ReservationHeld, OnePostPerKey
<1>6. AuthorityIsPast
    BY DEF AuthorityIsPast, Absent
<1> QED
    BY <1>1, <1>2, <1>3, <1>4, <1>5, <1>6 DEF DispatchInvariant

\* Every step preserves the invariant.
LEMMA InvariantStep == DispatchInvariant /\ [Next]_vars => DispatchInvariant'
BY TypeStep, LocksStep, BatchStep, ClaimStep, ReservationStep, FencedStep, OnePostStep, PastStep
   DEF DispatchInvariant

(* Every reachable state satisfies the inductive invariant: the locks are    *)
(* where the code takes them, claims and reservations precede every send.    *)
THEOREM Invariant == Spec => []DispatchInvariant
<1>1. Init => DispatchInvariant
    BY InvariantInit
<1>2. DispatchInvariant /\ [Next]_vars => DispatchInvariant'
    BY InvariantStep
<1> QED
    BY <1>1, <1>2, PTL DEF Spec

(* No idempotency key reaches a broker twice, for any number of journals     *)
(* that share it, crashes and failed saves (checkpoint_order_dispatch).      *)
THEOREM AtMostOnce == Spec => []OnePostPerKey
<1>1. DispatchInvariant => OnePostPerKey
    BY DEF DispatchInvariant
<1> QED
    BY <1>1, Invariant, PTL

(* No order of an older control generation is at a broker while a control    *)
(* runs or after it (the fence of dispatch_live_order_with_checkpoint).      *)
THEOREM ControlsFence == Spec => []FencedSend
<1>1. DispatchInvariant => FencedSend
    BY DEF DispatchInvariant
<1> QED
    BY <1>1, Invariant, PTL

(* A send is backed by a durable reservation of its own command, claimed in  *)
(* this life: dispatch_live_order_with_checkpoint checkpoints before it.     *)
THEOREM SendsAreReserved == Spec => SendIsReserved
<1>1. DispatchInvariant /\ [Next]_vars =>
        [\A k \in Keys : posted'[k] # posted[k] =>
          /\ ledger[k].state = "dispatch_pending"
          /\ \E p \in Submitters : KeyNow(p) = k /\ SealNow(p) = ledger[k].seal
          /\ ledger[k].seal \in Commands => rows[ledger[k].seal].owner = life]_vars
  <2> SUFFICES ASSUME DispatchInvariant, [Next]_vars, NEW k \in Keys, posted'[k] # posted[k]
               PROVE  /\ ledger[k].state = "dispatch_pending"
                      /\ \E p \in Submitters : KeyNow(p) = k /\ SealNow(p) = ledger[k].seal
                      /\ ledger[k].seal \in Commands => rows[ledger[k].seal].owner = life
    OBVIOUS
  <2>1. PICK p \in Submitters : Posts(p)
    BY OnlyPostsSends
  <2>2. k = KeyNow(p)
    BY <2>1 DEF Posts, DispatchInvariant, TypeOK
  <2>3. ledger[k] = [state |-> "dispatch_pending", seal |-> SealNow(p)]
    BY <2>1, <2>2 DEF Posts, DispatchInvariant, ReservationHeld
  <2>4. p \in Workers => rows[now[p]].owner = life
    BY <2>1 DEF Posts, DispatchInvariant, ClaimHeld, Claimed, Attempting
  <2>5. SealNow(p) \in Commands => p \in Workers /\ SealNow(p) = now[p]
    BY ThreadsDistinct DEF SealNow
  <2> QED
    BY <2>2, <2>3, <2>4, <2>5
<1> QED
    BY <1>1, Invariant, PTL DEF Spec, SendIsReserved

(* A journal with an order whose outcome is open sends no other order        *)
(* (_unresolved, looked at in claim, holds until the attempt ends).          *)
THEOREM UncertainHolds == Spec => UncertaintyHolds
<1>1. DispatchInvariant /\ [Next]_vars =>
        [\A w \in Workers : pc[w] = "armed" /\ pc'[w] = "post" => ~Unresolved(w)]_vars
    BY DEF DispatchInvariant, ClaimHeld, Claimed, Attempting
<1> QED
    BY <1>1, Invariant, PTL DEF Spec, UncertaintyHolds

\* A row of an earlier life can only become resolved.
LEMMA OldRowStep ==
    ASSUME TypeOK, BatchHeld, LocksHeld, ClaimHeld, [Next]_vars, NEW c \in Commands,
           rows[c] # Absent, rows[c].owner # life, rows'[c] # rows[c]
    PROVE  Uncertain(c) /\ rows'[c] = [rows[c] EXCEPT !.state = "RESOLVED"]
<1>a. rows \in [Commands -> [state : RowStates, owner : Nat, epoch : Nat]]
    BY DEF TypeOK
<1>b. \A w \in Workers : pc[w] \in Attempting \cup {"insert"} => now[w] \in Commands
    BY NowHeld
<1> USE <1>a DEF durable
<1>1. CASE \E w \in Workers : CycleStep(w)
  <2>1. PICK w \in Workers : EnqueueInserts(w) \/ AbortNext(w)
    BY <1>1 DEF CycleStep, StartCycle, EnqueueReads, EnqueueFails, CycleEnds, CycleFails
  <2>2. rows'[c] = rows[c]
    BY <2>1, <1>b DEF EnqueueInserts, AbortNext, Closes, Closable
  <2> QED
    BY <2>2
<1>2. CASE \E w \in Workers : DispatchStep(w)
  <2>1. PICK w \in Workers : DispatchStep(w)
    BY <1>2
  <2>2. rows'[c] = rows[c]
    BY <2>1, <1>b
       DEF DispatchStep, TakeAttempt, Claims, ClaimRefused, ClaimFails, Claimable, Finishes,
           FinishRaises, RaiseCloses, Closes, Closable, Attempting
  <2> QED
    BY <2>2
<1>7. CASE \E p \in Submitters : SubmitStep(p)
    BY <1>7 DEF SubmitStep, GateRefuses, GateDuplicate, GateAllows, GateRaises, Checkpoints,
                CheckpointExists, CheckpointFails, FenceRefuses, FenceChecks, Posts,
                PostReturns, Settles, SettleFails, SubmitEnds
<1>8. CASE \E d \in Desks : DeskAnswered(d) \/ \E k \in Keys : DeskAsks(d, k)
    BY <1>8 DEF DeskAnswered, DeskAsks
<1>3. CASE ControlStep
    BY <1>3 DEF ControlStep, ControlAsked, MutationBegins, MutationEnds, StopPublishes,
                StopChangesMode, StopEnds, EntriesReopen
<1>4. CASE ReconcileReads \/ Crash
    BY <1>4 DEF ReconcileReads, Crash
<1>5. CASE ReconcileCloses
    BY <1>5 DEF ReconcileCloses
<1>6. CASE UNCHANGED vars
    BY <1>6 DEF vars
<1> QED
    BY <1>1, <1>2, <1>3, <1>4, <1>5, <1>6, <1>7, <1>8 DEF Next

(* What an earlier life left in a journal is never sent, replaced or closed  *)
(* by the running life, only resolved by reconciliation.                     *)
THEOREM OldRowsResolve == Spec => OldRowsOnlyResolve
<1>1. DispatchInvariant /\ [Next]_vars =>
        [\A c \in Commands :
          rows[c] # Absent /\ rows[c].owner # life /\ rows'[c] # rows[c] =>
              Uncertain(c) /\ rows'[c] = [rows[c] EXCEPT !.state = "RESOLVED"]]_vars
    BY OldRowStep DEF DispatchInvariant
<1> QED
    BY <1>1, Invariant, PTL DEF Spec, OldRowsOnlyResolve

Fates == [c \in Commands |-> FateOf(c)]
Lives == {c \in Commands : FateOf(c) = "pending" /\ rows[c].epoch = epoch}

\* A command has one fate, told by its row and by its post.
LEMMA FateCases ==
    ASSUME NEW c \in Commands
    PROVE  /\ FateOf(c) = "sent" <=> Sent(c)
           /\ FateOf(c) = "new" <=> ~Sent(c) /\ rows[c] = Absent
           /\ FateOf(c) = "pending" <=> ~Sent(c) /\ rows[c] # Absent /\ Closable(c)
           /\ FateOf(c) = "closed" <=> ~Sent(c) /\ rows[c] # Absent /\ ~Closable(c)
           /\ FateOf(c) \in {"new", "pending", "sent", "closed"}
BY DEF FateOf, Absent, Closable

\* The same after a step.
LEMMA FateCasesNext ==
    ASSUME NEW c \in Commands
    PROVE  /\ FateOf(c)' = "sent" <=> Sent(c)'
           /\ FateOf(c)' = "new" <=> ~Sent(c)' /\ rows'[c] = Absent
           /\ FateOf(c)' = "pending" <=> ~Sent(c)' /\ rows'[c] # Absent /\ Closable(c)'
           /\ FateOf(c)' = "closed" <=> ~Sent(c)' /\ rows'[c] # Absent /\ ~Closable(c)'
           /\ FateOf(c)' \in {"new", "pending", "sent", "closed"}
BY DEF FateOf, Absent, Closable

(* A step that moves no row, order or generation is a stutter.               *)
LEMMA FateStutters ==
    ASSUME UNCHANGED <<rows, ledger, posted, life, epoch>>
    PROVE  UNCHANGED <<Fates, Lives>>
BY DEF Fates, Lives, FateOf, Sent, Closable

(* Closing a row of the running life refuses its command, unless it was sent. *)
LEMMA FateCloses ==
    ASSUME TypeOK, NEW c \in Commands, Closable(c),
           NEW state \in {"ABORTED", "BLOCKED", "COMPLETED", "UNKNOWN"},
           rows' = [rows EXCEPT ![c].state = state],
           UNCHANGED <<ledger, posted, life, epoch>>
    PROVE  Promise!Next \/ UNCHANGED <<Fates, Lives>>
<1>1. \A d \in Commands : Sent(d)' <=> Sent(d)
    BY DEF Sent
<1>2. \A d \in Commands : d # c => rows'[d] = rows[d] /\ (Closable(d)' <=> Closable(d))
    BY DEF TypeOK, Closable
<1>3. rows[c] # Absent /\ rows'[c] # Absent /\ ~Closable(c)'
    BY DEF TypeOK, Closable, Absent
<1>4. \A d \in Commands : d # c => FateOf(d)' = FateOf(d)
    BY <1>1, <1>2, FateCases, FateCasesNext
<1>5. CASE Sent(c)
  <2>1. FateOf(c)' = FateOf(c) /\ FateOf(c) = "sent"
    BY <1>1, <1>5, FateCases, FateCasesNext
  <2> QED
    BY <1>2, <1>4, <2>1 DEF Fates, Lives
<1>6. CASE ~Sent(c)
  <2>1. FateOf(c) = "pending" /\ FateOf(c)' = "closed"
    BY <1>1, <1>3, <1>6, FateCases, FateCasesNext
  <2>2. Fates' = [Fates EXCEPT ![c] = "closed"]
    BY <1>4, <2>1 DEF Fates
  <2>3. Lives' = Lives \ {c}
    BY <1>2, <1>4, <2>1 DEF Lives
  <2> QED
    BY <2>1, <2>2, <2>3 DEF Promise!Next, Promise!Refuse, Fates, Lives
<1> QED
    BY <1>5, <1>6

(* An enqueue that creates its row accepts the command or refuses it.        *)
LEMMA FateEnqueues ==
    ASSUME TypeOK, BatchHeld, NEW w \in Workers, EnqueueInserts(w)
    PROVE  Promise!Next \/ UNCHANGED <<Fates, Lives>>
<1>0. PICK c \in Commands : c = now[w]
    BY NowHeld DEF EnqueueInserts
<1>1. c \in Commands /\ UNCHANGED <<ledger, posted, life, epoch>>
    BY DEF EnqueueInserts, authority
<1>2. CASE rows' = rows
    BY <1>1, <1>2, FateStutters
<1>3. CASE rows' # rows
  <2>1. PICK state \in {"BLOCKED", "QUEUED"} :
           /\ rows[c] = Absent
           /\ rows' = [rows EXCEPT ![c] =
                  [state |-> state, owner |-> life, epoch |-> seen[w].epoch]]
    BY <1>0, <1>3 DEF EnqueueInserts
  <2>2. \A d \in Commands : Sent(d)' <=> Sent(d)
    BY <1>1 DEF Sent
  <2>3. \A d \in Commands : d # c => rows'[d] = rows[d] /\ (Closable(d)' <=> Closable(d))
    BY <1>1, <2>1 DEF TypeOK, Closable
  <2>4. \A d \in Commands : d # c => FateOf(d)' = FateOf(d)
    BY <2>2, <2>3, FateCases, FateCasesNext
  <2>5. rows'[c] = [state |-> state, owner |-> life, epoch |-> seen[w].epoch]
    BY <1>1, <2>1 DEF TypeOK
  <2>6. rows'[c] # Absent /\ (Closable(c)' <=> state = "QUEUED") /\ ~Closable(c)
    BY <1>1, <2>1, <2>5 DEF Absent, Closable
  <2>7. CASE Sent(c)
    <3>1. FateOf(c)' = FateOf(c) /\ FateOf(c) = "sent"
        BY <1>1, <2>2, <2>7, FateCases, FateCasesNext
    <3> QED
        BY <1>1, <2>3, <2>4, <3>1 DEF Fates, Lives
  <2>8. CASE ~Sent(c) /\ state = "QUEUED"
    <3>1. FateOf(c) = "new" /\ FateOf(c)' = "pending"
        BY <1>1, <2>1, <2>2, <2>6, <2>8, FateCases, FateCasesNext
    <3>2. Fates' = [Fates EXCEPT ![c] = "pending"]
        BY <1>1, <2>4, <3>1 DEF Fates
    <3>3. Lives' \in {Lives, Lives \cup {c}}
      <4>1. \A d \in Commands : d # c => (d \in Lives' <=> d \in Lives)
          BY <1>1, <2>3, <2>4 DEF Lives
      <4>2. c \notin Lives /\ Lives' \subseteq Commands /\ Lives \subseteq Commands
          BY <3>1 DEF Lives
      <4> QED
          BY <4>1, <4>2
    <3> QED
        BY <3>1, <3>2, <3>3 DEF Promise!Next, Promise!Accept, Fates, Lives
  <2>9. CASE ~Sent(c) /\ state = "BLOCKED"
    <3>1. FateOf(c) = "new" /\ FateOf(c)' = "closed"
        BY <1>1, <2>1, <2>2, <2>6, <2>9, FateCases, FateCasesNext
    <3>2. Fates' = [Fates EXCEPT ![c] = "closed"]
        BY <1>1, <2>4, <3>1 DEF Fates
    <3>3. Lives' = Lives \ {c}
        BY <1>1, <2>3, <2>4, <3>1 DEF Lives
    <3> QED
        BY <3>1, <3>2, <3>3 DEF Promise!Next, Promise!Refuse, Fates, Lives
  <2> QED
    BY <2>1, <2>7, <2>8, <2>9
<1> QED
    BY <1>2, <1>3

(* The request to the broker sends a live command, alone of its key.         *)
LEMMA FateSends ==
    ASSUME DispatchInvariant, NEW w \in Workers, Posts(w)
    PROVE  Promise!Next
<1>0. PICK c \in Commands, k \in Keys : c = now[w] /\ k = KeyOf[c]
    BY NowHeld, RoutesTyped DEF Posts, DispatchInvariant, Attempting
<1>1. pc[w] = "armed" /\ c \in Commands /\ k \in Keys
    BY DEF Posts
<1>2. UNCHANGED <<rows, ledger, life, epoch>> /\ posted' = [posted EXCEPT ![k] = @ + 1]
    BY <1>0 DEF Posts, authority, KeyNow
<1>3. ledger[k].seal = c /\ posted[k] = 0
  <2>1. /\ ledger[KeyNow(w)] = [state |-> "dispatch_pending", seal |-> now[w]]
        /\ posted[KeyNow(w)] = 0
    BY <1>1 DEF DispatchInvariant, ReservationHeld, SealNow, Submitters
  <2> QED
    BY <1>0, <2>1 DEF KeyNow
<1>4. Closable(c) /\ rows[c].epoch = epoch /\ rows[c] # Absent
  <2>1. rows[c].state = "DISPATCHING" /\ rows[c].owner = life
    BY <1>0, <1>1 DEF DispatchInvariant, ClaimHeld, Claimed, Attempting
  <2>2. rows[c].epoch = epoch
    BY <1>0, <1>1 DEF DispatchInvariant, FencedSend, Sending
  <2> QED
    BY <2>1, <2>2 DEF Closable, Absent
<1>5. posted'[k] = 1
    BY <1>1, <1>2, <1>3 DEF DispatchInvariant, TypeOK
<1>6. ~Sent(c) /\ Sent(c)'
    BY <1>0, <1>2, <1>3, <1>5 DEF Sent
<1>7. \A d \in Commands : KeyOf[d] = k => ~Sent(d)
    BY <1>3 DEF Sent
<1>8. \A d \in Commands : d # c => (Sent(d)' <=> Sent(d))
  <2> SUFFICES ASSUME NEW d \in Commands, d # c PROVE Sent(d)' <=> Sent(d)
    OBVIOUS
  <2>1. CASE KeyOf[d] = k
    BY <1>2, <1>3, <2>1 DEF Sent
  <2>2. CASE KeyOf[d] # k
    <3>1. KeyOf[d] \in Keys
        BY RoutesTyped
    <3>2. posted'[KeyOf[d]] = posted[KeyOf[d]]
        BY <1>2, <2>2, <3>1 DEF DispatchInvariant, TypeOK
    <3> QED
        BY <1>2, <3>2 DEF Sent
  <2> QED
    BY <2>1, <2>2
<1>9. \A d \in Commands : rows'[d] = rows[d] /\ (Closable(d)' <=> Closable(d))
    BY <1>2 DEF Closable
<1>10. \A d \in Commands : d # c => FateOf(d)' = FateOf(d)
    BY <1>8, <1>9, FateCases, FateCasesNext
<1>11. FateOf(c) = "pending" /\ FateOf(c)' = "sent"
    BY <1>1, <1>4, <1>6, FateCases, FateCasesNext
<1>12. \A d \in Commands : KeyOf[d] = k => Fates[d] # "sent"
    BY <1>7, FateCases DEF Fates
<1>13. Fates' = [Fates EXCEPT ![c] = "sent"]
    BY <1>1, <1>10, <1>11 DEF Fates
<1>14. c \in Lives /\ Lives' = Lives \ {c}
    BY <1>1, <1>2, <1>4, <1>10, <1>11 DEF Lives
<1> QED
    BY <1>0, <1>12, <1>13, <1>14 DEF Promise!Next, Promise!Send, Fates, Lives

(* The order of a desk sends no command.                                     *)
LEMMA FateDesks ==
    ASSUME DispatchInvariant, NEW p \in Submitters, p \notin Workers, Posts(p)
    PROVE  UNCHANGED <<Fates, Lives>>
<1>0. PICK k \in Keys : k = KeyNow(p)
    BY KeyHeld DEF Posts, DispatchInvariant, Claimed, Attempting
<1>1. UNCHANGED <<rows, ledger, life, epoch>> /\ posted' = [posted EXCEPT ![k] = @ + 1]
    BY <1>0 DEF Posts, authority
<1>2. ledger[k].seal = NoCommand
  <2>1. ledger[KeyNow(p)] = [state |-> "dispatch_pending", seal |-> SealNow(p)]
    BY DEF Posts, DispatchInvariant, ReservationHeld
  <2>2. ledger[KeyNow(p)].seal = SealNow(p)
    BY <2>1
  <2> QED
    BY <1>0, <2>2 DEF SealNow
<1>3. \A c \in Commands : Sent(c)' <=> Sent(c)
  <2> SUFFICES ASSUME NEW c \in Commands PROVE Sent(c)' <=> Sent(c)
    OBVIOUS
  <2>1. CASE KeyOf[c] = k
    BY <1>1, <1>2, <2>1, ThreadsDistinct DEF Sent
  <2>2. CASE KeyOf[c] # k
    <3>1. posted'[KeyOf[c]] = posted[KeyOf[c]]
        BY <1>1, <2>2, RoutesTyped DEF DispatchInvariant, TypeOK
    <3> QED
        BY <1>1, <3>1 DEF Sent
  <2> QED
    BY <2>1, <2>2
<1>4. \A c \in Commands : rows'[c] = rows[c] /\ (Closable(c)' <=> Closable(c))
    BY <1>1 DEF Closable
<1>5. \A c \in Commands : FateOf(c)' = FateOf(c)
    BY <1>3, <1>4, FateCases, FateCasesNext
<1> QED
    BY <1>1, <1>4, <1>5 DEF Fates, Lives

(* A change of the ledger keeps who was sent, if it keeps the seals of the   *)
(* keys that were posted.                                                    *)
LEMMA FateSettles ==
    ASSUME UNCHANGED <<rows, posted, life, epoch>>,
           \A k \in Keys : posted[k] > 0 => ledger'[k].seal = ledger[k].seal
    PROVE  UNCHANGED <<Fates, Lives>>
<1>1. \A c \in Commands : Sent(c)' <=> Sent(c)
    BY RoutesTyped DEF Sent
<1>2. \A c \in Commands : rows'[c] = rows[c] /\ (Closable(c)' <=> Closable(c))
    BY DEF Closable
<1>3. \A c \in Commands : FateOf(c)' = FateOf(c)
    BY <1>1, <1>2, FateCases, FateCasesNext
<1> QED
    BY <1>2, <1>3 DEF Fates, Lives

(* A new generation leaves nothing that was queued before it sendable.       *)
LEMMA FateInvalidates ==
    ASSUME TypeOK, AuthorityIsPast, UNCHANGED <<rows, ledger, posted, life>>, epoch' = epoch + 1
    PROVE  Promise!Invalidate
<1>1. \A c \in Commands : rows'[c].epoch # epoch'
    BY DEF TypeOK, AuthorityIsPast
<1>2. \A c \in Commands : FateOf(c)' = FateOf(c)
    BY DEF FateOf, Sent, Closable
<1>3. Lives' = {}
    BY <1>1 DEF Lives
<1>4. Fates' = Fates
    BY <1>2 DEF Fates
<1> QED
    BY <1>3, <1>4 DEF Promise!Invalidate, Fates, Lives

(* A crash closes what was pending.                                          *)
LEMMA FateRestarts ==
    ASSUME TypeOK, AuthorityIsPast, Crash
    PROVE  Promise!Restart
<1>1. UNCHANGED <<rows, ledger, posted>> /\ life' = life + 1
    BY DEF Crash, durable
<1>2. \A c \in Commands : ~Closable(c)' /\ (Sent(c)' <=> Sent(c)) /\ rows'[c] = rows[c]
    BY <1>1 DEF TypeOK, AuthorityIsPast, Closable, Sent
<1>3. \A c \in Commands :
          FateOf(c)' = IF FateOf(c) = "pending" THEN "closed" ELSE FateOf(c)
    BY <1>2, FateCases, FateCasesNext
<1>4. Lives' = {}
    BY <1>3, FateCases DEF Lives
<1>5. Fates' = [c \in Commands |-> IF Fates[c] = "pending" THEN "closed" ELSE Fates[c]]
    BY <1>3 DEF Fates
<1> QED
    BY <1>4, <1>5 DEF Promise!Restart, Fates, Lives

(* Reconciliation resolves rows that nothing could be sent for any more.     *)
LEMMA FateReconciles ==
    ASSUME TypeOK, ReconcileCloses
    PROVE  UNCHANGED <<Fates, Lives>>
<1>1. UNCHANGED <<ledger, posted, life, epoch>>
    BY DEF ReconcileCloses, authority
<1>2. \A c \in Commands :
          \/ rows'[c] = rows[c]
          \/ Uncertain(c) /\ rows'[c] = [rows[c] EXCEPT !.state = "RESOLVED"]
    BY DEF ReconcileCloses
<1>3. \A c \in Commands :
          /\ Closable(c)' <=> Closable(c)
          /\ rows'[c] = Absent <=> rows[c] = Absent
          /\ rows'[c].epoch = rows[c].epoch
  <2> SUFFICES ASSUME NEW c \in Commands, Uncertain(c),
                      rows'[c] = [rows[c] EXCEPT !.state = "RESOLVED"]
               PROVE  /\ ~Closable(c)' /\ ~Closable(c)
                      /\ rows'[c] # Absent /\ rows[c] # Absent
                      /\ rows'[c].epoch = rows[c].epoch
    BY <1>1, <1>2 DEF Closable
  <2>1. rows[c] \in [state : RowStates, owner : Nat, epoch : Nat]
    BY DEF TypeOK
  <2>2. rows'[c].state = "RESOLVED" /\ rows'[c].epoch = rows[c].epoch
    BY <2>1
  <2>3. rows'[c] # Absent /\ ~Closable(c)'
    BY <2>2 DEF Absent, Closable
  <2>4. rows[c] # Absent /\ ~Closable(c)
    BY DEF Uncertain, Absent, Closable
  <2> QED
    BY <2>2, <2>3, <2>4
<1>4. \A c \in Commands : Sent(c)' <=> Sent(c)
    BY <1>1 DEF Sent
<1>5. \A c \in Commands : FateOf(c)' = FateOf(c)
    BY <1>3, <1>4, FateCases, FateCasesNext
<1> QED
    BY <1>1, <1>3, <1>5 DEF Fates, Lives

\* A start is a start of the promise.
LEMMA PromiseInit == Init => Promise!Init
<1> SUFFICES ASSUME Init PROVE Promise!Init
    OBVIOUS
<1>1. \A c \in Commands : FateOf(c) = "new"
  <2> SUFFICES ASSUME NEW c \in Commands PROVE ~Sent(c) /\ rows[c] = Absent
    BY FateCases
  <2> QED
    BY RoutesTyped DEF Init, Sent
<1> QED
    BY <1>1 DEF Promise!Init

\* A step of a cycle is a step of the promise, or none of its own.
LEMMA CycleKeepsPromise ==
    ASSUME DispatchInvariant, NEW w \in Workers, CycleStep(w)
    PROVE  Promise!Next \/ UNCHANGED <<Fates, Lives>>
<1>1. CASE EnqueueInserts(w)
    BY <1>1, FateEnqueues DEF DispatchInvariant
<1>2. CASE AbortNext(w)
  <2>1. PICK c \in Commands : c = Head(batch[w])
    BY <1>2, HeadHeld DEF AbortNext, DispatchInvariant, Batched
  <2>2. UNCHANGED <<ledger, posted, life, epoch>>
    BY <1>2 DEF AbortNext, authority
  <2>3. CASE Closes(Head(batch[w]), "ABORTED")
    BY <2>1, <2>2, <2>3, FateCloses DEF Closes, DispatchInvariant
  <2>4. CASE UNCHANGED rows
    BY <2>2, <2>4, FateStutters
  <2> QED
    BY <1>2, <2>3, <2>4 DEF AbortNext
<1>3. CASE ~EnqueueInserts(w) /\ ~AbortNext(w)
  <2>1. UNCHANGED <<rows, ledger, posted, life, epoch>>
    BY <1>3 DEF CycleStep, StartCycle, EnqueueReads, EnqueueFails, CycleEnds, CycleFails,
                durable, authority
  <2> QED
    BY <2>1, FateStutters
<1> QED
    BY <1>1, <1>2, <1>3

\* A step of a dispatch is a step of the promise, or none of its own.
LEMMA DispatchKeepsPromise ==
    ASSUME DispatchInvariant, NEW w \in Workers, DispatchStep(w)
    PROVE  Promise!Next \/ UNCHANGED <<Fates, Lives>>
<1>a. TypeOK /\ (pc[w] \in Attempting => now[w] \in Commands)
    BY NowHeld DEF DispatchInvariant
<1>1. CASE Claims(w)
  <2>1. now[w] \in Commands
    BY <1>1, <1>a DEF Claims, Attempting
  <2>2. UNCHANGED <<ledger, posted, life, epoch>> /\ rows' = [rows EXCEPT ![now[w]].state = "DISPATCHING"]
    BY <1>1 DEF Claims, authority
  <2>3. rows[now[w]].owner = life /\ rows[now[w]].state = "QUEUED"
    BY <1>1 DEF Claims, Claimable
  <2>4. \A c \in Commands :
          /\ Closable(c)' <=> Closable(c)
          /\ rows'[c] = Absent <=> rows[c] = Absent
          /\ rows'[c].epoch = rows[c].epoch
    BY <1>a, <2>1, <2>2, <2>3 DEF TypeOK, Closable, Absent
  <2>5. \A c \in Commands : Sent(c)' <=> Sent(c)
    BY <2>2 DEF Sent
  <2>6. \A c \in Commands : FateOf(c)' = FateOf(c)
    BY <2>4, <2>5, FateCases, FateCasesNext
  <2> QED
    BY <2>2, <2>4, <2>6 DEF Fates, Lives
<1>2. CASE ClaimRefused(w) \/ Finishes(w) \/ RaiseCloses(w)
  <2>1. PICK c \in Commands : c = now[w] /\ UNCHANGED <<ledger, posted, life, epoch>>
    BY <1>2, <1>a DEF ClaimRefused, Finishes, RaiseCloses, Attempting, authority
  <2>2. CASE rows' = rows
    BY <2>1, <2>2, FateStutters
  <2>3. CASE rows' # rows
    <3>1. PICK state \in {"ABORTED", "BLOCKED", "COMPLETED", "UNKNOWN"} :
             Closable(c) /\ rows' = [rows EXCEPT ![c].state = state]
        BY <1>2, <2>1, <2>3 DEF ClaimRefused, Claimable, Finishes, RaiseCloses, Closes, Closable, StatusOf
    <3> QED
        BY <1>a, <2>1, <3>1, FateCloses
  <2> QED
    BY <2>2, <2>3
<1>3. CASE TakeAttempt(w) \/ ClaimFails(w) \/ FinishRaises(w)
    BY <1>3, FateStutters DEF TakeAttempt, ClaimFails, FinishRaises, durable, authority
<1> QED
    BY <1>1, <1>2, <1>3 DEF DispatchStep

\* A step of a submission is a step of the promise, or none of its own.
LEMMA SubmitKeepsPromise ==
    ASSUME DispatchInvariant, NEW p \in Submitters, SubmitStep(p)
    PROVE  Promise!Next \/ UNCHANGED <<Fates, Lives>>
<1>a. TypeOK /\ (pc[p] \in Claimed => KeyNow(p) \in Keys)
    BY KeyHeld DEF DispatchInvariant
<1>1. CASE Posts(p)
    BY <1>1, FateSends, FateDesks
<1>2. CASE Checkpoints(p)
  <2>1. KeyNow(p) \in Keys /\ posted[KeyNow(p)] = 0
    BY <1>2, <1>a DEF Checkpoints, Claimed, Attempting, DispatchInvariant, ReservationHeld
  <2>2. \A k \in Keys : posted[k] > 0 => ledger'[k].seal = ledger[k].seal
    BY <1>2, <1>a, <2>1 DEF Checkpoints, TypeOK
  <2> QED
    BY <1>2, <2>2, FateSettles DEF Checkpoints, authority
<1>3. CASE Settles(p)
  <2>1. \A k \in Keys : ledger'[k].seal = ledger[k].seal
    BY <1>3, <1>a DEF Settles, TypeOK
  <2> QED
    BY <1>3, <2>1, FateSettles DEF Settles, authority
<1>4. CASE ~(Posts(p) \/ Checkpoints(p) \/ Settles(p))
  <2>1. UNCHANGED <<rows, ledger, posted, life, epoch>>
    BY <1>4 DEF SubmitStep, GateRefuses, GateDuplicate, GateAllows, GateRaises,
                CheckpointExists, CheckpointFails, FenceRefuses, FenceChecks, PostReturns,
                SettleFails, durable, authority
  <2> QED
    BY <2>1, FateStutters
<1> QED
    BY <1>1, <1>2, <1>3, <1>4

\* A control command is a step of the promise, or none of its own.
LEMMA ControlKeepsPromise ==
    ASSUME DispatchInvariant, ControlStep
    PROVE  Promise!Next \/ UNCHANGED <<Fates, Lives>>
<1>1. CASE UNCHANGED <<rows, ledger, posted, life, epoch>>
    BY <1>1, FateStutters
<1>2. CASE UNCHANGED <<rows, ledger, posted, life>> /\ epoch' = epoch + 1
    BY <1>2, FateInvalidates DEF DispatchInvariant, Promise!Next
<1> QED
    BY <1>1, <1>2
       DEF ControlStep, ControlAsked, MutationBegins, MutationEnds, StopPublishes,
           StopChangesMode, StopEnds, EntriesReopen, Publishes, Retires, durable, authority

\* Every step is a step of the promise, or none of its own.
LEMMA PromiseStep ==
    ASSUME DispatchInvariant, [Next]_vars
    PROVE  Promise!Next \/ UNCHANGED <<Fates, Lives>>
<1>1. CASE \E w \in Workers : CycleStep(w) \/ DispatchStep(w)
    BY <1>1, CycleKeepsPromise, DispatchKeepsPromise
<1>2. CASE ControlStep
    BY <1>2, ControlKeepsPromise
<1>3. CASE ReconcileReads
    BY <1>3, FateStutters DEF ReconcileReads, durable, authority
<1>4. CASE ReconcileCloses
    BY <1>4, FateReconciles DEF DispatchInvariant
<1>5. CASE Crash
    BY <1>5, FateRestarts DEF DispatchInvariant, Promise!Next
<1>6. CASE \E p \in Submitters : SubmitStep(p)
    BY <1>6, SubmitKeepsPromise
<1>7. CASE \E d \in Desks : DeskAnswered(d) \/ \E k \in Keys : DeskAsks(d, k)
    BY <1>7, FateStutters DEF DeskAnswered, DeskAsks, durable, authority
<1>8. CASE UNCHANGED vars
    BY <1>8, FateStutters DEF vars, durable, authority
<1> QED
    BY <1>1, <1>2, <1>3, <1>4, <1>5, <1>6, <1>7, <1>8 DEF Next

(* The dispatch implements what it promises: a queued order is sent at most  *)
(* once, by the process that queued it, with no control in between, and      *)
(* never beside another order of its key.                                    *)
THEOREM DispatchKeepsItsPromise == Spec => KeepsPromise
<1>1. Init => Promise!Init
    BY PromiseInit
<1>2. DispatchInvariant /\ [Next]_vars =>
        [Promise!Next]_<<[c \in Commands |-> FateOf(c)],
                         {c \in Commands : FateOf(c) = "pending" /\ rows[c].epoch = epoch}>>
    BY PromiseStep DEF Fates, Lives
<1> QED
    BY <1>1, <1>2, Invariant, PTL DEF Spec, KeepsPromise, Promise!Spec

=============================================================================
