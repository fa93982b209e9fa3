------------------------ MODULE NativeBoundaryProofs ------------------------
(***************************************************************************)
(* Proofs about NativeBoundary.  A signal is sent once, at the open it     *)
(* waited for and by the process that staged it; none outlives an open of  *)
(* its stream; and an exception leaves nothing behind that is sent later,  *)
(* however the rows come, whatever fails and wherever the program ends.    *)
(***************************************************************************)
EXTENDS NativeBoundary, TLAPS

-----------------------------------------------------------------------------
(* The inductive invariant, action by action.                              *)

\* A worker that holds no open has a boundary of the declared type.
LEMMA NoBoundaryTyped ==
    NoBoundary \in [stream : Streams \cup {NoSignal}, start : Nat, seen : Nat,
                    sound : BOOLEAN]
BY DEF NoBoundary

\* Nothing is in a batch between two cycles, so a deployment that starts or stops
\* takes no order with it.
LEMMA ServesKeeps ==
    ASSUME BoundaryInvariant, NEW some \in Deployments \cup {{}}, Serves(some)
    PROVE  BoundaryInvariant'
<1>1. TypeOK'
  BY SignalsTyped DEF BoundaryInvariant, TypeOK, Places, InRelease,
     Dispatching, RowStates, IntentStates, Serves, durable, cycle
<1>2. HandHeld'
  BY SignalsTyped DEF BoundaryInvariant, TypeOK, HandHeld, StreamHeld,
     BatchHeld, UnsentHeld, Waiting, Foreign, Eligible, Timely, InRelease,
     Dispatching, Serves, durable, cycle
<1>3. StreamHeld'
  BY SignalsTyped DEF BoundaryInvariant, TypeOK, HandHeld, StreamHeld,
     Waiting, Foreign, InRelease, Dispatching, Serves, durable, cycle
<1>4. BatchHeld'
  BY DEF BoundaryInvariant, TypeOK, HandHeld, BatchHeld, Eligible, Timely,
     Dispatching, Serves, durable, cycle
<1>5. UnsentHeld'
  BY DEF BoundaryInvariant, TypeOK, HandHeld, StreamHeld, BatchHeld,
     UnsentHeld, Waiting, Absent, Serves, durable, cycle
<1>6. SentOnce'
  BY DEF BoundaryInvariant, TypeOK, HandHeld, BatchHeld, SentOnce, Serves,
     durable, cycle
<1> QED
  BY <1>1, <1>2, <1>3, <1>4, <1>5, <1>6 DEF BoundaryInvariant

\* A signal is staged between two cycles only, and onto an absent row.
LEMMA StagesKeeps ==
    ASSUME BoundaryInvariant, NEW x \in Signals, Stages(x)
    PROVE  BoundaryInvariant'
<1>1. TypeOK'
  BY SignalsTyped DEF BoundaryInvariant, TypeOK, Places, InRelease,
     Dispatching, RowStates, IntentStates, Stages, cycle
<1>2. HandHeld'
  BY SignalsTyped DEF BoundaryInvariant, TypeOK, HandHeld, StreamHeld,
     BatchHeld, UnsentHeld, Waiting, Foreign, Eligible, Timely, InRelease,
     Dispatching, Stages, cycle, Absent
<1>3. StreamHeld'
  BY SignalsTyped DEF BoundaryInvariant, TypeOK, HandHeld, StreamHeld,
     Waiting, Foreign, InRelease, Dispatching, Stages, cycle, Absent
<1>4. BatchHeld'
  BY SignalsTyped DEF BoundaryInvariant, TypeOK, HandHeld, BatchHeld,
     Eligible, Timely, Dispatching, Stages, cycle, Absent
<1>5. UnsentHeld'
  BY SignalsTyped DEF BoundaryInvariant, TypeOK, HandHeld, StreamHeld,
     BatchHeld, UnsentHeld, Waiting, Absent, Stages, cycle
<1>6. SentOnce'
  BY SignalsTyped DEF BoundaryInvariant, TypeOK, HandHeld, BatchHeld,
     SentOnce, Stages, cycle
<1> QED
  BY <1>1, <1>2, <1>3, <1>4, <1>5, <1>6 DEF BoundaryInvariant

\* An open is taken up between two cycles, with nothing left of the last one.
LEMMA BoundaryObservedKeeps ==
    ASSUME BoundaryInvariant, NEW stream \in Streams, NEW start \in Opens,
           NEW sound \in BOOLEAN, BoundaryObserved(stream, start, sound)
    PROVE  BoundaryInvariant'
<1>1. TypeOK'
  BY SignalsTyped DEF BoundaryInvariant, TypeOK, Places, InRelease,
     Dispatching, RowStates, IntentStates, BoundaryObserved, Opens, durable
<1>2. HandHeld'
  BY SignalsTyped DEF BoundaryInvariant, TypeOK, HandHeld, StreamHeld,
     BatchHeld, UnsentHeld, Waiting, Foreign, Eligible, Timely, InRelease,
     Dispatching, BoundaryObserved, Opens, durable
<1>3. StreamHeld'
  BY SignalsTyped DEF BoundaryInvariant, TypeOK, HandHeld, StreamHeld,
     Waiting, Foreign, InRelease, Dispatching, BoundaryObserved, Opens,
     durable
<1>4. BatchHeld'
  BY SignalsTyped DEF BoundaryInvariant, TypeOK, HandHeld, BatchHeld,
     Eligible, Timely, Dispatching, BoundaryObserved, Opens, durable
<1>5. UnsentHeld'
  BY SignalsTyped DEF BoundaryInvariant, TypeOK, HandHeld, StreamHeld,
     BatchHeld, UnsentHeld, Waiting, Absent, BoundaryObserved, Opens,
     durable
<1>6. SentOnce'
  BY SignalsTyped DEF BoundaryInvariant, TypeOK, HandHeld, BatchHeld,
     SentOnce, BoundaryObserved, Opens, durable
<1> QED
  BY <1>1, <1>2, <1>3, <1>4, <1>5, <1>6 DEF BoundaryInvariant

\* An open that is left alone is forgotten, and no row with it.
LEMMA LeavesOpenKeeps ==
    ASSUME BoundaryInvariant, LeavesOpen
    PROVE  BoundaryInvariant'
<1>1. TypeOK'
  BY SignalsTyped, NoBoundaryTyped DEF BoundaryInvariant, TypeOK, Places,
     InRelease, Dispatching, RowStates, IntentStates, LeavesOpen, Returns,
     durable
<1>2. HandHeld'
  BY SignalsTyped DEF BoundaryInvariant, TypeOK, HandHeld, StreamHeld,
     BatchHeld, UnsentHeld, Waiting, Foreign, Eligible, Timely, InRelease,
     Dispatching, LeavesOpen, Returns, NoBoundary, durable
<1>3. StreamHeld'
  BY SignalsTyped DEF BoundaryInvariant, TypeOK, HandHeld, StreamHeld,
     Waiting, Foreign, InRelease, Dispatching, LeavesOpen, Returns,
     NoBoundary, durable
<1>4. BatchHeld'
  BY DEF BoundaryInvariant, TypeOK, HandHeld, BatchHeld, Eligible, Timely,
     Dispatching, LeavesOpen, Returns, NoBoundary, durable
<1>5. UnsentHeld'
  BY DEF BoundaryInvariant, TypeOK, HandHeld, StreamHeld, BatchHeld,
     UnsentHeld, Waiting, Absent, LeavesOpen, Returns, NoBoundary, durable
<1>6. SentOnce'
  BY DEF BoundaryInvariant, TypeOK, HandHeld, BatchHeld, SentOnce,
     LeavesOpen, Returns, NoBoundary, durable
<1> QED
  BY <1>1, <1>2, <1>3, <1>4, <1>5, <1>6 DEF BoundaryInvariant

\* Release reads every waiting row of the stream: from here on none is overlooked.
LEMMA ReleaseReadsKeeps ==
    ASSUME BoundaryInvariant, ReleaseReads
    PROVE  BoundaryInvariant'
<1>1. TypeOK'
  BY SignalsTyped DEF BoundaryInvariant, TypeOK, Places, InRelease,
     Dispatching, RowStates, IntentStates, ReleaseReads, durable
<1>2. HandHeld'
  BY SignalsTyped DEF BoundaryInvariant, TypeOK, HandHeld, StreamHeld,
     BatchHeld, UnsentHeld, Waiting, Foreign, Eligible, Timely, InRelease,
     Dispatching, ReleaseReads, durable
<1>3. StreamHeld'
  BY SignalsTyped DEF BoundaryInvariant, TypeOK, HandHeld, StreamHeld,
     Waiting, Foreign, InRelease, Dispatching, ReleaseReads, durable
<1>4. BatchHeld'
  BY DEF BoundaryInvariant, TypeOK, HandHeld, BatchHeld, Eligible, Timely,
     Dispatching, ReleaseReads, durable
<1>5. UnsentHeld'
  BY DEF BoundaryInvariant, TypeOK, HandHeld, StreamHeld, BatchHeld,
     UnsentHeld, Waiting, Absent, ReleaseReads, durable
<1>6. SentOnce'
  BY DEF BoundaryInvariant, TypeOK, HandHeld, BatchHeld, SentOnce,
     ReleaseReads, durable
<1> QED
  BY <1>1, <1>2, <1>3, <1>4, <1>5, <1>6 DEF BoundaryInvariant

\* A row of an earlier process ends the release before it is touched.
LEMMA MeetsForeignKeeps ==
    ASSUME BoundaryInvariant, NEW x \in Signals, MeetsForeign(x)
    PROVE  BoundaryInvariant'
<1>1. TypeOK'
  BY SignalsTyped DEF BoundaryInvariant, TypeOK, Places, InRelease,
     Dispatching, RowStates, IntentStates, MeetsForeign, Reached, durable,
     cycle
<1>2. HandHeld'
  BY SignalsTyped DEF BoundaryInvariant, TypeOK, HandHeld, StreamHeld,
     BatchHeld, UnsentHeld, Waiting, Foreign, Eligible, Timely, InRelease,
     Dispatching, MeetsForeign, Reached, durable, cycle
<1>3. StreamHeld'
  BY SignalsTyped DEF BoundaryInvariant, TypeOK, HandHeld, StreamHeld,
     Waiting, Foreign, InRelease, Dispatching, MeetsForeign, Reached,
     durable, cycle
<1>4. BatchHeld'
  BY DEF BoundaryInvariant, TypeOK, HandHeld, BatchHeld, Eligible, Timely,
     Dispatching, MeetsForeign, Reached, durable, cycle
<1>5. UnsentHeld'
  BY DEF BoundaryInvariant, TypeOK, HandHeld, StreamHeld, BatchHeld,
     UnsentHeld, Waiting, Absent, MeetsForeign, Reached, durable, cycle
<1>6. SentOnce'
  BY DEF BoundaryInvariant, TypeOK, HandHeld, BatchHeld, SentOnce,
     MeetsForeign, Reached, durable, cycle
<1> QED
  BY <1>1, <1>2, <1>3, <1>4, <1>5, <1>6 DEF BoundaryInvariant

\* What is left waiting is of this process and opens later.
LEMMA NotDueYetKeeps ==
    ASSUME BoundaryInvariant, NEW x \in Signals, NotDueYet(x)
    PROVE  BoundaryInvariant'
<1>1. TypeOK'
  BY SignalsTyped DEF BoundaryInvariant, TypeOK, Places, InRelease,
     Dispatching, RowStates, IntentStates, NotDueYet, Reached, durable
<1>2. HandHeld'
  BY SignalsTyped DEF BoundaryInvariant, TypeOK, HandHeld, StreamHeld,
     BatchHeld, UnsentHeld, Waiting, Foreign, Eligible, Timely, InRelease,
     Dispatching, NotDueYet, Reached, durable
<1>3. StreamHeld'
  BY SignalsTyped DEF BoundaryInvariant, TypeOK, HandHeld, StreamHeld,
     Waiting, Foreign, InRelease, Dispatching, NotDueYet, Reached, durable
<1>4. BatchHeld'
  BY DEF BoundaryInvariant, TypeOK, HandHeld, BatchHeld, Eligible, Timely,
     Dispatching, NotDueYet, Reached, durable
<1>5. UnsentHeld'
  BY DEF BoundaryInvariant, TypeOK, HandHeld, StreamHeld, BatchHeld,
     UnsentHeld, Waiting, Absent, NotDueYet, Reached, durable
<1>6. SentOnce'
  BY DEF BoundaryInvariant, TypeOK, HandHeld, BatchHeld, SentOnce,
     NotDueYet, Reached, durable
<1> QED
  BY <1>1, <1>2, <1>3, <1>4, <1>5, <1>6 DEF BoundaryInvariant

\* A row is consumed while nothing was deferred for it yet; what goes on to
\* prepare is eligible.
LEMMA ClaimsKeeps ==
    ASSUME BoundaryInvariant, NEW x \in Signals, Claims(x)
    PROVE  BoundaryInvariant'
<1>1. TypeOK'
  BY SignalsTyped DEF BoundaryInvariant, TypeOK, Places, InRelease,
     Dispatching, RowStates, IntentStates, Claims, Reached
<1>2. HandHeld'
  BY SignalsTyped DEF BoundaryInvariant, TypeOK, HandHeld, StreamHeld,
     BatchHeld, UnsentHeld, Waiting, Foreign, Eligible, Timely, InRelease,
     Dispatching, Claims, Reached
<1>3. StreamHeld'
  BY SignalsTyped DEF BoundaryInvariant, TypeOK, HandHeld, StreamHeld,
     Waiting, Foreign, InRelease, Dispatching, Claims, Reached
<1>4. BatchHeld'
  BY SignalsTyped DEF BoundaryInvariant, TypeOK, HandHeld, BatchHeld,
     Eligible, Timely, Dispatching, Claims, Reached, StreamHeld, Waiting
<1>5. UnsentHeld'
  BY SignalsTyped DEF BoundaryInvariant, TypeOK, HandHeld, StreamHeld,
     BatchHeld, UnsentHeld, Waiting, Absent, Claims, Reached
<1>6. SentOnce'
  BY SignalsTyped DEF BoundaryInvariant, TypeOK, HandHeld, BatchHeld,
     SentOnce, Claims, Reached
<1> QED
  BY <1>1, <1>2, <1>3, <1>4, <1>5, <1>6 DEF BoundaryInvariant

\* The order in hand is of the open at hand, and its first.
LEMMA PreparesKeeps ==
    ASSUME BoundaryInvariant, Prepares
    PROVE  BoundaryInvariant'
<1>1. TypeOK'
  BY SignalsTyped DEF BoundaryInvariant, TypeOK, Places, InRelease,
     Dispatching, RowStates, IntentStates, Prepares, cycle, HandHeld
<1>2. HandHeld'
  BY SignalsTyped DEF BoundaryInvariant, TypeOK, HandHeld, StreamHeld,
     BatchHeld, UnsentHeld, Waiting, Foreign, Eligible, Timely, InRelease,
     Dispatching, Prepares, cycle
<1>3. StreamHeld'
  BY SignalsTyped DEF BoundaryInvariant, TypeOK, HandHeld, StreamHeld,
     Waiting, Foreign, InRelease, Dispatching, Prepares, cycle
<1>4. BatchHeld'
  BY DEF BoundaryInvariant, TypeOK, HandHeld, BatchHeld, Eligible, Timely,
     Dispatching, Prepares, cycle, UnsentHeld
<1>5. UnsentHeld'
  BY DEF BoundaryInvariant, TypeOK, HandHeld, StreamHeld, BatchHeld,
     UnsentHeld, Waiting, Absent, Prepares, cycle
<1>6. SentOnce'
  BY DEF BoundaryInvariant, TypeOK, HandHeld, BatchHeld, SentOnce, Prepares,
     cycle
<1> QED
  BY <1>1, <1>2, <1>3, <1>4, <1>5, <1>6 DEF BoundaryInvariant

\* A dry run consumes its row and defers nothing.
LEMMA PreparesDryKeeps ==
    ASSUME BoundaryInvariant, PreparesDry
    PROVE  BoundaryInvariant'
<1>1. TypeOK'
  BY SignalsTyped DEF BoundaryInvariant, TypeOK, Places, InRelease,
     Dispatching, RowStates, IntentStates, PreparesDry, durable, cycle
<1>2. HandHeld'
  BY SignalsTyped DEF BoundaryInvariant, TypeOK, HandHeld, StreamHeld,
     BatchHeld, UnsentHeld, Waiting, Foreign, Eligible, Timely, InRelease,
     Dispatching, PreparesDry, durable, cycle
<1>3. StreamHeld'
  BY SignalsTyped DEF BoundaryInvariant, TypeOK, HandHeld, StreamHeld,
     Waiting, Foreign, InRelease, Dispatching, PreparesDry, durable,
     cycle
<1>4. BatchHeld'
  BY DEF BoundaryInvariant, TypeOK, HandHeld, BatchHeld, Eligible, Timely,
     Dispatching, PreparesDry, durable, cycle
<1>5. UnsentHeld'
  BY DEF BoundaryInvariant, TypeOK, HandHeld, StreamHeld, BatchHeld,
     UnsentHeld, Waiting, Absent, PreparesDry, durable, cycle
<1>6. SentOnce'
  BY DEF BoundaryInvariant, TypeOK, HandHeld, BatchHeld, SentOnce,
     PreparesDry, durable, cycle
<1> QED
  BY <1>1, <1>2, <1>3, <1>4, <1>5, <1>6 DEF BoundaryInvariant

\* A refused signal has its row consumed and no order.
LEMMA PrepareRefusesKeeps ==
    ASSUME BoundaryInvariant, PrepareRefuses
    PROVE  BoundaryInvariant'
<1>1. TypeOK'
  BY SignalsTyped DEF BoundaryInvariant, TypeOK, Places, InRelease,
     Dispatching, RowStates, IntentStates, PrepareRefuses, durable, cycle
<1>2. HandHeld'
  BY SignalsTyped DEF BoundaryInvariant, TypeOK, HandHeld, StreamHeld,
     BatchHeld, UnsentHeld, Waiting, Foreign, Eligible, Timely, InRelease,
     Dispatching, PrepareRefuses, durable, cycle
<1>3. StreamHeld'
  BY SignalsTyped DEF BoundaryInvariant, TypeOK, HandHeld, StreamHeld,
     Waiting, Foreign, InRelease, Dispatching, PrepareRefuses, durable,
     cycle
<1>4. BatchHeld'
  BY DEF BoundaryInvariant, TypeOK, HandHeld, BatchHeld, Eligible, Timely,
     Dispatching, PrepareRefuses, durable, cycle
<1>5. UnsentHeld'
  BY DEF BoundaryInvariant, TypeOK, HandHeld, StreamHeld, BatchHeld,
     UnsentHeld, Waiting, Absent, PrepareRefuses, durable, cycle
<1>6. SentOnce'
  BY DEF BoundaryInvariant, TypeOK, HandHeld, BatchHeld, SentOnce,
     PrepareRefuses, durable, cycle
<1> QED
  BY <1>1, <1>2, <1>3, <1>4, <1>5, <1>6 DEF BoundaryInvariant

\* A row is recorded as prepared or as blocked; one with an order in the batch is
\* prepared.
LEMMA RecordsKeeps ==
    ASSUME BoundaryInvariant, Records
    PROVE  BoundaryInvariant'
<1>1. TypeOK'
  BY SignalsTyped DEF BoundaryInvariant, TypeOK, Places, InRelease,
     Dispatching, RowStates, IntentStates, Records, cycle, HandHeld
<1>2. HandHeld'
  BY SignalsTyped DEF BoundaryInvariant, TypeOK, HandHeld, StreamHeld,
     BatchHeld, UnsentHeld, Waiting, Foreign, Eligible, Timely, InRelease,
     Dispatching, Records, cycle
<1>3. StreamHeld'
  BY SignalsTyped DEF BoundaryInvariant, TypeOK, HandHeld, StreamHeld,
     Waiting, Foreign, InRelease, Dispatching, Records, cycle
<1>4. BatchHeld'
  BY DEF BoundaryInvariant, TypeOK, HandHeld, BatchHeld, Eligible, Timely,
     Dispatching, Records, cycle
<1>5. UnsentHeld'
  BY DEF BoundaryInvariant, TypeOK, HandHeld, StreamHeld, BatchHeld,
     UnsentHeld, Waiting, Absent, Records, cycle
<1>6. SentOnce'
  BY DEF BoundaryInvariant, TypeOK, HandHeld, BatchHeld, SentOnce, Records,
     cycle
<1> QED
  BY <1>1, <1>2, <1>3, <1>4, <1>5, <1>6 DEF BoundaryInvariant

\* A release ends with no row of its stream left unseen.
LEMMA ReleaseEndsKeeps ==
    ASSUME BoundaryInvariant, ReleaseEnds
    PROVE  BoundaryInvariant'
<1>1. TypeOK'
  BY SignalsTyped DEF BoundaryInvariant, TypeOK, Places, InRelease,
     Dispatching, RowStates, IntentStates, ReleaseEnds, durable, cycle
<1>2. HandHeld'
  BY SignalsTyped DEF BoundaryInvariant, TypeOK, HandHeld, StreamHeld,
     BatchHeld, UnsentHeld, Waiting, Foreign, Eligible, Timely, InRelease,
     Dispatching, ReleaseEnds, durable, cycle
<1>3. StreamHeld'
  BY SignalsTyped DEF BoundaryInvariant, TypeOK, HandHeld, StreamHeld,
     Waiting, Foreign, InRelease, Dispatching, ReleaseEnds, durable, cycle
<1>4. BatchHeld'
  BY DEF BoundaryInvariant, TypeOK, HandHeld, BatchHeld, Eligible, Timely,
     Dispatching, ReleaseEnds, durable, cycle
<1>5. UnsentHeld'
  BY DEF BoundaryInvariant, TypeOK, HandHeld, StreamHeld, BatchHeld,
     UnsentHeld, Waiting, Absent, ReleaseEnds, durable, cycle
<1>6. SentOnce'
  BY DEF BoundaryInvariant, TypeOK, HandHeld, BatchHeld, SentOnce,
     ReleaseEnds, durable, cycle
<1> QED
  BY <1>1, <1>2, <1>3, <1>4, <1>5, <1>6 DEF BoundaryInvariant

\* The batch goes to dispatch as it is, or there is none and the open is forgotten.
LEMMA CycleEndsKeeps ==
    ASSUME BoundaryInvariant, CycleEnds
    PROVE  BoundaryInvariant'
<1>1. TypeOK'
  BY SignalsTyped, NoBoundaryTyped DEF BoundaryInvariant, TypeOK, Places,
     InRelease, Dispatching, RowStates, IntentStates, CycleEnds, Returns,
     durable
<1>2. HandHeld'
  BY SignalsTyped DEF BoundaryInvariant, TypeOK, HandHeld, StreamHeld,
     BatchHeld, UnsentHeld, Waiting, Foreign, Eligible, Timely, InRelease,
     Dispatching, CycleEnds, Returns, NoBoundary, durable
<1>3. StreamHeld'
  BY SignalsTyped DEF BoundaryInvariant, TypeOK, HandHeld, StreamHeld,
     Waiting, Foreign, InRelease, Dispatching, CycleEnds, Returns,
     NoBoundary, durable
<1>4. BatchHeld'
  BY DEF BoundaryInvariant, TypeOK, HandHeld, BatchHeld, Eligible, Timely,
     Dispatching, CycleEnds, Returns, NoBoundary, durable
<1>5. UnsentHeld'
  BY DEF BoundaryInvariant, TypeOK, HandHeld, StreamHeld, BatchHeld,
     UnsentHeld, Waiting, Absent, CycleEnds, Returns, NoBoundary, durable
<1>6. SentOnce'
  BY DEF BoundaryInvariant, TypeOK, HandHeld, BatchHeld, SentOnce,
     CycleEnds, Returns, NoBoundary, durable
<1> QED
  BY <1>1, <1>2, <1>3, <1>4, <1>5, <1>6 DEF BoundaryInvariant

\* An exception is not handled where it is raised: the rows stay as they are.
LEMMA CycleRaisesKeeps ==
    ASSUME BoundaryInvariant, CycleRaises
    PROVE  BoundaryInvariant'
<1>1. TypeOK'
  BY SignalsTyped DEF BoundaryInvariant, TypeOK, Places, InRelease,
     Dispatching, RowStates, IntentStates, CycleRaises, Fault, durable,
     cycle
<1>2. HandHeld'
  BY SignalsTyped DEF BoundaryInvariant, TypeOK, HandHeld, StreamHeld,
     BatchHeld, UnsentHeld, Waiting, Foreign, Eligible, Timely, InRelease,
     Dispatching, CycleRaises, Fault, durable, cycle
<1>3. StreamHeld'
  BY SignalsTyped DEF BoundaryInvariant, TypeOK, HandHeld, StreamHeld,
     Waiting, Foreign, InRelease, Dispatching, CycleRaises, Fault, durable,
     cycle
<1>4. BatchHeld'
  BY DEF BoundaryInvariant, TypeOK, HandHeld, BatchHeld, Eligible, Timely,
     Dispatching, CycleRaises, Fault, durable, cycle
<1>5. UnsentHeld'
  BY DEF BoundaryInvariant, TypeOK, HandHeld, StreamHeld, BatchHeld,
     UnsentHeld, Waiting, Absent, CycleRaises, Fault, durable, cycle
<1>6. SentOnce'
  BY DEF BoundaryInvariant, TypeOK, HandHeld, BatchHeld, SentOnce,
     CycleRaises, Fault, durable, cycle
<1> QED
  BY <1>1, <1>2, <1>3, <1>4, <1>5, <1>6 DEF BoundaryInvariant

\* After an exception no order is in the batch, closed in the journal or not.
LEMMA AbortsKeeps ==
    ASSUME BoundaryInvariant, Aborts
    PROVE  BoundaryInvariant'
<1>1. TypeOK'
  BY SignalsTyped, NoBoundaryTyped DEF BoundaryInvariant, TypeOK, Places,
     InRelease, Dispatching, RowStates, IntentStates, Aborts, Fault,
     DropsBatch, Returns
<1>2. HandHeld'
  BY SignalsTyped DEF BoundaryInvariant, TypeOK, HandHeld, StreamHeld,
     BatchHeld, UnsentHeld, Waiting, Foreign, Eligible, Timely, InRelease,
     Dispatching, Aborts, Fault, DropsBatch, Returns, NoBoundary
<1>3. StreamHeld'
  BY SignalsTyped DEF BoundaryInvariant, TypeOK, HandHeld, StreamHeld,
     Waiting, Foreign, InRelease, Dispatching, Aborts, Fault, DropsBatch,
     Returns, NoBoundary
<1>4. BatchHeld'
  BY DEF BoundaryInvariant, TypeOK, HandHeld, BatchHeld, Eligible, Timely,
     Dispatching, Aborts, Fault, DropsBatch, Returns, NoBoundary
<1>5. UnsentHeld'
  BY DEF BoundaryInvariant, TypeOK, HandHeld, StreamHeld, BatchHeld,
     UnsentHeld, Waiting, Absent, Aborts, Fault, DropsBatch, Returns,
     NoBoundary
<1>6. SentOnce'
  BY DEF BoundaryInvariant, TypeOK, HandHeld, BatchHeld, SentOnce, Aborts,
     Fault, DropsBatch, Returns, NoBoundary
<1> QED
  BY <1>1, <1>2, <1>3, <1>4, <1>5, <1>6 DEF BoundaryInvariant

\* An order is dispatched while its row says that it was prepared.
LEMMA DispatchesKeeps ==
    ASSUME BoundaryInvariant, NEW x \in Signals, Dispatches(x)
    PROVE  BoundaryInvariant'
<1>1. TypeOK'
  BY SignalsTyped DEF BoundaryInvariant, TypeOK, Places, InRelease,
     Dispatching, RowStates, IntentStates, Dispatches, cycle
<1>2. HandHeld'
  BY SignalsTyped DEF BoundaryInvariant, TypeOK, HandHeld, StreamHeld,
     BatchHeld, UnsentHeld, Waiting, Foreign, Eligible, Timely, InRelease,
     Dispatching, Dispatches, cycle
<1>3. StreamHeld'
  BY SignalsTyped DEF BoundaryInvariant, TypeOK, HandHeld, StreamHeld,
     Waiting, Foreign, InRelease, Dispatching, Dispatches, cycle
<1>4. BatchHeld'
  BY DEF BoundaryInvariant, TypeOK, HandHeld, BatchHeld, Eligible, Timely,
     Dispatching, Dispatches, cycle
<1>5. UnsentHeld'
  BY DEF BoundaryInvariant, TypeOK, HandHeld, StreamHeld, BatchHeld,
     UnsentHeld, Waiting, Absent, Dispatches, cycle
<1>6. SentOnce'
  BY DEF BoundaryInvariant, TypeOK, HandHeld, BatchHeld, SentOnce,
     Dispatches, cycle
<1> QED
  BY <1>1, <1>2, <1>3, <1>4, <1>5, <1>6 DEF BoundaryInvariant

\* A gate that allows changes nothing but the place.
LEMMA GateAllowsKeeps ==
    ASSUME BoundaryInvariant, GateAllows
    PROVE  BoundaryInvariant'
<1>1. TypeOK'
  BY SignalsTyped DEF BoundaryInvariant, TypeOK, Places, InRelease,
     Dispatching, RowStates, IntentStates, GateAllows, durable, cycle
<1>2. HandHeld'
  BY SignalsTyped DEF BoundaryInvariant, TypeOK, HandHeld, StreamHeld,
     BatchHeld, UnsentHeld, Waiting, Foreign, Eligible, Timely, InRelease,
     Dispatching, GateAllows, durable, cycle
<1>3. StreamHeld'
  BY SignalsTyped DEF BoundaryInvariant, TypeOK, HandHeld, StreamHeld,
     Waiting, Foreign, InRelease, Dispatching, GateAllows, durable, cycle
<1>4. BatchHeld'
  BY DEF BoundaryInvariant, TypeOK, HandHeld, BatchHeld, Eligible, Timely,
     Dispatching, GateAllows, durable, cycle
<1>5. UnsentHeld'
  BY DEF BoundaryInvariant, TypeOK, HandHeld, StreamHeld, BatchHeld,
     UnsentHeld, Waiting, Absent, GateAllows, durable, cycle
<1>6. SentOnce'
  BY DEF BoundaryInvariant, TypeOK, HandHeld, BatchHeld, SentOnce,
     GateAllows, durable, cycle
<1> QED
  BY <1>1, <1>2, <1>3, <1>4, <1>5, <1>6 DEF BoundaryInvariant

\* A refused order leaves the batch, unsent.
LEMMA RefusesKeeps ==
    ASSUME BoundaryInvariant, Refuses
    PROVE  BoundaryInvariant'
<1>1. TypeOK'
  BY SignalsTyped, NoBoundaryTyped DEF BoundaryInvariant, TypeOK, Places,
     InRelease, Dispatching, RowStates, IntentStates, Refuses, Closes,
     Returns, HandHeld
<1>2. HandHeld'
  BY SignalsTyped DEF BoundaryInvariant, TypeOK, HandHeld, StreamHeld,
     BatchHeld, UnsentHeld, Waiting, Foreign, Eligible, Timely, InRelease,
     Dispatching, Refuses, Closes, Returns, NoBoundary
<1>3. StreamHeld'
  BY SignalsTyped DEF BoundaryInvariant, TypeOK, HandHeld, StreamHeld,
     Waiting, Foreign, InRelease, Dispatching, Refuses, Closes, Returns,
     NoBoundary
<1>4. BatchHeld'
  BY DEF BoundaryInvariant, TypeOK, HandHeld, BatchHeld, Eligible, Timely,
     Dispatching, Refuses, Closes, Returns, NoBoundary
<1>5. UnsentHeld'
  BY DEF BoundaryInvariant, TypeOK, HandHeld, StreamHeld, BatchHeld,
     UnsentHeld, Waiting, Absent, Refuses, Closes, Returns, NoBoundary
<1>6. SentOnce'
  BY DEF BoundaryInvariant, TypeOK, HandHeld, BatchHeld, SentOnce, Refuses,
     Closes, Returns, NoBoundary
<1> QED
  BY <1>1, <1>2, <1>3, <1>4, <1>5, <1>6 DEF BoundaryInvariant

\* The order that is sent is in the batch, hence unsent so far, and leaves it.
LEMMA PostsKeeps ==
    ASSUME BoundaryInvariant, Posts
    PROVE  BoundaryInvariant'
<1>1. TypeOK'
  BY SignalsTyped, NoBoundaryTyped DEF BoundaryInvariant, TypeOK, Places,
     InRelease, Dispatching, RowStates, IntentStates, Posts, Closes,
     Returns, HandHeld
<1>2. HandHeld'
  BY SignalsTyped DEF BoundaryInvariant, TypeOK, HandHeld, StreamHeld,
     BatchHeld, UnsentHeld, Waiting, Foreign, Eligible, Timely, InRelease,
     Dispatching, Posts, Closes, Returns, NoBoundary
<1>3. StreamHeld'
  BY SignalsTyped DEF BoundaryInvariant, TypeOK, HandHeld, StreamHeld,
     Waiting, Foreign, InRelease, Dispatching, Posts, Closes, Returns,
     NoBoundary
<1>4. BatchHeld'
  BY DEF BoundaryInvariant, TypeOK, HandHeld, BatchHeld, Eligible, Timely,
     Dispatching, Posts, Closes, Returns, NoBoundary
<1>5. UnsentHeld'
  BY DEF BoundaryInvariant, TypeOK, HandHeld, StreamHeld, BatchHeld,
     UnsentHeld, Waiting, Absent, Posts, Closes, Returns, NoBoundary
<1>6. SentOnce'
  BY DEF BoundaryInvariant, TypeOK, HandHeld, BatchHeld, SentOnce, Posts,
     Closes, Returns, NoBoundary
<1> QED
  BY <1>1, <1>2, <1>3, <1>4, <1>5, <1>6 DEF BoundaryInvariant

\* A control makes orders stale and moves none.
LEMMA ControlBeginsKeeps ==
    ASSUME BoundaryInvariant, ControlBegins
    PROVE  BoundaryInvariant'
<1>1. TypeOK'
  BY SignalsTyped DEF BoundaryInvariant, TypeOK, Places, InRelease,
     Dispatching, RowStates, IntentStates, ControlBegins, durable, cycle
<1>2. HandHeld'
  BY SignalsTyped DEF BoundaryInvariant, TypeOK, HandHeld, StreamHeld,
     BatchHeld, UnsentHeld, Waiting, Foreign, Eligible, Timely, InRelease,
     Dispatching, ControlBegins, durable, cycle
<1>3. StreamHeld'
  BY SignalsTyped DEF BoundaryInvariant, TypeOK, HandHeld, StreamHeld,
     Waiting, Foreign, InRelease, Dispatching, ControlBegins, durable, cycle
<1>4. BatchHeld'
  BY DEF BoundaryInvariant, TypeOK, HandHeld, BatchHeld, Eligible, Timely,
     Dispatching, ControlBegins, durable, cycle
<1>5. UnsentHeld'
  BY DEF BoundaryInvariant, TypeOK, HandHeld, StreamHeld, BatchHeld,
     UnsentHeld, Waiting, Absent, ControlBegins, durable, cycle
<1>6. SentOnce'
  BY DEF BoundaryInvariant, TypeOK, HandHeld, BatchHeld, SentOnce,
     ControlBegins, durable, cycle
<1> QED
  BY <1>1, <1>2, <1>3, <1>4, <1>5, <1>6 DEF BoundaryInvariant

\* Time alone changes no row: the invariant says nothing of the present instant.
LEMMA TickKeeps ==
    ASSUME BoundaryInvariant, Tick
    PROVE  BoundaryInvariant'
<1>1. TypeOK'
  BY SignalsTyped DEF BoundaryInvariant, TypeOK, Places, InRelease,
     Dispatching, RowStates, IntentStates, Tick, durable, cycle
<1>2. HandHeld'
  BY SignalsTyped DEF BoundaryInvariant, TypeOK, HandHeld, StreamHeld,
     BatchHeld, UnsentHeld, Waiting, Foreign, Eligible, Timely, InRelease,
     Dispatching, Tick, durable, cycle
<1>3. StreamHeld'
  BY SignalsTyped DEF BoundaryInvariant, TypeOK, HandHeld, StreamHeld,
     Waiting, Foreign, InRelease, Dispatching, Tick, durable, cycle
<1>4. BatchHeld'
  BY DEF BoundaryInvariant, TypeOK, HandHeld, BatchHeld, Eligible, Timely,
     Dispatching, Tick, durable, cycle
<1>5. UnsentHeld'
  BY DEF BoundaryInvariant, TypeOK, HandHeld, StreamHeld, BatchHeld,
     UnsentHeld, Waiting, Absent, Tick, durable, cycle
<1>6. SentOnce'
  BY DEF BoundaryInvariant, TypeOK, HandHeld, BatchHeld, SentOnce, Tick,
     durable, cycle
<1> QED
  BY <1>1, <1>2, <1>3, <1>4, <1>5, <1>6 DEF BoundaryInvariant

\* What a crash forgets was not sent; the next process owns no row.
LEMMA CrashKeeps ==
    ASSUME BoundaryInvariant, Crash
    PROVE  BoundaryInvariant'
<1>1. TypeOK'
  BY SignalsTyped, NoBoundaryTyped DEF BoundaryInvariant, TypeOK, Places,
     InRelease, Dispatching, RowStates, IntentStates, Crash, DropsBatch,
     Returns, durable
<1>2. HandHeld'
  BY SignalsTyped DEF BoundaryInvariant, TypeOK, HandHeld, StreamHeld,
     BatchHeld, UnsentHeld, Waiting, Foreign, Eligible, Timely, InRelease,
     Dispatching, Crash, DropsBatch, Returns, NoBoundary, durable
<1>3. StreamHeld'
  BY SignalsTyped DEF BoundaryInvariant, TypeOK, HandHeld, StreamHeld,
     Waiting, Foreign, InRelease, Dispatching, Crash, DropsBatch, Returns,
     NoBoundary, durable
<1>4. BatchHeld'
  BY DEF BoundaryInvariant, TypeOK, HandHeld, BatchHeld, Eligible, Timely,
     Dispatching, Crash, DropsBatch, Returns, NoBoundary, durable
<1>5. UnsentHeld'
  BY DEF BoundaryInvariant, TypeOK, HandHeld, StreamHeld, BatchHeld,
     UnsentHeld, Waiting, Absent, Crash, DropsBatch, Returns, NoBoundary,
     durable
<1>6. SentOnce'
  BY DEF BoundaryInvariant, TypeOK, HandHeld, BatchHeld, SentOnce, Crash,
     DropsBatch, Returns, NoBoundary, durable
<1> QED
  BY <1>1, <1>2, <1>3, <1>4, <1>5, <1>6 DEF BoundaryInvariant

-----------------------------------------------------------------------------
(* The theorems.                                                           *)

\* Nothing is staged at the start.
LEMMA InitHolds == Init => BoundaryInvariant
<1> SUFFICES ASSUME Init PROVE BoundaryInvariant
  OBVIOUS
<1>1. TypeOK
  BY NoBoundaryTyped DEF Init, TypeOK, Absent, RowStates, IntentStates, Places
<1>2. HandHeld
  BY DEF Init, HandHeld
<1>3. StreamHeld
  BY DEF Init, StreamHeld, InRelease, Dispatching
<1>4. BatchHeld /\ UnsentHeld /\ SentOnce
  BY DEF Init, BatchHeld, UnsentHeld, SentOnce
<1> QED
  BY <1>1, <1>2, <1>3, <1>4 DEF BoundaryInvariant

\* Every step of the worker, of the operator and of the clock keeps the invariant.
LEMMA NextKeeps == BoundaryInvariant /\ [Next]_vars => BoundaryInvariant'
<1> SUFFICES ASSUME BoundaryInvariant, [Next]_vars PROVE BoundaryInvariant'
  OBVIOUS
<1>1. CASE \E some \in Deployments \cup {{}} : Serves(some)
  BY <1>1, ServesKeeps
<1>2. CASE \E stream \in Streams, start \in Opens, sound \in BOOLEAN :
              BoundaryObserved(stream, start, sound)
  BY <1>2, BoundaryObservedKeeps
<1>3. CASE \E s \in Signals : RowStep(s)
  BY <1>3, StagesKeeps, MeetsForeignKeeps, NotDueYetKeeps, ClaimsKeeps,
     DispatchesKeeps DEF RowStep
<1>4. CASE CycleStep
  BY <1>4, LeavesOpenKeeps, ReleaseReadsKeeps, PreparesKeeps,
     PreparesDryKeeps, PrepareRefusesKeeps, RecordsKeeps, ReleaseEndsKeeps, CycleEndsKeeps,
     CycleRaisesKeeps, AbortsKeeps
     DEF CycleStep
<1>5. CASE OrderStep
  BY <1>5, GateAllowsKeeps, RefusesKeeps, PostsKeeps DEF OrderStep
<1>6. CASE ControlBegins \/ Tick \/ Crash
  BY <1>6, ControlBeginsKeeps, TickKeeps, CrashKeeps
<1>7. CASE UNCHANGED vars
  BY <1>7 DEF BoundaryInvariant, TypeOK, HandHeld, StreamHeld, BatchHeld,
     UnsentHeld, SentOnce, Waiting, Foreign, Eligible, Timely, vars, durable,
     cycle
<1> QED
  BY <1>1, <1>2, <1>3, <1>4, <1>5, <1>6, <1>7 DEF Next

\* The rows, the journal, the batch and the broker agree in every state, whatever
\* order the rows come in and wherever an exception or a crash strikes.
THEOREM BoundaryInvariantHolds == Spec => []BoundaryInvariant
<1>1. Init => BoundaryInvariant
  BY InitHolds
<1>2. BoundaryInvariant /\ [Next]_vars => BoundaryInvariant'
  BY NextKeeps
<1> QED
  BY <1>1, <1>2, PTL DEF Spec

\* A signal reaches the broker at most once, restarts and repeated opens included.
THEOREM NoSignalSentTwice == Spec => []SentOnce
<1>1. BoundaryInvariant => SentOnce
  BY DEF BoundaryInvariant
<1> QED
  BY <1>1, BoundaryInvariantHolds, PTL

\* A release leaves nothing of its stream waiting for an open that has passed.
THEOREM NothingMissedWaits == Spec => []NothingOverdue
<1>1. BoundaryInvariant => NothingOverdue
  BY DEF BoundaryInvariant, HandHeld, StreamHeld, NothingOverdue
<1> QED
  BY <1>1, BoundaryInvariantHolds, PTL

-----------------------------------------------------------------------------
(* What a step may never do.                                               *)

\* Only the broker call sends.
LEMMA SendsByPosts ==
    ASSUME BoundaryInvariant, [Next]_vars, NEW s \in Signals, posted'[s] # posted[s]
    PROVE  Posts /\ at = s
<1>1. ~(\E some \in Deployments \cup {{}} : Serves(some))
  BY DEF Serves, durable
<1>2. ~(\E stream \in Streams, start \in Opens, sound \in BOOLEAN :
          BoundaryObserved(stream, start, sound))
  BY DEF BoundaryObserved, durable
<1>3. ~(\E x \in Signals : RowStep(x))
  BY DEF RowStep, Stages, MeetsForeign, NotDueYet, Claims, Dispatches, durable
<1>4. ~CycleStep
  BY DEF CycleStep, LeavesOpen, ReleaseReads, Prepares, PreparesDry,
     PrepareRefuses, Records, ReleaseEnds, CycleEnds, CycleRaises, Aborts, durable
<1>5. ~(GateAllows \/ Refuses \/ ControlBegins \/ Tick \/ Crash)
  BY DEF GateAllows, Refuses, ControlBegins, Tick, Crash, durable
<1>6. Posts
  BY <1>1, <1>2, <1>3, <1>4, <1>5 DEF Next, OrderStep, vars, durable
<1> QED
  BY <1>6 DEF Posts, BoundaryInvariant, TypeOK

\* The order being sent is one of the batch, and what the batch holds is true of it.
LEMMA PostsFromBatch ==
    ASSUME BoundaryInvariant, Posts
    PROVE  /\ at \in batch
           /\ at \in Signals
           /\ at \in served
           /\ StartOf[at] = boundary.start
           /\ StreamOf[at] = boundary.stream
           /\ boundary.sound
           /\ Timely(boundary.seen, boundary.start)
           /\ rows[at] = [state |-> "PREPARED_ONCE", owner |-> life]
<1>1. at \in batch /\ at \in Signals /\ pc = "fence"
  BY DEF Posts, BoundaryInvariant, HandHeld, TypeOK
<1>2. rows[at] \in [state : RowStates, owner : Nat]
  BY <1>1 DEF BoundaryInvariant, TypeOK
<1>3. rows[at].state = "PREPARED_ONCE" /\ rows[at].owner = life
  BY <1>1 DEF BoundaryInvariant, BatchHeld
<1>4. rows[at] = [state |-> "PREPARED_ONCE", owner |-> life]
  BY <1>2, <1>3
<1> QED
  BY <1>1, <1>4 DEF BoundaryInvariant, BatchHeld

\* An order is sent only for the open its signal waited for, within its deadline,
\* by the process that staged it and while its deployment runs.
THEOREM EveryOrderAtItsOpen == Spec => SentAtItsOpen
<1> DEFINE Ok(s) ==
      /\ boundary.stream = StreamOf[s] /\ boundary.start = StartOf[s]
      /\ boundary.sound
      /\ Timely(boundary.seen, StartOf[s])
      /\ Timely(clock, StartOf[s])
      /\ rows[s] = [state |-> "PREPARED_ONCE", owner |-> life]
      /\ s \in served
<1>1. ASSUME BoundaryInvariant, [Next]_vars, NEW s \in Signals,
             posted'[s] # posted[s]
      PROVE  Ok(s)
  <2>1. Posts /\ at = s
    BY <1>1, SendsByPosts
  <2>2. Timely(clock, StartOf[s])
    BY <2>1 DEF Posts, Valid
  <2> QED
    BY <1>1, <2>1, <2>2, PostsFromBatch
<1>2. BoundaryInvariant /\ [Next]_vars =>
        [\A s \in Signals : posted'[s] # posted[s] => Ok(s)]_vars
  BY <1>1
<1> QED
  BY <1>2, BoundaryInvariantHolds, PTL DEF Spec, SentAtItsOpen

\* No later process changes, releases or sends what an earlier one staged.
THEOREM RowsOfTheDeadStay == Spec => OldSignalsStay
<1> DEFINE Kept == \A s \in Signals : rows[s] # Absent /\ Foreign(s) =>
                      rows'[s] = rows[s] /\ posted'[s] = posted[s]
<1>1. ASSUME BoundaryInvariant, [Next]_vars, NEW s \in Signals,
             rows[s] # Absent, Foreign(s)
      PROVE  posted'[s] = posted[s]
  <2>1. SUFFICES ASSUME posted'[s] # posted[s] PROVE FALSE
    OBVIOUS
  <2>2. Posts /\ at = s
    BY <1>1, <2>1, SendsByPosts
  <2> QED
    BY <1>1, <2>2, PostsFromBatch DEF Foreign
<1>2. ASSUME BoundaryInvariant, [Next]_vars, NEW s \in Signals,
             rows[s] # Absent, Foreign(s)
      PROVE  rows'[s] = rows[s]
  <2>1. CASE \E some \in Deployments \cup {{}} : Serves(some)
    BY <2>1 DEF Serves, durable
  <2>2. CASE \E stream \in Streams, start \in Opens, sound \in BOOLEAN :
                BoundaryObserved(stream, start, sound)
    BY <2>2 DEF BoundaryObserved, durable
  <2>3. CASE \E x \in Signals : RowStep(x)
    <3>1. PICK x \in Signals : RowStep(x)
      BY <2>3
    <3>2. CASE Stages(x)
      BY <1>2, <3>2 DEF Stages, BoundaryInvariant, TypeOK
    <3>3. CASE Claims(x)
      BY <1>2, <3>3 DEF Claims, Foreign, BoundaryInvariant, TypeOK
    <3>4. CASE MeetsForeign(x) \/ NotDueYet(x) \/ Dispatches(x)
      BY <3>4 DEF MeetsForeign, NotDueYet, Dispatches, durable
    <3> QED
      BY <3>1, <3>2, <3>3, <3>4 DEF RowStep
  <2>4. CASE CycleStep
    <3>1. CASE Records
      BY <1>2, <3>1 DEF Records, Foreign, BoundaryInvariant, TypeOK, HandHeld
    <3>2. CASE LeavesOpen \/ ReleaseReads \/ Prepares \/ PreparesDry
                 \/ PrepareRefuses \/ ReleaseEnds \/ CycleEnds \/ CycleRaises \/ Aborts
      BY <3>2 DEF LeavesOpen, ReleaseReads, Prepares, PreparesDry, PrepareRefuses, ReleaseEnds,
         CycleEnds, CycleRaises, Aborts, durable
    <3> QED
      BY <2>4, <3>1, <3>2 DEF CycleStep
  <2>5. CASE OrderStep
    BY <2>5 DEF OrderStep, GateAllows, Refuses, Posts, durable
  <2>6. CASE ControlBegins \/ Tick \/ Crash
    BY <2>6 DEF ControlBegins, Tick, Crash, durable
  <2>7. CASE UNCHANGED vars
    BY <2>7 DEF vars, durable
  <2> QED
    BY <1>2, <2>1, <2>2, <2>3, <2>4, <2>5, <2>6, <2>7 DEF Next
<1>3. BoundaryInvariant /\ [Next]_vars => [Kept]_vars
  BY <1>1, <1>2
<1> QED
  BY <1>3, BoundaryInvariantHolds, PTL DEF Spec, OldSignalsStay

\* While a stream holds a waiting row of an earlier process, nothing of that stream
\* is sent.
THEOREM OldSignalsHold == Spec => HeldByOldSignal
<1> DEFINE Held == \A s, c \in Signals :
          posted'[s] # posted[s] /\ StreamOf[c] = StreamOf[s] /\ Waiting(c) =>
              ~Foreign(c)
<1>1. ASSUME BoundaryInvariant, [Next]_vars, NEW s \in Signals, NEW c \in Signals,
             posted'[s] # posted[s], StreamOf[c] = StreamOf[s], Waiting(c)
      PROVE  ~Foreign(c)
  <2>1. Posts /\ at = s
    BY <1>1, SendsByPosts
  <2>2. pc = "fence" /\ StreamOf[s] = boundary.stream /\ todo = {}
    BY <1>1, <2>1, PostsFromBatch DEF Posts, BoundaryInvariant, HandHeld,
       Dispatching
  <2> QED
    BY <1>1, <2>2 DEF BoundaryInvariant, StreamHeld, Dispatching
<1>2. BoundaryInvariant /\ [Next]_vars => [Held]_vars
  BY <1>1
<1> QED
  BY <1>2, BoundaryInvariantHolds, PTL DEF Spec, HeldByOldSignal

\* An exception drops every order of its cycle for good.
THEOREM NoOrderSurvivesFailure == Spec => FailureDropsAll
<1> DEFINE Dropped == pc = "abort" /\ pc' # "abort" => \A s \in batch : Over(s)'
           Final == \A s \in Signals : Over(s) =>
                       intents'[s] = intents[s] /\ posted'[s] = posted[s]
<1>1. ASSUME BoundaryInvariant, [Next]_vars, pc = "abort", pc' # "abort",
             NEW s \in batch
      PROVE  Over(s)'
  <2>1. Aborts \/ Crash
    <3>1. ~(\E some \in Deployments \cup {{}} : Serves(some))
      BY <1>1 DEF Serves
    <3>2. ~(\E stream \in Streams, start \in Opens, sound \in BOOLEAN :
              BoundaryObserved(stream, start, sound))
      BY <1>1 DEF BoundaryObserved
    <3>3. ~(\E x \in Signals : RowStep(x))
      BY <1>1 DEF RowStep, Stages, MeetsForeign, NotDueYet, Claims, Dispatches,
         Reached
    <3>4. CycleStep => Aborts
      BY <1>1 DEF CycleStep, LeavesOpen, ReleaseReads, Prepares,
         PreparesDry, PrepareRefuses, Records, ReleaseEnds, CycleEnds, CycleRaises
    <3>5. ~(OrderStep \/ ControlBegins \/ Tick)
      BY <1>1 DEF OrderStep, GateAllows, Refuses, Posts, ControlBegins, Tick
    <3> QED
      BY <1>1, <3>1, <3>2, <3>3, <3>4, <3>5 DEF Next, vars
  <2>2. batch' = {} /\ s \in Signals
    BY <1>1, <2>1 DEF Aborts, Crash, DropsBatch, BoundaryInvariant, TypeOK
  <2>3. intents[s] # "none"
    BY <1>1 DEF BoundaryInvariant, BatchHeld
  <2>4. intents'[s] # "none"
    BY <2>1, <2>2, <2>3 DEF Aborts, Crash, durable
  <2> QED
    BY <2>2, <2>4 DEF Over
<1>2. ASSUME BoundaryInvariant, [Next]_vars, NEW s \in Signals, Over(s)
      PROVE  intents'[s] = intents[s] /\ posted'[s] = posted[s]
  <2>1. s \notin batch
    BY <1>2 DEF Over, BoundaryInvariant, BatchHeld
  <2>2. intents[s] # "none"
    BY <1>2 DEF Over
  <2>3. posted'[s] = posted[s]
    <3>1. SUFFICES ASSUME posted'[s] # posted[s] PROVE FALSE
      OBVIOUS
    <3> QED
      BY <1>2, <2>1, <3>1, SendsByPosts, PostsFromBatch
  <2>4. intents'[s] = intents[s]
    <3>1. CASE \E some \in Deployments \cup {{}} : Serves(some)
      BY <3>1 DEF Serves, durable
    <3>2. CASE \E stream \in Streams, start \in Opens, sound \in BOOLEAN :
                  BoundaryObserved(stream, start, sound)
      BY <3>2 DEF BoundaryObserved, durable
    <3>3. CASE \E x \in Signals : RowStep(x)
      BY <1>2, <2>1, <3>3 DEF RowStep, Stages, MeetsForeign, NotDueYet, Claims,
         Dispatches, durable, BoundaryInvariant, TypeOK
    <3>4. CASE Prepares
      BY <1>2, <2>2, <3>4 DEF Prepares, BoundaryInvariant, TypeOK, HandHeld
    <3>5. CASE Aborts
      BY <1>2, <2>1, <3>5 DEF Aborts
    <3>6. CASE CycleStep /\ ~Prepares /\ ~Aborts
      BY <3>6 DEF CycleStep, LeavesOpen, ReleaseReads, PreparesDry, PrepareRefuses,
         Records, ReleaseEnds, CycleEnds, CycleRaises, durable
    <3>7. CASE OrderStep
      BY <1>2, <2>1, <3>7 DEF OrderStep, GateAllows, Refuses, Posts, Closes,
         durable, BoundaryInvariant, TypeOK, HandHeld
    <3>8. CASE ControlBegins \/ Tick \/ Crash
      BY <3>8 DEF ControlBegins, Tick, Crash, durable
    <3>9. CASE UNCHANGED vars
      BY <3>9 DEF vars, durable
    <3> QED
      BY <1>2, <3>1, <3>2, <3>3, <3>4, <3>5, <3>6, <3>7, <3>8, <3>9 DEF Next
  <2> QED
    BY <2>3, <2>4
<1>3. BoundaryInvariant /\ [Next]_vars => [Dropped /\ Final]_vars
  BY <1>1, <1>2
<1> QED
  BY <1>3, BoundaryInvariantHolds, PTL DEF Spec, FailureDropsAll

=============================================================================
