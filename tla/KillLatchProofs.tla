--------------------------- MODULE KillLatchProofs ---------------------------
(* Proofs about KillLatch, for any threads, routes, faults and bounds.      *)
EXTENDS KillLatch, TLAPS

\* Any document has a revision.
LEMMA StatusTyped ==
    TypeOK => StatusRevision \in Revisions /\ ObservedRevision \in Revisions /\ NoRevision \in Revisions
BY DEF TypeOK, StatusRevision, ObservedRevision, Disappeared, DurableRevision, DurableActive,
       Revisions, Missing, InitializedMissing, Unavailable, NoRevision, DocKinds

\* A step leaves documents, locks and threads of their shape.
LEMMA TypeStep == TypeOK /\ [Next]_vars => TypeOK'
<1> SUFFICES ASSUME TypeOK, [Next]_vars PROVE TypeOK'
    OBVIOUS
<1>0. StatusRevision \in Revisions /\ ObservedRevision \in Revisions /\ NoRevision \in Revisions
    BY StatusTyped
<1> USE <1>0, ThreadsDistinct, RoutesTyped, BoundsTyped DEF TypeOK, Threads, Senders, Engagers, SenderPcs, OperatorPcs, RecoveryPcs, EngagePcs, ReleasePcs, DocKinds, Goto, ReadsStatus, disk, sticky, memory, locks, opVars, recVars, bounds
<1>1. CASE \E s \in Senders : SenderEnters(s)
    BY <1>1 DEF SenderEnters
<1>2. CASE \E s \in Senders : SenderTakesRoute(s)
    BY <1>2 DEF SenderTakesRoute
<1>3. CASE \E s \in Senders : SenderTakesBoundary(s)
    BY <1>3 DEF SenderTakesBoundary
<1>4. CASE \E s \in Senders : SenderChecks(s)
    BY <1>4 DEF SenderChecks
<1>5. CASE \E s \in Senders : SenderPosted(s)
    BY <1>5 DEF SenderPosted
<1>6. CASE \E s \in Senders : SenderLeaves(s)
    BY <1>6 DEF SenderLeaves, FreeSafetyAndRoutes
<1>7. CASE \E n \in Natives : NativeRequests(n)
    BY <1>7 DEF NativeRequests
<1>8. CASE \E p \in Engagers : EngageTakesBoundary(p)
    BY <1>8 DEF EngageTakesBoundary
<1>9. CASE \E p \in Engagers : EngageTakesWriteLock(p)
    BY <1>9 DEF EngageTakesWriteLock
<1>10. CASE \E p \in Engagers : EngageMarks(p)
    BY <1>10 DEF EngageMarks
<1>11. CASE \E p \in Engagers : EngageReplaces(p)
    BY <1>11 DEF EngageReplaces
<1>12. CASE \E p \in Engagers : EngageFails(p)
    BY <1>12 DEF EngageFails, EngageReturns, WriteRaises, Fault, AtLeastProcess
<1>13. CASE \E p \in Engagers : EngageVerifies(p)
    BY <1>13 DEF EngageVerifies, EngageReturns, AtLeastProcess
<1>14. CASE \E value \in BOOLEAN : OperatorRequests(value)
    BY <1>14 DEF OperatorRequests
<1>15. CASE OperatorTakesSafety
    BY <1>15 DEF OperatorTakesSafety
<1>16. CASE OperatorTakesRoute
    BY <1>16 DEF OperatorTakesRoute
<1>17. CASE \E c \in BOOLEAN : OperatorAssesses(c)
  <2>1. PICK c \in BOOLEAN : OperatorAssesses(c)
    BY <1>17
  <2>2. pc' \in [Threads -> SenderPcs \cup OperatorPcs \cup RecoveryPcs]
    BY <2>1 DEF OperatorAssesses, OperatorAnswers
  <2>3. safety' \in Threads \cup {NoOne} /\ route' \in [Routes -> Threads \cup {NoOne}]
    BY <2>1 DEF OperatorAssesses, OperatorAnswers, FreeSafetyAndRoutes
  <2>4. stateKill' \in BOOLEAN /\ stickyRev' \in Revisions
    BY <2>1 DEF OperatorAssesses, OperatorAnswers
  <2>5. opValue' \in BOOLEAN /\ opExpected' \in Revisions
    BY <2>1 DEF OperatorAssesses, OperatorAnswers
  <2> QED
    BY <2>1, <2>2, <2>3, <2>4, <2>5 DEF OperatorAssesses
<1>18. CASE OperatorSamples
    BY <1>18 DEF OperatorSamples
<1>19. CASE OperatorConsumesChallenge
    BY <1>19 DEF OperatorConsumesChallenge
<1>20. CASE OperatorFailsChallenge
    BY <1>20 DEF OperatorFailsChallenge, OperatorAnswers, FreeSafetyAndRoutes
<1>21. CASE ReleaseTakesWriteLock
    BY <1>21 DEF ReleaseTakesWriteLock
<1>22. CASE ReleaseRevisionChanged
    BY <1>22 DEF ReleaseRevisionChanged, OperatorAnswers, FreeSafetyAndRoutes
<1>23. CASE ReleaseMarks
    BY <1>23 DEF ReleaseMarks
<1>24. CASE ReleaseReplaces
    BY <1>24 DEF ReleaseReplaces
<1>25. CASE ReleaseFails
  <2>1. pc' \in [Threads -> SenderPcs \cup OperatorPcs \cup RecoveryPcs]
    BY <1>25 DEF ReleaseFails, ReleaseFailed, OperatorAnswers
  <2>2. safety' \in Threads \cup {NoOne} /\ route' \in [Routes -> Threads \cup {NoOne}]
    BY <1>25 DEF ReleaseFails, ReleaseFailed, OperatorAnswers, FreeSafetyAndRoutes
  <2>3. stateKill' \in BOOLEAN /\ opValue' \in BOOLEAN /\ opExpected' \in Revisions
    BY <1>25 DEF ReleaseFails, ReleaseFailed, OperatorAnswers
  <2>4. faults' \in 0 .. MaxFaults /\ UNCHANGED <<requests, crashes>>
    BY <1>25 DEF ReleaseFails, WriteRaises, Fault
  <2> QED
    BY <1>25, <2>1, <2>2, <2>3, <2>4 DEF ReleaseFails, ReleaseFailed
<1>26. CASE ReleaseVerifies
  <2>1. pc' \in [Threads -> SenderPcs \cup OperatorPcs \cup RecoveryPcs]
    BY <1>26 DEF ReleaseVerifies
  <2> QED
    BY <1>26, <2>1, ZenonT(40) DEF ReleaseVerifies
<1>27. CASE ReleaseUnverified
    BY <1>27 DEF ReleaseUnverified, ReleaseFailed, OperatorAnswers, FreeSafetyAndRoutes
<1>28. CASE OperatorPublishes
    BY <1>28 DEF OperatorPublishes, OperatorAnswers, FreeSafetyAndRoutes
<1>29. CASE RecoveryObserves
    BY <1>29 DEF RecoveryObserves
<1>30. CASE RecoveryApplies
    BY <1>30 DEF RecoveryApplies, RecoveryForgets
<1>31. CASE RecoveryPublishes
    BY <1>31 DEF RecoveryPublishes
<1>32. CASE RecoveryChecksGeneration
  <2>1. pc' \in [Threads -> SenderPcs \cup OperatorPcs \cup RecoveryPcs]
    BY <1>32 DEF RecoveryChecksGeneration
  <2>2. stateKill' \in BOOLEAN
    BY <1>32 DEF RecoveryChecksGeneration
  <2> QED
    BY <1>32, <2>1, <2>2 DEF RecoveryChecksGeneration, RecoveryForgets
<1>33. CASE \E complete \in BOOLEAN : RecoveryCleansUp(complete)
    BY <1>33 DEF RecoveryCleansUp, RecoveryForgets
<1>34. CASE DocumentLost
    BY <1>34 DEF DocumentLost, Fault
<1>35. CASE DocumentCorrupted
    BY <1>35 DEF DocumentCorrupted, Fault
<1>36. CASE DirectoryLost
  <2>1. kill' \in {"off", "process", "durable"}
    BY <1>36, Zenon DEF DirectoryLost
  <2>2. faults' \in 0 .. MaxFaults
    BY <1>36 DEF DirectoryLost, Fault
  <2>3. docKind' = "absent" /\ docNonce' = 0 /\ marker' = FALSE
    BY <1>36 DEF DirectoryLost
  <2>4. /\ UNCHANGED <<memory, pc, locks, opVars, recVars, nonces>>
        /\ UNCHANGED <<requests, crashes>>
    BY <1>36 DEF DirectoryLost, Fault
  <2> QED
    BY <2>1, <2>2, <2>3, <2>4, ZenonT(40)
<1>37. CASE Crash
  <2>1. pc' \in [Threads -> SenderPcs \cup OperatorPcs \cup RecoveryPcs]
    BY <1>37 DEF Crash
  <2>2. route' \in [Routes -> Threads \cup {NoOne}]
    BY <1>37 DEF Crash
  <2>3. kill' \in {"off", "process", "durable"} /\ crashes' \in 0 .. MaxCrashes
    BY <1>37 DEF Crash
  <2> QED
    BY <1>37, <2>1, <2>2, <2>3 DEF Crash
<1>38. CASE UNCHANGED vars
    BY <1>38 DEF vars
<1> QED
    BY <1>1, <1>2, <1>3, <1>4, <1>5, <1>6, <1>7, <1>8, <1>9, <1>10, <1>11, <1>12, <1>13, <1>14, <1>15, <1>16, <1>17, <1>18, <1>19, <1>20, <1>21, <1>22, <1>23, <1>24, <1>25, <1>26, <1>27, <1>28, <1>29, <1>30, <1>31, <1>32, <1>33, <1>34, <1>35, <1>36, <1>37, <1>38
       DEF Next, SenderAdvances, EngageAdvances, OperatorAdvances, RecoveryAdvances

\* A thread holds the locks of the place where it is.
LEMMA LocksStep == TypeOK /\ LocksHeld /\ [Next]_vars => LocksHeld'
<1> SUFFICES ASSUME TypeOK /\ LocksHeld, [Next]_vars PROVE LocksHeld'
    OBVIOUS
<1> USE ThreadsDistinct DEF TypeOK, Threads, Senders, Engagers, Goto, ReadsStatus, disk, sticky, memory, locks, opVars, recVars, bounds, LocksHeld, BoundaryPcs, WritePcs
<1>1. CASE \E s \in Senders : SenderEnters(s)
    BY <1>1 DEF SenderEnters
<1>2. CASE \E s \in Senders : SenderTakesRoute(s)
    BY <1>2 DEF SenderTakesRoute
<1>3. CASE \E s \in Senders : SenderTakesBoundary(s)
    BY <1>3 DEF SenderTakesBoundary
<1>4. CASE \E s \in Senders : SenderChecks(s)
    BY <1>4 DEF SenderChecks
<1>5. CASE \E s \in Senders : SenderPosted(s)
    BY <1>5 DEF SenderPosted
<1>6. CASE \E s \in Senders : SenderLeaves(s)
    BY <1>6 DEF SenderLeaves, FreeSafetyAndRoutes
<1>7. CASE \E n \in Natives : NativeRequests(n)
    BY <1>7 DEF NativeRequests
<1>8. CASE \E p \in Engagers : EngageTakesBoundary(p)
    BY <1>8 DEF EngageTakesBoundary
<1>9. CASE \E p \in Engagers : EngageTakesWriteLock(p)
    BY <1>9 DEF EngageTakesWriteLock
<1>10. CASE \E p \in Engagers : EngageMarks(p)
    BY <1>10 DEF EngageMarks
<1>11. CASE \E p \in Engagers : EngageReplaces(p)
    BY <1>11 DEF EngageReplaces
<1>12. CASE \E p \in Engagers : EngageFails(p)
    BY <1>12 DEF EngageFails, EngageReturns, WriteRaises, Fault, AtLeastProcess
<1>13. CASE \E p \in Engagers : EngageVerifies(p)
    BY <1>13 DEF EngageVerifies, EngageReturns, AtLeastProcess
<1>14. CASE \E value \in BOOLEAN : OperatorRequests(value)
    BY <1>14 DEF OperatorRequests
<1>15. CASE OperatorTakesSafety
    BY <1>15 DEF OperatorTakesSafety
<1>16. CASE OperatorTakesRoute
    BY <1>16 DEF OperatorTakesRoute
<1>17. CASE \E c \in BOOLEAN : OperatorAssesses(c)
    BY <1>17 DEF OperatorAssesses, OperatorAnswers, FreeSafetyAndRoutes
<1>18. CASE OperatorSamples
    BY <1>18 DEF OperatorSamples
<1>19. CASE OperatorConsumesChallenge
    BY <1>19 DEF OperatorConsumesChallenge
<1>20. CASE OperatorFailsChallenge
    BY <1>20 DEF OperatorFailsChallenge, OperatorAnswers, FreeSafetyAndRoutes
<1>21. CASE ReleaseTakesWriteLock
    BY <1>21 DEF ReleaseTakesWriteLock
<1>22. CASE ReleaseRevisionChanged
    BY <1>22 DEF ReleaseRevisionChanged, OperatorAnswers, FreeSafetyAndRoutes
<1>23. CASE ReleaseMarks
    BY <1>23 DEF ReleaseMarks
<1>24. CASE ReleaseReplaces
    BY <1>24 DEF ReleaseReplaces
<1>25. CASE ReleaseFails
    BY <1>25 DEF ReleaseFails, WriteRaises, Fault, ReleaseFailed, OperatorAnswers, FreeSafetyAndRoutes
<1>26. CASE ReleaseVerifies
    BY <1>26 DEF ReleaseVerifies
<1>27. CASE ReleaseUnverified
    BY <1>27 DEF ReleaseUnverified, ReleaseFailed, OperatorAnswers, FreeSafetyAndRoutes
<1>28. CASE OperatorPublishes
    BY <1>28 DEF OperatorPublishes, OperatorAnswers, FreeSafetyAndRoutes
<1>29. CASE RecoveryObserves
    BY <1>29 DEF RecoveryObserves
<1>30. CASE RecoveryApplies
    BY <1>30 DEF RecoveryApplies
<1>31. CASE RecoveryPublishes
    BY <1>31 DEF RecoveryPublishes
<1>32. CASE RecoveryChecksGeneration
    BY <1>32 DEF RecoveryChecksGeneration
<1>33. CASE \E complete \in BOOLEAN : RecoveryCleansUp(complete)
    BY <1>33 DEF RecoveryCleansUp
<1>34. CASE DocumentLost
    BY <1>34 DEF DocumentLost, Fault
<1>35. CASE DocumentCorrupted
    BY <1>35 DEF DocumentCorrupted, Fault
<1>36. CASE DirectoryLost
    BY <1>36 DEF DirectoryLost, Fault
<1>37. CASE Crash
    BY <1>37 DEF Crash
<1>38. CASE UNCHANGED vars
    BY <1>38 DEF vars
<1> QED
    BY <1>1, <1>2, <1>3, <1>4, <1>5, <1>6, <1>7, <1>8, <1>9, <1>10, <1>11, <1>12, <1>13, <1>14, <1>15, <1>16, <1>17, <1>18, <1>19, <1>20, <1>21, <1>22, <1>23, <1>24, <1>25, <1>26, <1>27, <1>28, <1>29, <1>30, <1>31, <1>32, <1>33, <1>34, <1>35, <1>36, <1>37, <1>38
       DEF Next, SenderAdvances, EngageAdvances, OperatorAdvances, RecoveryAdvances

\* The latch still knows every kill that is not released, on disk or in memory.
LEMMA KnowsStep == TypeOK /\ LocksHeld /\ LatchKnowsKill /\ [Next]_vars => LatchKnowsKill'
<1> SUFFICES ASSUME TypeOK /\ LocksHeld /\ LatchKnowsKill, [Next]_vars PROVE LatchKnowsKill'
    OBVIOUS
<1> USE ThreadsDistinct DEF TypeOK, Threads, Senders, Engagers, Goto, ReadsStatus, disk, sticky, memory, locks, opVars, recVars, bounds, LatchKnowsKill, LocksHeld, WritePcs, DurableActive, DocKinds, NoRevision
<1>1. CASE \E s \in Senders : SenderEnters(s)
    BY <1>1 DEF SenderEnters
<1>2. CASE \E s \in Senders : SenderTakesRoute(s)
    BY <1>2 DEF SenderTakesRoute
<1>3. CASE \E s \in Senders : SenderTakesBoundary(s)
    BY <1>3 DEF SenderTakesBoundary
<1>4. CASE \E s \in Senders : SenderChecks(s)
    BY <1>4 DEF SenderChecks, ObservedRevision
<1>5. CASE \E s \in Senders : SenderPosted(s)
    BY <1>5 DEF SenderPosted
<1>6. CASE \E s \in Senders : SenderLeaves(s)
    BY <1>6 DEF SenderLeaves, FreeSafetyAndRoutes
<1>7. CASE \E n \in Natives : NativeRequests(n)
    BY <1>7 DEF NativeRequests
<1>8. CASE \E p \in Engagers : EngageTakesBoundary(p)
    BY <1>8 DEF EngageTakesBoundary
<1>9. CASE \E p \in Engagers : EngageTakesWriteLock(p)
    BY <1>9 DEF EngageTakesWriteLock
<1>10. CASE \E p \in Engagers : EngageMarks(p)
    BY <1>10 DEF EngageMarks
<1>11. CASE \E p \in Engagers : EngageReplaces(p)
    BY <1>11 DEF EngageReplaces
<1>12. CASE \E p \in Engagers : EngageFails(p)
    BY <1>12 DEF EngageFails, EngageReturns, WriteRaises, Fault, AtLeastProcess
<1>13. CASE \E p \in Engagers : EngageVerifies(p)
  <2>1. PICK p \in Engagers : EngageVerifies(p)
    BY <1>13
  <2>2. CASE StatusActive /\ StatusSound
    <3>1. DurableActive
      BY <2>2 DEF StatusActive, StatusSound
    <3> QED
      BY <2>1, <2>2, <3>1 DEF EngageVerifies, EngageReturns
  <2>3. CASE ~(StatusActive /\ StatusSound)
    BY <2>1, <2>3 DEF EngageVerifies, EngageReturns, AtLeastProcess
  <2> QED
    BY <2>2, <2>3
<1>14. CASE \E value \in BOOLEAN : OperatorRequests(value)
    BY <1>14 DEF OperatorRequests
<1>15. CASE OperatorTakesSafety
    BY <1>15 DEF OperatorTakesSafety
<1>16. CASE OperatorTakesRoute
    BY <1>16 DEF OperatorTakesRoute
<1>17. CASE \E c \in BOOLEAN : OperatorAssesses(c)
    BY <1>17 DEF OperatorAssesses, OperatorAnswers, FreeSafetyAndRoutes, ObservedRevision
<1>18. CASE OperatorSamples
    BY <1>18 DEF OperatorSamples, ObservedRevision
<1>19. CASE OperatorConsumesChallenge
    BY <1>19 DEF OperatorConsumesChallenge
<1>20. CASE OperatorFailsChallenge
    BY <1>20 DEF OperatorFailsChallenge, OperatorAnswers, FreeSafetyAndRoutes
<1>21. CASE ReleaseTakesWriteLock
    BY <1>21 DEF ReleaseTakesWriteLock, ObservedRevision
<1>22. CASE ReleaseRevisionChanged
    BY <1>22 DEF ReleaseRevisionChanged, OperatorAnswers, FreeSafetyAndRoutes, ObservedRevision
<1>23. CASE ReleaseMarks
    BY <1>23 DEF ReleaseMarks
<1>24. CASE ReleaseReplaces
    BY <1>24 DEF ReleaseReplaces
<1>25. CASE ReleaseFails
    BY <1>25 DEF ReleaseFails, WriteRaises, Fault, ReleaseFailed, OperatorAnswers, FreeSafetyAndRoutes
<1>26. CASE ReleaseVerifies
    BY <1>26 DEF ReleaseVerifies
<1>27. CASE ReleaseUnverified
    BY <1>27 DEF ReleaseUnverified, ReleaseFailed, OperatorAnswers, FreeSafetyAndRoutes
<1>28. CASE OperatorPublishes
    BY <1>28 DEF OperatorPublishes, OperatorAnswers, FreeSafetyAndRoutes
<1>29. CASE RecoveryObserves
    BY <1>29 DEF RecoveryObserves, ObservedRevision
<1>30. CASE RecoveryApplies
    BY <1>30 DEF RecoveryApplies, ObservedRevision
<1>31. CASE RecoveryPublishes
    BY <1>31 DEF RecoveryPublishes
<1>32. CASE RecoveryChecksGeneration
    BY <1>32 DEF RecoveryChecksGeneration, ObservedRevision
<1>33. CASE \E complete \in BOOLEAN : RecoveryCleansUp(complete)
    BY <1>33 DEF RecoveryCleansUp
<1>34. CASE DocumentLost
    BY <1>34 DEF DocumentLost, Fault
<1>35. CASE DocumentCorrupted
    BY <1>35 DEF DocumentCorrupted, Fault
<1>36. CASE DirectoryLost
    BY <1>36 DEF DirectoryLost, Fault
<1>37. CASE Crash
    BY <1>37 DEF Crash
<1>38. CASE UNCHANGED vars
    BY <1>38 DEF vars
<1> QED
    BY <1>1, <1>2, <1>3, <1>4, <1>5, <1>6, <1>7, <1>8, <1>9, <1>10, <1>11, <1>12, <1>13, <1>14, <1>15, <1>16, <1>17, <1>18, <1>19, <1>20, <1>21, <1>22, <1>23, <1>24, <1>25, <1>26, <1>27, <1>28, <1>29, <1>30, <1>31, <1>32, <1>33, <1>34, <1>35, <1>36, <1>37, <1>38
       DEF Next, SenderAdvances, EngageAdvances, OperatorAdvances, RecoveryAdvances

\* Between its comparison and its write a release faces the document it compared.
LEMMA FacesStep == TypeOK /\ LocksHeld /\ ReleaseFacesSampled /\ [Next]_vars => ReleaseFacesSampled'
<1> SUFFICES ASSUME TypeOK /\ LocksHeld /\ ReleaseFacesSampled, [Next]_vars PROVE ReleaseFacesSampled'
    OBVIOUS
<1> USE ThreadsDistinct DEF TypeOK, Threads, Senders, Engagers, Goto, ReadsStatus, disk, sticky, memory, locks, opVars, recVars, bounds, ReleaseFacesSampled, LocksHeld, WritePcs, DocKinds
<1>1. CASE \E s \in Senders : SenderEnters(s)
    BY <1>1 DEF SenderEnters
<1>2. CASE \E s \in Senders : SenderTakesRoute(s)
    BY <1>2 DEF SenderTakesRoute
<1>3. CASE \E s \in Senders : SenderTakesBoundary(s)
    BY <1>3 DEF SenderTakesBoundary
<1>4. CASE \E s \in Senders : SenderChecks(s)
    BY <1>4 DEF SenderChecks
<1>5. CASE \E s \in Senders : SenderPosted(s)
    BY <1>5 DEF SenderPosted
<1>6. CASE \E s \in Senders : SenderLeaves(s)
    BY <1>6 DEF SenderLeaves, FreeSafetyAndRoutes
<1>7. CASE \E n \in Natives : NativeRequests(n)
    BY <1>7 DEF NativeRequests
<1>8. CASE \E p \in Engagers : EngageTakesBoundary(p)
    BY <1>8 DEF EngageTakesBoundary
<1>9. CASE \E p \in Engagers : EngageTakesWriteLock(p)
    BY <1>9 DEF EngageTakesWriteLock
<1>10. CASE \E p \in Engagers : EngageMarks(p)
    BY <1>10 DEF EngageMarks
<1>11. CASE \E p \in Engagers : EngageReplaces(p)
    BY <1>11 DEF EngageReplaces
<1>12. CASE \E p \in Engagers : EngageFails(p)
    BY <1>12 DEF EngageFails, EngageReturns, WriteRaises, Fault, AtLeastProcess
<1>13. CASE \E p \in Engagers : EngageVerifies(p)
    BY <1>13 DEF EngageVerifies, EngageReturns, AtLeastProcess
<1>14. CASE \E value \in BOOLEAN : OperatorRequests(value)
    BY <1>14 DEF OperatorRequests
<1>15. CASE OperatorTakesSafety
    BY <1>15 DEF OperatorTakesSafety
<1>16. CASE OperatorTakesRoute
    BY <1>16 DEF OperatorTakesRoute
<1>17. CASE \E c \in BOOLEAN : OperatorAssesses(c)
    BY <1>17 DEF OperatorAssesses, OperatorAnswers, FreeSafetyAndRoutes
<1>18. CASE OperatorSamples
    BY <1>18 DEF OperatorSamples
<1>19. CASE OperatorConsumesChallenge
    BY <1>19 DEF OperatorConsumesChallenge
<1>20. CASE OperatorFailsChallenge
    BY <1>20 DEF OperatorFailsChallenge, OperatorAnswers, FreeSafetyAndRoutes
<1>21. CASE ReleaseTakesWriteLock
    BY <1>21 DEF ReleaseTakesWriteLock, RevisionMatches, StatusRevision, Disappeared, DurableActive, DurableRevision
<1>22. CASE ReleaseRevisionChanged
    BY <1>22 DEF ReleaseRevisionChanged, OperatorAnswers, FreeSafetyAndRoutes
<1>23. CASE ReleaseMarks
    BY <1>23 DEF ReleaseMarks
<1>24. CASE ReleaseReplaces
    BY <1>24 DEF ReleaseReplaces
<1>25. CASE ReleaseFails
    BY <1>25 DEF ReleaseFails, WriteRaises, Fault, ReleaseFailed, OperatorAnswers, FreeSafetyAndRoutes
<1>26. CASE ReleaseVerifies
    BY <1>26 DEF ReleaseVerifies
<1>27. CASE ReleaseUnverified
    BY <1>27 DEF ReleaseUnverified, ReleaseFailed, OperatorAnswers, FreeSafetyAndRoutes
<1>28. CASE OperatorPublishes
    BY <1>28 DEF OperatorPublishes, OperatorAnswers, FreeSafetyAndRoutes
<1>29. CASE RecoveryObserves
    BY <1>29 DEF RecoveryObserves
<1>30. CASE RecoveryApplies
    BY <1>30 DEF RecoveryApplies
<1>31. CASE RecoveryPublishes
    BY <1>31 DEF RecoveryPublishes
<1>32. CASE RecoveryChecksGeneration
    BY <1>32 DEF RecoveryChecksGeneration
<1>33. CASE \E complete \in BOOLEAN : RecoveryCleansUp(complete)
    BY <1>33 DEF RecoveryCleansUp
<1>34. CASE DocumentLost
    BY <1>34 DEF DocumentLost, Fault
<1>35. CASE DocumentCorrupted
    BY <1>35 DEF DocumentCorrupted, Fault
<1>36. CASE DirectoryLost
    BY <1>36 DEF DirectoryLost, Fault
<1>37. CASE Crash
    BY <1>37 DEF Crash
<1>38. CASE UNCHANGED vars
    BY <1>38 DEF vars
<1> QED
    BY <1>1, <1>2, <1>3, <1>4, <1>5, <1>6, <1>7, <1>8, <1>9, <1>10, <1>11, <1>12, <1>13, <1>14, <1>15, <1>16, <1>17, <1>18, <1>19, <1>20, <1>21, <1>22, <1>23, <1>24, <1>25, <1>26, <1>27, <1>28, <1>29, <1>30, <1>31, <1>32, <1>33, <1>34, <1>35, <1>36, <1>37, <1>38
       DEF Next, SenderAdvances, EngageAdvances, OperatorAdvances, RecoveryAdvances

\* No step brings an order to the broker under a kill that is not released.
LEMMA NoPostStep == TypeOK /\ LocksHeld /\ LatchKnowsKill /\ NoPostUnderKill /\ [Next]_vars => NoPostUnderKill'
<1> SUFFICES ASSUME TypeOK /\ LocksHeld /\ LatchKnowsKill /\ NoPostUnderKill, [Next]_vars PROVE NoPostUnderKill'
    OBVIOUS
<1> USE ThreadsDistinct DEF TypeOK, Threads, Senders, Engagers, Goto, ReadsStatus, disk, sticky, memory, locks, opVars, recVars, bounds, NoPostUnderKill, LatchKnowsKill, LocksHeld, WritePcs, BoundaryPcs
<1>1. CASE \E s \in Senders : SenderEnters(s)
    BY <1>1 DEF SenderEnters
<1>2. CASE \E s \in Senders : SenderTakesRoute(s)
    BY <1>2 DEF SenderTakesRoute
<1>3. CASE \E s \in Senders : SenderTakesBoundary(s)
    BY <1>3 DEF SenderTakesBoundary
<1>4. CASE \E s \in Senders : SenderChecks(s)
    BY <1>4 DEF SenderChecks, Refused, StatusActive, Disappeared
<1>5. CASE \E s \in Senders : SenderPosted(s)
    BY <1>5 DEF SenderPosted
<1>6. CASE \E s \in Senders : SenderLeaves(s)
    BY <1>6 DEF SenderLeaves, FreeSafetyAndRoutes
<1>7. CASE \E n \in Natives : NativeRequests(n)
    BY <1>7 DEF NativeRequests
<1>8. CASE \E p \in Engagers : EngageTakesBoundary(p)
    BY <1>8 DEF EngageTakesBoundary
<1>9. CASE \E p \in Engagers : EngageTakesWriteLock(p)
    BY <1>9 DEF EngageTakesWriteLock
<1>10. CASE \E p \in Engagers : EngageMarks(p)
    BY <1>10 DEF EngageMarks
<1>11. CASE \E p \in Engagers : EngageReplaces(p)
    BY <1>11 DEF EngageReplaces
<1>12. CASE \E p \in Engagers : EngageFails(p)
    BY <1>12 DEF EngageFails, EngageReturns, WriteRaises, Fault, AtLeastProcess
<1>13. CASE \E p \in Engagers : EngageVerifies(p)
    BY <1>13 DEF EngageVerifies, EngageReturns, AtLeastProcess
<1>14. CASE \E value \in BOOLEAN : OperatorRequests(value)
    BY <1>14 DEF OperatorRequests
<1>15. CASE OperatorTakesSafety
    BY <1>15 DEF OperatorTakesSafety
<1>16. CASE OperatorTakesRoute
    BY <1>16 DEF OperatorTakesRoute
<1>17. CASE \E c \in BOOLEAN : OperatorAssesses(c)
    BY <1>17 DEF OperatorAssesses, OperatorAnswers, FreeSafetyAndRoutes
<1>18. CASE OperatorSamples
    BY <1>18 DEF OperatorSamples
<1>19. CASE OperatorConsumesChallenge
    BY <1>19 DEF OperatorConsumesChallenge
<1>20. CASE OperatorFailsChallenge
    BY <1>20 DEF OperatorFailsChallenge, OperatorAnswers, FreeSafetyAndRoutes
<1>21. CASE ReleaseTakesWriteLock
    BY <1>21 DEF ReleaseTakesWriteLock
<1>22. CASE ReleaseRevisionChanged
    BY <1>22 DEF ReleaseRevisionChanged, OperatorAnswers, FreeSafetyAndRoutes
<1>23. CASE ReleaseMarks
    BY <1>23 DEF ReleaseMarks
<1>24. CASE ReleaseReplaces
    BY <1>24 DEF ReleaseReplaces
<1>25. CASE ReleaseFails
    BY <1>25 DEF ReleaseFails, WriteRaises, Fault, ReleaseFailed, OperatorAnswers, FreeSafetyAndRoutes
<1>26. CASE ReleaseVerifies
    BY <1>26 DEF ReleaseVerifies
<1>27. CASE ReleaseUnverified
    BY <1>27 DEF ReleaseUnverified, ReleaseFailed, OperatorAnswers, FreeSafetyAndRoutes
<1>28. CASE OperatorPublishes
    BY <1>28 DEF OperatorPublishes, OperatorAnswers, FreeSafetyAndRoutes
<1>29. CASE RecoveryObserves
    BY <1>29 DEF RecoveryObserves
<1>30. CASE RecoveryApplies
    BY <1>30 DEF RecoveryApplies
<1>31. CASE RecoveryPublishes
    BY <1>31 DEF RecoveryPublishes
<1>32. CASE RecoveryChecksGeneration
    BY <1>32 DEF RecoveryChecksGeneration
<1>33. CASE \E complete \in BOOLEAN : RecoveryCleansUp(complete)
    BY <1>33 DEF RecoveryCleansUp
<1>34. CASE DocumentLost
    BY <1>34 DEF DocumentLost, Fault
<1>35. CASE DocumentCorrupted
    BY <1>35 DEF DocumentCorrupted, Fault
<1>36. CASE DirectoryLost
    BY <1>36 DEF DirectoryLost, Fault
<1>37. CASE Crash
    BY <1>37 DEF Crash
<1>38. CASE UNCHANGED vars
    BY <1>38 DEF vars
<1> QED
    BY <1>1, <1>2, <1>3, <1>4, <1>5, <1>6, <1>7, <1>8, <1>9, <1>10, <1>11, <1>12, <1>13, <1>14, <1>15, <1>16, <1>17, <1>18, <1>19, <1>20, <1>21, <1>22, <1>23, <1>24, <1>25, <1>26, <1>27, <1>28, <1>29, <1>30, <1>31, <1>32, <1>33, <1>34, <1>35, <1>36, <1>37, <1>38
       DEF Next, SenderAdvances, EngageAdvances, OperatorAdvances, RecoveryAdvances

\* The switch does not turn on between an ordinary check and the end of its post.
LEMMA NoSwitchStep == TypeOK /\ LocksHeld /\ NoOrdinaryPostUnderSwitch /\ [Next]_vars => NoOrdinaryPostUnderSwitch'
<1> SUFFICES ASSUME TypeOK /\ LocksHeld /\ NoOrdinaryPostUnderSwitch, [Next]_vars PROVE NoOrdinaryPostUnderSwitch'
    OBVIOUS
<1> USE ThreadsDistinct DEF TypeOK, Threads, Senders, Engagers, Goto, ReadsStatus, disk, sticky, memory, locks, opVars, recVars, bounds, NoOrdinaryPostUnderSwitch, LocksHeld
<1>1. CASE \E s \in Senders : SenderEnters(s)
    BY <1>1 DEF SenderEnters
<1>2. CASE \E s \in Senders : SenderTakesRoute(s)
    BY <1>2 DEF SenderTakesRoute
<1>3. CASE \E s \in Senders : SenderTakesBoundary(s)
    BY <1>3 DEF SenderTakesBoundary
<1>4. CASE \E s \in Senders : SenderChecks(s)
    BY <1>4 DEF SenderChecks, Refused
<1>5. CASE \E s \in Senders : SenderPosted(s)
    BY <1>5 DEF SenderPosted
<1>6. CASE \E s \in Senders : SenderLeaves(s)
    BY <1>6 DEF SenderLeaves, FreeSafetyAndRoutes
<1>7. CASE \E n \in Natives : NativeRequests(n)
    BY <1>7 DEF NativeRequests
<1>8. CASE \E p \in Engagers : EngageTakesBoundary(p)
    BY <1>8 DEF EngageTakesBoundary
<1>9. CASE \E p \in Engagers : EngageTakesWriteLock(p)
    BY <1>9 DEF EngageTakesWriteLock
<1>10. CASE \E p \in Engagers : EngageMarks(p)
    BY <1>10 DEF EngageMarks
<1>11. CASE \E p \in Engagers : EngageReplaces(p)
    BY <1>11 DEF EngageReplaces
<1>12. CASE \E p \in Engagers : EngageFails(p)
    BY <1>12 DEF EngageFails, EngageReturns, WriteRaises, Fault, AtLeastProcess
<1>13. CASE \E p \in Engagers : EngageVerifies(p)
    BY <1>13 DEF EngageVerifies, EngageReturns, AtLeastProcess
<1>14. CASE \E value \in BOOLEAN : OperatorRequests(value)
    BY <1>14 DEF OperatorRequests
<1>15. CASE OperatorTakesSafety
    BY <1>15 DEF OperatorTakesSafety
<1>16. CASE OperatorTakesRoute
    BY <1>16 DEF OperatorTakesRoute
<1>17. CASE \E c \in BOOLEAN : OperatorAssesses(c)
    BY <1>17 DEF OperatorAssesses, OperatorAnswers, FreeSafetyAndRoutes
<1>18. CASE OperatorSamples
    BY <1>18 DEF OperatorSamples
<1>19. CASE OperatorConsumesChallenge
    BY <1>19 DEF OperatorConsumesChallenge
<1>20. CASE OperatorFailsChallenge
    BY <1>20 DEF OperatorFailsChallenge, OperatorAnswers, FreeSafetyAndRoutes
<1>21. CASE ReleaseTakesWriteLock
    BY <1>21 DEF ReleaseTakesWriteLock
<1>22. CASE ReleaseRevisionChanged
    BY <1>22 DEF ReleaseRevisionChanged, OperatorAnswers, FreeSafetyAndRoutes
<1>23. CASE ReleaseMarks
    BY <1>23 DEF ReleaseMarks
<1>24. CASE ReleaseReplaces
    BY <1>24 DEF ReleaseReplaces
<1>25. CASE ReleaseFails
    BY <1>25 DEF ReleaseFails, WriteRaises, Fault, ReleaseFailed, OperatorAnswers, FreeSafetyAndRoutes
<1>26. CASE ReleaseVerifies
    BY <1>26 DEF ReleaseVerifies
<1>27. CASE ReleaseUnverified
    BY <1>27 DEF ReleaseUnverified, ReleaseFailed, OperatorAnswers, FreeSafetyAndRoutes
<1>28. CASE OperatorPublishes
    BY <1>28 DEF OperatorPublishes, OperatorAnswers, FreeSafetyAndRoutes
<1>29. CASE RecoveryObserves
    BY <1>29 DEF RecoveryObserves
<1>30. CASE RecoveryApplies
    BY <1>30 DEF RecoveryApplies
<1>31. CASE RecoveryPublishes
    BY <1>31 DEF RecoveryPublishes
<1>32. CASE RecoveryChecksGeneration
    BY <1>32 DEF RecoveryChecksGeneration
<1>33. CASE \E complete \in BOOLEAN : RecoveryCleansUp(complete)
    BY <1>33 DEF RecoveryCleansUp
<1>34. CASE DocumentLost
    BY <1>34 DEF DocumentLost, Fault
<1>35. CASE DocumentCorrupted
    BY <1>35 DEF DocumentCorrupted, Fault
<1>36. CASE DirectoryLost
    BY <1>36 DEF DirectoryLost, Fault
<1>37. CASE Crash
    BY <1>37 DEF Crash
<1>38. CASE UNCHANGED vars
    BY <1>38 DEF vars
<1> QED
    BY <1>1, <1>2, <1>3, <1>4, <1>5, <1>6, <1>7, <1>8, <1>9, <1>10, <1>11, <1>12, <1>13, <1>14, <1>15, <1>16, <1>17, <1>18, <1>19, <1>20, <1>21, <1>22, <1>23, <1>24, <1>25, <1>26, <1>27, <1>28, <1>29, <1>30, <1>31, <1>32, <1>33, <1>34, <1>35, <1>36, <1>37, <1>38
       DEF Next, SenderAdvances, EngageAdvances, OperatorAdvances, RecoveryAdvances

\* The invariant holds when the program starts.
LEMMA InvariantInit == Init => LatchInvariant
<1> SUFFICES ASSUME Init PROVE LatchInvariant
    OBVIOUS
<1> USE ThreadsDistinct, BoundsTyped DEF Init
<1>1. TypeOK
  <2>1. pc \in [Threads -> SenderPcs \cup OperatorPcs \cup RecoveryPcs]
    BY DEF SenderPcs
  <2>2. route \in [Routes -> Threads \cup {NoOne}]
    OBVIOUS
  <2>3. NoRevision \in Revisions
    BY DEF NoRevision, Revisions
  <2>4. requests \in 0 .. MaxRequests /\ faults \in 0 .. MaxFaults /\ crashes \in 0 .. MaxCrashes
    OBVIOUS
  <2> QED
    BY <2>1, <2>2, <2>3, <2>4 DEF TypeOK, DocKinds
<1>2. LocksHeld
    BY DEF LocksHeld, BoundaryPcs, WritePcs, Threads, Senders, Engagers
<1>3. LatchKnowsKill /\ ReleaseFacesSampled
    BY DEF LatchKnowsKill, ReleaseFacesSampled
<1>4. NoPostUnderKill /\ NoOrdinaryPostUnderSwitch
    BY DEF NoPostUnderKill, NoOrdinaryPostUnderSwitch
<1> QED
    BY <1>1, <1>2, <1>3, <1>4 DEF LatchInvariant

\* Every step preserves the invariant.
LEMMA InvariantStep == LatchInvariant /\ [Next]_vars => LatchInvariant'
BY TypeStep, LocksStep, KnowsStep, FacesStep, NoPostStep, NoSwitchStep DEF LatchInvariant

(* Every reachable state satisfies the inductive invariant: locks held     *)
(* where the code holds them, and a latch that knows every Kill.           *)
THEOREM Invariant == Spec => []LatchInvariant
<1>1. Init => LatchInvariant
    BY InvariantInit
<1>2. LatchInvariant /\ [Next]_vars => LatchInvariant'
    BY InvariantStep
<1> QED
    BY <1>1, <1>2, PTL DEF Spec

(* The latch's variables have the types the code gives them.               *)
THEOREM TypeCorrect == Spec => []TypeOK
<1>1. LatchInvariant => TypeOK
    BY DEF LatchInvariant
<1> QED
    BY <1>1, Invariant, PTL

(* STOP wins or POST wins: no order is in flight while an acknowledged     *)
(* Kill stands, whatever the disk lost and however often the process       *)
(* restarted (engage_emergency_stop, emergency_stop_dispatch_boundary).    *)
THEOREM StopWins == Spec => []NoPostUnderKill
<1>1. LatchInvariant => NoPostUnderKill
    BY DEF LatchInvariant
<1> QED
    BY <1>1, Invariant, PTL

(* STATE's switch never turns on under an ordinary sender's POST (SAFETY   *)
(* in dispatch_live_order_with_checkpoint, set_flag and the recovery).     *)
THEOREM SwitchExcludesPost == Spec => []NoOrdinaryPostUnderSwitch
<1>1. LatchInvariant => NoOrdinaryPostUnderSwitch
    BY DEF LatchInvariant
<1> QED
    BY <1>1, Invariant, PTL

\* Only the replacement of a release turns the document off.
LEMMA OnlyReleaseTurnsOff ==
    TypeOK /\ docKind = "on" /\ docKind' = "off" /\ [Next]_vars => ReleaseReplaces
<1> SUFFICES ASSUME TypeOK, docKind = "on", docKind' = "off", [Next]_vars, ~ReleaseReplaces
             PROVE FALSE
    OBVIOUS
<1> USE DEF disk
<1>1. CASE \E s \in Senders : SenderEnters(s) \/ SenderAdvances(s)
    BY <1>1 DEF SenderEnters, SenderAdvances, SenderTakesRoute, SenderTakesBoundary,
                SenderChecks, SenderPosted, SenderLeaves
<1>2. CASE (\E n \in Natives : NativeRequests(n)) \/ (\E p \in Engagers : EngageAdvances(p))
    BY <1>2 DEF NativeRequests, EngageAdvances, EngageTakesBoundary, EngageTakesWriteLock,
                EngageMarks, EngageReplaces, EngageFails, EngageVerifies, EngageReturns
<1>3. CASE (\E value \in BOOLEAN : OperatorRequests(value)) \/ OperatorAdvances
    BY <1>3 DEF OperatorRequests, OperatorAdvances, OperatorTakesSafety, OperatorTakesRoute,
                OperatorAssesses, OperatorSamples, OperatorConsumesChallenge,
                OperatorFailsChallenge, ReleaseTakesWriteLock, ReleaseRevisionChanged,
                ReleaseMarks, ReleaseFails, ReleaseFailed, ReleaseVerifies,
                ReleaseUnverified, OperatorPublishes
<1>4. CASE RecoveryAdvances
    BY <1>4 DEF RecoveryAdvances, RecoveryObserves, RecoveryApplies, RecoveryPublishes,
                RecoveryChecksGeneration, RecoveryCleansUp
<1>5. CASE DocumentLost \/ DocumentCorrupted \/ DirectoryLost \/ Crash
    BY <1>5 DEF DocumentLost, DocumentCorrupted, DirectoryLost, Crash
<1>6. CASE UNCHANGED vars
    BY <1>6 DEF vars
<1> QED
    BY <1>1, <1>2, <1>3, <1>4, <1>5, <1>6 DEF Next

(* A release that sampled a revision writes OFF over that very document:   *)
(* clear_emergency_stop's compare-and-set against a newer native Kill.     *)
THEOREM ReleaseComparesAndSets == Spec => ReleaseOnlySampledKill
<1>1. LatchInvariant /\ [Next]_vars
        => [docKind = "on" /\ docKind' = "off" => opExpected \in {NoRevision, docNonce}]_vars
  <2> SUFFICES ASSUME LatchInvariant, [Next]_vars, docKind = "on", docKind' = "off"
               PROVE opExpected \in {NoRevision, docNonce}
    OBVIOUS
  <2>1. ReleaseReplaces
    BY OnlyReleaseTurnsOff DEF LatchInvariant
  <2> QED
    BY <2>1 DEF LatchInvariant, ReleaseFacesSampled, ReleaseReplaces, Goto
<1> QED
    BY <1>1, Invariant, PTL DEF Spec, ReleaseOnlySampledKill
=============================================================================
