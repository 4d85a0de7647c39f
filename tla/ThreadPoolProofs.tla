-------------------------- MODULE ThreadPoolProofs --------------------------
(***************************************************************************)
(* ThreadPool's safety for every set of tasks and threads and every number *)
(* of calls: IndInv is inductive, and implies the type invariant, the      *)
(* count of the threads, the promise of Stop and that of Pause.            *)
(***************************************************************************)
EXTENDS ThreadPool, FiniteSetTheorems, TLAPS

\* Every set of workers is finite.
LEMMA WorkerSetsAreFinite ==
    ASSUME NEW S \in SUBSET Workers
    PROVE  IsFiniteSet(S) /\ Cardinality(S) \in Nat
BY FS_Subset, FS_CardinalityType, WorkersAssumption

\* What a worker that leaves, or joins, a set of workers does to its cardinality.
LEMMA OneLess ==
    ASSUME NEW S \in SUBSET Workers, NEW w \in S
    PROVE  Cardinality(S) > 0 /\ Cardinality(S \ {w}) = Cardinality(S) - 1
<1>1. IsFiniteSet(S) /\ Cardinality(S) \in Nat  BY WorkerSetsAreFinite
<1>2. IsFiniteSet(S \ {w}) /\ Cardinality(S \ {w}) \in Nat  BY WorkerSetsAreFinite
<1>3. Cardinality(S \ {w}) = Cardinality(S) - 1  BY <1>1, FS_RemoveElement
<1>4. QED  BY <1>1, <1>2, <1>3

LEMMA OneMore ==
    ASSUME NEW S \in SUBSET Workers, NEW w \in Workers, w \notin S
    PROVE  Cardinality(S \cup {w}) = Cardinality(S) + 1
BY WorkerSetsAreFinite, FS_AddElement

\* The workers waiting in Pop are alive, and both sets are finite.
LEMMA Counts == /\ Cardinality(Live) \in Nat /\ Cardinality(Popping) \in Nat
                /\ Cardinality(Popping) <= Cardinality(Live)
                /\ Live \subseteq Workers /\ Popping \subseteq Workers
<1>1. Live \subseteq Workers /\ Popping \subseteq Live  BY DEF Live, Popping
<1>2. IsFiniteSet(Live)  BY <1>1, WorkerSetsAreFinite
<1>3. Cardinality(Popping) <= Cardinality(Live)  BY <1>1, <1>2, FS_Subset
<1>4. QED  BY <1>1, <1>3, WorkerSetsAreFinite

LEMMA Initially == Init => IndInv
<1>0. SUFFICES ASSUME Init PROVE IndInv  OBVIOUS
<1>1. PICK size \in Sizes, first \in SUBSET Workers :
          /\ Cardinality(first) = size /\ numThreadOn = size
          /\ at = [w \in Workers |-> IF w \in first THEN "gate" ELSE "none"]
      BY <1>0 DEF Init
<1>2. size \in Nat /\ size > 0  BY WorkersAssumption
<1>3. Live = first /\ Popping = {}  BY <1>1 DEF Live, Popping
<1>4. Cardinality(Popping) = 0  BY <1>3, FS_EmptySet
<1>5. TypeOK  BY <1>0, <1>1, <1>2, NoneAssumption DEF Init, TypeOK, Queue, Calls, Ready
<1>6. CallFits  BY <1>0, <1>1, <1>2 DEF Init, CallFits, Ready
<1>7. TasksArePlaced  BY <1>0 DEF Init, TasksArePlaced
<1>8. ThreadsAreCounted
      BY <1>0, <1>1, <1>2, <1>3 DEF Init, ThreadsAreCounted, Ready, Apples
<1>9. PoppersAreCovered  BY <1>0, <1>4 DEF Init, PoppersAreCovered, Ready
<1>10. ApplesServeOwed  BY <1>0 DEF Init, ApplesServeOwed, Stopping, Ready
<1>11. QED  BY <1>5, <1>6, <1>7, <1>8, <1>9, <1>10 DEF IndInv

LEMMA AddKeeps ==
    ASSUME IndInv, NEW t \in Tasks, Add(t)
    PROVE  IndInv'
<1>1. TypeOK'
      BY NoneAssumption, WorkersAssumption, PriorityAssumption DEF IndInv, TypeOK, Queue, Calls, CallFits, Add
<1>2. Live' = Live /\ Popping' = Popping
      BY DEF IndInv, TypeOK, Live, Popping, Add
<1>3. Live' = Live  BY <1>2
<1>4. Cardinality(Live') = Cardinality(Live) /\ Cardinality(Popping') = Cardinality(Popping)
      BY <1>2, <1>3
<1>5. CallFits'
      BY <1>1, <1>3 DEF IndInv, TypeOK, CallFits, Calls, Live, Add
<1>6. TasksArePlaced'
  <2>1. t \notin owed  BY DEF IndInv, TasksArePlaced, Add
  <2>2. \A u \in Tasks : u # t => state'[u] = state[u] /\ (u \in queue'.tasks <=> u \in queue.tasks)
        BY DEF IndInv, TypeOK, Queue, Add
  <2>3. /\ state'[t] = "queued" <=> t \in queue'.tasks
        /\ state'[t] # "running"
        BY DEF IndInv, TypeOK, Queue, TasksArePlaced, Add
  <2>4. UNCHANGED <<owed, doing>>  BY DEF Add
  <2>5. owed \subseteq Tasks /\ doing \in [Workers -> Tasks \cup {None}]  BY DEF IndInv, TypeOK
  <2>6. \A v \in Workers : doing[v] # t  BY NoneAssumption DEF IndInv, TasksArePlaced, Add
  <2>7. QED  BY <2>1, <2>2, <2>3, <2>4, <2>5, <2>6, NoneAssumption DEF IndInv, TasksArePlaced
<1>7. ThreadsAreCounted'
      BY <1>1, <1>4, Counts DEF IndInv, TypeOK, ThreadsAreCounted, Apples, Made, CallFits, Queue, Calls, Add
<1>8. PoppersAreCovered'
      BY <1>1, <1>4, Counts DEF IndInv, TypeOK, PoppersAreCovered, Queue, Calls, Add
<1>9. ApplesServeOwed'
      BY <1>1 DEF IndInv, TypeOK, TasksArePlaced, ApplesServeOwed, Stopping, Made, Queue, Add
<1>10. QED  BY <1>1, <1>5, <1>6, <1>7, <1>8, <1>9 DEF IndInv

LEMMA PassGateKeeps ==
    ASSUME IndInv, NEW w \in Workers, PassGate(w)
    PROVE  IndInv'
<1>1. TypeOK'
      BY NoneAssumption, WorkersAssumption, PriorityAssumption DEF IndInv, TypeOK, Queue, Calls, CallFits, PassGate
<1>2. Live' = Live
      BY DEF IndInv, TypeOK, Live, Popping, PassGate
<1>3. Live' = Live  BY <1>2
<1>4. Cardinality(Live') = Cardinality(Live)
      BY <1>2, <1>3
<1>5. CallFits'
      BY <1>1, <1>3 DEF IndInv, TypeOK, CallFits, Calls, Live, PassGate
<1>6. TasksArePlaced'
      BY <1>1, NoneAssumption DEF IndInv, TypeOK, TasksArePlaced, PassGate
<1>7. ThreadsAreCounted'
      BY <1>1, <1>4, Counts DEF IndInv, TypeOK, ThreadsAreCounted, Apples, Made, CallFits, Queue, Calls, PassGate
<1>8. PoppersAreCovered'
      BY <1>1, <1>4, Counts DEF IndInv, TypeOK, PoppersAreCovered, Queue, Calls, PassGate
<1>9. ApplesServeOwed'
      BY <1>1 DEF IndInv, TypeOK, ApplesServeOwed, Stopping, Made, CallFits, Queue, Calls, PassGate
<1>10. QED  BY <1>1, <1>5, <1>6, <1>7, <1>8, <1>9 DEF IndInv

LEMMA FallAsleepKeeps ==
    ASSUME IndInv, NEW w \in Workers, FallAsleep(w)
    PROVE  IndInv'
<1>1. TypeOK'
      BY NoneAssumption, WorkersAssumption, PriorityAssumption DEF IndInv, TypeOK, Queue, Calls, CallFits, FallAsleep
<1>2. Live' = Live /\ Popping' = Popping
      BY DEF IndInv, TypeOK, Live, Popping, FallAsleep
<1>3. Live' = Live  BY <1>2
<1>4. Cardinality(Live') = Cardinality(Live) /\ Cardinality(Popping') = Cardinality(Popping)
      BY <1>2, <1>3
<1>5. CallFits'
      BY <1>1, <1>3 DEF IndInv, TypeOK, CallFits, Calls, Live, FallAsleep
<1>6. TasksArePlaced'
      BY <1>1, NoneAssumption DEF IndInv, TypeOK, TasksArePlaced, FallAsleep
<1>7. ThreadsAreCounted'
      BY <1>1, <1>4, Counts DEF IndInv, TypeOK, ThreadsAreCounted, Apples, Made, CallFits, Queue, Calls, FallAsleep
<1>8. PoppersAreCovered'
      BY <1>1, <1>4, Counts DEF IndInv, TypeOK, PoppersAreCovered, Queue, Calls, FallAsleep
<1>9. ApplesServeOwed'
      BY <1>1 DEF IndInv, TypeOK, ApplesServeOwed, Stopping, Made, CallFits, Queue, Calls, FallAsleep
<1>10. QED  BY <1>1, <1>5, <1>6, <1>7, <1>8, <1>9 DEF IndInv

LEMMA PopMockKeeps ==
    ASSUME IndInv, NEW w \in Workers, PopMock(w)
    PROVE  IndInv'
<1>1. TypeOK'
      BY NoneAssumption, WorkersAssumption, PriorityAssumption DEF IndInv, TypeOK, Queue, Calls, CallFits, PopMock
<1>2. Live' = Live /\ Popping' = Popping \ {w} /\ w \in Popping
      BY DEF IndInv, TypeOK, Live, Popping, PopMock
<1>3. Live \subseteq Workers /\ Popping \subseteq Workers  BY DEF Live, Popping
<1>4. Cardinality(Live') = Cardinality(Live) /\ Cardinality(Popping') = Cardinality(Popping) - 1
      BY <1>2, <1>3, OneLess
<1>5. CallFits'
      BY <1>1, <1>3 DEF IndInv, TypeOK, CallFits, Calls, Live, PopMock
<1>6. TasksArePlaced'
      BY <1>1, NoneAssumption DEF IndInv, TypeOK, TasksArePlaced, PopMock
<1>7. ThreadsAreCounted'
      BY <1>1, <1>4, Counts DEF IndInv, TypeOK, ThreadsAreCounted, Apples, Made, CallFits, Queue, Calls, PopMock
<1>8. PoppersAreCovered'
      BY <1>1, <1>4, Counts DEF IndInv, TypeOK, PoppersAreCovered, Queue, Calls, PopMock
<1>9. ApplesServeOwed'
      BY <1>1 DEF IndInv, TypeOK, ApplesServeOwed, Stopping, Made, CallFits, Queue, Calls, PopMock
<1>10. QED  BY <1>1, <1>5, <1>6, <1>7, <1>8, <1>9 DEF IndInv

LEMMA PopHighAppleKeeps ==
    ASSUME IndInv, NEW w \in Workers, PopHighApple(w)
    PROVE  IndInv'
<1>1. TypeOK'
      BY NoneAssumption, WorkersAssumption, PriorityAssumption DEF IndInv, TypeOK, Queue, Calls, CallFits, PopHighApple
<1>2. Live' = Live \ {w} /\ Popping' = Popping \ {w} /\ w \in Live /\ w \in Popping
      BY DEF IndInv, TypeOK, Live, Popping, PopHighApple
<1>3. Live \subseteq Workers /\ Popping \subseteq Workers  BY DEF Live, Popping
<1>4. Cardinality(Live')  = Cardinality(Live) - 1 /\ Cardinality(Popping') = Cardinality(Popping) - 1
      BY <1>2, <1>3, OneLess
<1>5. CallFits'
      BY <1>1, <1>3 DEF IndInv, TypeOK, CallFits, Calls, Live, PopHighApple
<1>6. TasksArePlaced'
      BY <1>1, NoneAssumption DEF IndInv, TypeOK, TasksArePlaced, PopHighApple
<1>7. ThreadsAreCounted'
      BY <1>1, <1>4, Counts DEF IndInv, TypeOK, ThreadsAreCounted, Apples, Made, CallFits, Queue, Calls, PopHighApple
<1>8. PoppersAreCovered'
      BY <1>1, <1>4, Counts DEF IndInv, TypeOK, PoppersAreCovered, Queue, Calls, PopHighApple
<1>9. ApplesServeOwed'
      BY <1>1 DEF IndInv, TypeOK, ApplesServeOwed, Stopping, Made, CallFits, Queue, Calls, PopHighApple
<1>10. QED  BY <1>1, <1>5, <1>6, <1>7, <1>8, <1>9 DEF IndInv

LEMMA PopTaskKeeps ==
    ASSUME IndInv, NEW w \in Workers, PopTask(w)
    PROVE  IndInv'
<1>1. TypeOK'
      BY NoneAssumption, WorkersAssumption, PriorityAssumption DEF IndInv, TypeOK, Queue, Calls, CallFits, PopTask
<1>2. Live' = Live /\ Popping' = Popping \ {w} /\ w \in Popping
      BY DEF IndInv, TypeOK, Live, Popping, PopTask
<1>3. Live \subseteq Workers /\ Popping \subseteq Workers  BY DEF Live, Popping
<1>4. Cardinality(Live') = Cardinality(Live) /\ Cardinality(Popping') = Cardinality(Popping) - 1
      BY <1>2, <1>3, OneLess
<1>5. CallFits'
      BY <1>1, <1>3 DEF IndInv, TypeOK, CallFits, Calls, Live, PopTask
<1>6. TasksArePlaced'
      BY <1>1, NoneAssumption DEF IndInv, TypeOK, TasksArePlaced, PopTask
<1>7. ThreadsAreCounted'
      BY <1>1, <1>4, Counts DEF IndInv, TypeOK, ThreadsAreCounted, Apples, Made, CallFits, Queue, Calls, PopTask
<1>8. PoppersAreCovered'
      BY <1>1, <1>4, Counts DEF IndInv, TypeOK, PoppersAreCovered, Queue, Calls, PopTask
<1>9. ApplesServeOwed'
      BY <1>1 DEF IndInv, TypeOK, ApplesServeOwed, Stopping, Made, CallFits, Queue, Calls, PopTask
<1>10. QED  BY <1>1, <1>5, <1>6, <1>7, <1>8, <1>9 DEF IndInv

LEMMA PopLowAppleKeeps ==
    ASSUME IndInv, NEW w \in Workers, PopLowApple(w)
    PROVE  IndInv'
<1>1. TypeOK'
      BY NoneAssumption, WorkersAssumption, PriorityAssumption DEF IndInv, TypeOK, Queue, Calls, CallFits, PopLowApple
<1>2. Live' = Live \ {w} /\ Popping' = Popping \ {w} /\ w \in Live /\ w \in Popping
      BY DEF IndInv, TypeOK, Live, Popping, PopLowApple
<1>3. Live \subseteq Workers /\ Popping \subseteq Workers  BY DEF Live, Popping
<1>4. Cardinality(Live')  = Cardinality(Live) - 1 /\ Cardinality(Popping') = Cardinality(Popping) - 1
      BY <1>2, <1>3, OneLess
<1>5. CallFits'
      BY <1>1, <1>3 DEF IndInv, TypeOK, CallFits, Calls, Live, PopLowApple
<1>6. TasksArePlaced'
      BY <1>1, NoneAssumption DEF IndInv, TypeOK, TasksArePlaced, PopLowApple
<1>7. ThreadsAreCounted'
      BY <1>1, <1>4, Counts DEF IndInv, TypeOK, ThreadsAreCounted, Apples, Made, CallFits, Queue, Calls, PopLowApple
<1>8. PoppersAreCovered'
      BY <1>1, <1>4, Counts DEF IndInv, TypeOK, PoppersAreCovered, Queue, Calls, PopLowApple
<1>9. ApplesServeOwed'
      BY <1>1 DEF IndInv, TypeOK, ApplesServeOwed, Stopping, Made, CallFits, Queue, Calls, PopLowApple
<1>10. QED  BY <1>1, <1>5, <1>6, <1>7, <1>8, <1>9 DEF IndInv

LEMMA FinishTaskKeeps ==
    ASSUME IndInv, NEW w \in Workers, FinishTask(w)
    PROVE  IndInv'
<1>1. TypeOK'
      BY NoneAssumption, WorkersAssumption, PriorityAssumption DEF IndInv, TypeOK, Queue, Calls, CallFits, FinishTask
<1>2. Live' = Live /\ Popping' = Popping
      BY DEF IndInv, TypeOK, Live, Popping, FinishTask
<1>3. Live' = Live  BY <1>2
<1>4. Cardinality(Live') = Cardinality(Live) /\ Cardinality(Popping') = Cardinality(Popping)
      BY <1>2, <1>3
<1>5. CallFits'
      BY <1>1, <1>3 DEF IndInv, TypeOK, CallFits, Calls, Live, FinishTask
<1>6. TasksArePlaced'
      BY <1>1, NoneAssumption DEF IndInv, TypeOK, TasksArePlaced, FinishTask
<1>7. ThreadsAreCounted'
      BY <1>1, <1>4, Counts DEF IndInv, TypeOK, ThreadsAreCounted, Apples, Made, CallFits, Queue, Calls, FinishTask
<1>8. PoppersAreCovered'
      BY <1>1, <1>4, Counts DEF IndInv, TypeOK, PoppersAreCovered, Queue, Calls, FinishTask
<1>9. ApplesServeOwed'
      BY <1>1 DEF IndInv, TypeOK, ApplesServeOwed, Stopping, Made, CallFits, Queue, Calls, FinishTask
<1>10. QED  BY <1>1, <1>5, <1>6, <1>7, <1>8, <1>9 DEF IndInv

LEMMA RunKeeps ==
    ASSUME IndInv, Run
    PROVE  IndInv'
<1>1. TypeOK'
      BY NoneAssumption, WorkersAssumption, PriorityAssumption DEF IndInv, TypeOK, Queue, Calls, CallFits, Run, Enter, Ready
<1>2. Live' = Live /\ Popping' = Popping
      BY DEF IndInv, TypeOK, Live, Popping, Run, Enter, Ready
<1>3. Live' = Live  BY <1>2
<1>4. Cardinality(Live') = Cardinality(Live) /\ Cardinality(Popping') = Cardinality(Popping)
      BY <1>2, <1>3
<1>5. CallFits'
      BY <1>1, <1>3 DEF IndInv, TypeOK, CallFits, Calls, Live, Run, Enter, Ready
<1>6. TasksArePlaced'
      BY <1>1, NoneAssumption DEF IndInv, TypeOK, TasksArePlaced, Run, Enter, Ready
<1>7. ThreadsAreCounted'
      BY <1>1, <1>4, Counts DEF IndInv, TypeOK, ThreadsAreCounted, Apples, Made, CallFits, Queue, Calls, Run, Enter, Ready
<1>8. PoppersAreCovered'
      BY <1>1, <1>4, Counts DEF IndInv, TypeOK, PoppersAreCovered, Queue, Calls, Run, Enter, Ready
<1>9. ApplesServeOwed'
      BY <1>1 DEF IndInv, TypeOK, ApplesServeOwed, Stopping, Made, CallFits, Queue, Calls, Run, Enter, Ready
<1>10. QED  BY <1>1, <1>5, <1>6, <1>7, <1>8, <1>9 DEF IndInv

LEMMA RunNotifyKeeps ==
    ASSUME IndInv, RunNotify
    PROVE  IndInv'
<1>1. TypeOK'
      BY NoneAssumption, WorkersAssumption, PriorityAssumption DEF IndInv, TypeOK, Queue, Calls, CallFits, RunNotify, WakeAll, Ready
<1>2. Live' = Live /\ Popping' = Popping
      BY DEF IndInv, TypeOK, Live, Popping, RunNotify, WakeAll, Ready
<1>3. Live' = Live  BY <1>2
<1>4. Cardinality(Live') = Cardinality(Live) /\ Cardinality(Popping') = Cardinality(Popping)
      BY <1>2, <1>3
<1>5. CallFits'
      BY <1>1, <1>3 DEF IndInv, TypeOK, CallFits, Calls, Live, RunNotify, WakeAll, Ready
<1>6. TasksArePlaced'
      BY <1>1, NoneAssumption DEF IndInv, TypeOK, TasksArePlaced, RunNotify, WakeAll, Ready
<1>7. ThreadsAreCounted'
      BY <1>1, <1>4, Counts DEF IndInv, TypeOK, ThreadsAreCounted, Apples, Made, CallFits, Queue, Calls, RunNotify, WakeAll, Ready
<1>8. PoppersAreCovered'
      BY <1>1, <1>4, Counts DEF IndInv, TypeOK, PoppersAreCovered, Queue, Calls, RunNotify, WakeAll, Ready
<1>9. ApplesServeOwed'
      BY <1>1 DEF IndInv, TypeOK, ApplesServeOwed, Stopping, Made, CallFits, Queue, Calls, RunNotify, WakeAll, Ready
<1>10. QED  BY <1>1, <1>5, <1>6, <1>7, <1>8, <1>9 DEF IndInv

LEMMA PauseKeeps ==
    ASSUME IndInv, Pause
    PROVE  IndInv'
<1>1. TypeOK'
      BY NoneAssumption, WorkersAssumption, PriorityAssumption DEF IndInv, TypeOK, Queue, Calls, CallFits, Pause, Enter, Ready
<1>2. Live' = Live /\ Popping' = Popping
      BY DEF IndInv, TypeOK, Live, Popping, Pause, Enter, Ready
<1>3. Live' = Live  BY <1>2
<1>4. Cardinality(Live') = Cardinality(Live) /\ Cardinality(Popping') = Cardinality(Popping)
      BY <1>2, <1>3
<1>5. CallFits'
      BY <1>1, <1>3 DEF IndInv, TypeOK, CallFits, Calls, Live, Pause, Enter, Ready
<1>6. TasksArePlaced'
      BY <1>1, NoneAssumption DEF IndInv, TypeOK, TasksArePlaced, Pause, Enter, Ready
<1>7. ThreadsAreCounted'
      BY <1>1, <1>4, Counts DEF IndInv, TypeOK, ThreadsAreCounted, Apples, Made, CallFits, Queue, Calls, Pause, Enter, Ready
<1>8. PoppersAreCovered'
      BY <1>1, <1>4, Counts DEF IndInv, TypeOK, PoppersAreCovered, Queue, Calls, ThreadsAreCounted, Apples, ApplesServeOwed, Stopping, CallFits, Pause, Enter, Ready
<1>9. ApplesServeOwed'
      BY <1>1 DEF IndInv, TypeOK, ApplesServeOwed, Stopping, Made, CallFits, Queue, Calls, Pause, Enter, Ready
<1>10. QED  BY <1>1, <1>5, <1>6, <1>7, <1>8, <1>9 DEF IndInv

LEMMA PauseAddMockKeeps ==
    ASSUME IndInv, PauseAddMock
    PROVE  IndInv'
<1>1. TypeOK'
      BY NoneAssumption, WorkersAssumption, PriorityAssumption DEF IndInv, TypeOK, Queue, Calls, CallFits, PauseAddMock, Iterate
<1>2. Live' = Live /\ Popping' = Popping
      BY DEF IndInv, TypeOK, Live, Popping, PauseAddMock, Iterate
<1>3. Live' = Live  BY <1>2
<1>4. Cardinality(Live') = Cardinality(Live) /\ Cardinality(Popping') = Cardinality(Popping)
      BY <1>2, <1>3
<1>5. CallFits'
      BY <1>1, <1>3 DEF IndInv, TypeOK, CallFits, Calls, Live, PauseAddMock, Iterate
<1>6. TasksArePlaced'
      BY <1>1, NoneAssumption DEF IndInv, TypeOK, TasksArePlaced, PauseAddMock, Iterate
<1>7. ThreadsAreCounted'
      BY <1>1, <1>4, Counts DEF IndInv, TypeOK, ThreadsAreCounted, Apples, Made, CallFits, Queue, Calls, PauseAddMock, Iterate
<1>8. PoppersAreCovered'
      BY <1>1, <1>4, Counts DEF IndInv, TypeOK, PoppersAreCovered, Queue, Calls, PauseAddMock, Iterate
<1>9. ApplesServeOwed'
      BY <1>1 DEF IndInv, TypeOK, ApplesServeOwed, Stopping, Made, CallFits, Queue, Calls, PauseAddMock, Iterate
<1>10. QED  BY <1>1, <1>5, <1>6, <1>7, <1>8, <1>9 DEF IndInv

LEMMA PauseNotifyKeeps ==
    ASSUME IndInv, PauseNotify
    PROVE  IndInv'
<1>1. TypeOK'
      BY NoneAssumption, WorkersAssumption, PriorityAssumption DEF IndInv, TypeOK, Queue, Calls, CallFits, PauseNotify, WakeAll, Ready
<1>2. Live' = Live /\ Popping' = Popping
      BY DEF IndInv, TypeOK, Live, Popping, PauseNotify, WakeAll, Ready
<1>3. Live' = Live  BY <1>2
<1>4. Cardinality(Live') = Cardinality(Live) /\ Cardinality(Popping') = Cardinality(Popping)
      BY <1>2, <1>3
<1>5. CallFits'
      BY <1>1, <1>3 DEF IndInv, TypeOK, CallFits, Calls, Live, PauseNotify, WakeAll, Ready
<1>6. TasksArePlaced'
      BY <1>1, NoneAssumption DEF IndInv, TypeOK, TasksArePlaced, PauseNotify, WakeAll, Ready
<1>7. ThreadsAreCounted'
      BY <1>1, <1>4, Counts DEF IndInv, TypeOK, ThreadsAreCounted, Apples, Made, CallFits, Queue, Calls, PauseNotify, WakeAll, Ready
<1>8. PoppersAreCovered'
      BY <1>1, <1>4, Counts DEF IndInv, TypeOK, PoppersAreCovered, Queue, Calls, PauseNotify, WakeAll, Ready
<1>9. ApplesServeOwed'
      BY <1>1 DEF IndInv, TypeOK, ApplesServeOwed, Stopping, Made, CallFits, Queue, Calls, PauseNotify, WakeAll, Ready
<1>10. QED  BY <1>1, <1>5, <1>6, <1>7, <1>8, <1>9 DEF IndInv

LEMMA SetNumOfThreadKeeps ==
    ASSUME IndInv, SetNumOfThread
    PROVE  IndInv'
<1>1. TypeOK'
      BY NoneAssumption, WorkersAssumption, PriorityAssumption DEF IndInv, TypeOK, Queue, Calls, CallFits, SetNumOfThread, Enter, Ready
<1>2. Live' = Live /\ Popping' = Popping
      BY DEF IndInv, TypeOK, Live, Popping, SetNumOfThread, Enter, Ready
<1>3. Live' = Live  BY <1>2
<1>4. Cardinality(Live') = Cardinality(Live) /\ Cardinality(Popping') = Cardinality(Popping)
      BY <1>2, <1>3
<1>5. CallFits'
      BY <1>1, <1>3, WorkersAssumption DEF IndInv, TypeOK, CallFits, Calls, Live, SetNumOfThread, Enter, Ready
<1>6. TasksArePlaced'
      BY <1>1, NoneAssumption, WorkersAssumption DEF IndInv, TypeOK, TasksArePlaced, SetNumOfThread, Enter, Ready
<1>7. ThreadsAreCounted'
      BY <1>1, <1>4, Counts, WorkersAssumption DEF IndInv, TypeOK, ThreadsAreCounted, Apples, Made, CallFits, Queue, Calls, SetNumOfThread, Enter, Ready
<1>8. PoppersAreCovered'
      BY <1>1, <1>4, Counts, WorkersAssumption DEF IndInv, TypeOK, PoppersAreCovered, Queue, Calls, SetNumOfThread, Enter, Ready
<1>9. ApplesServeOwed'
      BY <1>1, WorkersAssumption DEF IndInv, TypeOK, ApplesServeOwed, Stopping, Made, CallFits, Queue, Calls, SetNumOfThread, Enter, Ready
<1>10. QED  BY <1>1, <1>5, <1>6, <1>7, <1>8, <1>9 DEF IndInv

LEMMA CreateThreadKeeps ==
    ASSUME IndInv, CreateThread
    PROVE  IndInv'
<1>1. TypeOK'
      BY NoneAssumption, WorkersAssumption, PriorityAssumption DEF IndInv, TypeOK, Queue, Calls, CallFits, CreateThread, Iterate
<1>2. PICK w \in Workers : at[w] = "none" /\ at' = [at EXCEPT ![w] = "gate"]  BY DEF CreateThread
<1>3. Live' = Live \cup {w} /\ w \notin Live /\ Popping' = Popping
      BY <1>2 DEF IndInv, TypeOK, Live, Popping
<1>4. Cardinality(Live') = Cardinality(Live) + 1 /\ Cardinality(Popping') = Cardinality(Popping)
      BY <1>3, Counts, OneMore
<1>5. CallFits'
      BY <1>1, <1>3 DEF IndInv, TypeOK, CallFits, Calls, Live, CreateThread, Iterate
<1>6. TasksArePlaced'
      BY <1>1, NoneAssumption DEF IndInv, TypeOK, TasksArePlaced, CreateThread, Iterate
<1>7. ThreadsAreCounted'
      BY <1>1, <1>4, Counts DEF IndInv, TypeOK, ThreadsAreCounted, Apples, Made, CallFits, Queue, Calls, CreateThread, Iterate
<1>8. PoppersAreCovered'
      BY <1>1, <1>4, Counts DEF IndInv, TypeOK, PoppersAreCovered, Queue, Calls, CreateThread, Iterate
<1>9. ApplesServeOwed'
      BY <1>1 DEF IndInv, TypeOK, ApplesServeOwed, Stopping, Made, CallFits, Queue, Calls, CreateThread, Iterate
<1>10. QED  BY <1>1, <1>5, <1>6, <1>7, <1>8, <1>9 DEF IndInv

LEMMA CreateThreadsEndKeeps ==
    ASSUME IndInv, CreateThreadsEnd
    PROVE  IndInv'
<1>1. TypeOK'
      BY NoneAssumption, WorkersAssumption, PriorityAssumption DEF IndInv, TypeOK, Queue, Calls, CallFits, CreateThreadsEnd, Ready
<1>2. Live' = Live /\ Popping' = Popping
      BY DEF IndInv, TypeOK, Live, Popping, CreateThreadsEnd, Ready
<1>3. Live' = Live  BY <1>2
<1>4. Cardinality(Live') = Cardinality(Live) /\ Cardinality(Popping') = Cardinality(Popping)
      BY <1>2, <1>3
<1>5. CallFits'
      BY <1>1, <1>3 DEF IndInv, TypeOK, CallFits, Calls, Live, CreateThreadsEnd, Ready
<1>6. TasksArePlaced'
      BY <1>1, NoneAssumption DEF IndInv, TypeOK, TasksArePlaced, CreateThreadsEnd, Ready
<1>7. ThreadsAreCounted'
      BY <1>1, <1>4, Counts DEF IndInv, TypeOK, ThreadsAreCounted, Apples, Made, CallFits, Queue, Calls, CreateThreadsEnd, Ready
<1>8. PoppersAreCovered'
      BY <1>1, <1>4, Counts DEF IndInv, TypeOK, PoppersAreCovered, Queue, Calls, CreateThreadsEnd, Ready
<1>9. ApplesServeOwed'
      BY <1>1 DEF IndInv, TypeOK, ApplesServeOwed, Stopping, Made, CallFits, Queue, Calls, CreateThreadsEnd, Ready
<1>10. QED  BY <1>1, <1>5, <1>6, <1>7, <1>8, <1>9 DEF IndInv

LEMMA ShrinkAddAppleKeeps ==
    ASSUME IndInv, ShrinkAddApple
    PROVE  IndInv'
<1>1. TypeOK'
      BY NoneAssumption, WorkersAssumption, PriorityAssumption DEF IndInv, TypeOK, Queue, Calls, CallFits, ShrinkAddApple, Iterate
<1>2. Live' = Live /\ Popping' = Popping
      BY DEF IndInv, TypeOK, Live, Popping, ShrinkAddApple, Iterate
<1>3. Live' = Live  BY <1>2
<1>4. Cardinality(Live') = Cardinality(Live) /\ Cardinality(Popping') = Cardinality(Popping)
      BY <1>2, <1>3
<1>5. CallFits'
      BY <1>1, <1>3 DEF IndInv, TypeOK, CallFits, Calls, Live, ShrinkAddApple, Iterate
<1>6. TasksArePlaced'
      BY <1>1, NoneAssumption DEF IndInv, TypeOK, TasksArePlaced, ShrinkAddApple, Iterate
<1>7. ThreadsAreCounted'
      BY <1>1, <1>4, Counts DEF IndInv, TypeOK, ThreadsAreCounted, Apples, Made, CallFits, Queue, Calls, ShrinkAddApple, Iterate
<1>8. PoppersAreCovered'
      BY <1>1, <1>4, Counts DEF IndInv, TypeOK, PoppersAreCovered, Queue, Calls, ShrinkAddApple, Iterate
<1>9. ApplesServeOwed'
      BY <1>1 DEF IndInv, TypeOK, ApplesServeOwed, Stopping, Made, CallFits, Queue, Calls, ShrinkAddApple, Iterate
<1>10. QED  BY <1>1, <1>5, <1>6, <1>7, <1>8, <1>9 DEF IndInv

LEMMA ShrinkEndKeeps ==
    ASSUME IndInv, ShrinkEnd
    PROVE  IndInv'
<1>1. TypeOK'
      BY NoneAssumption, WorkersAssumption, PriorityAssumption DEF IndInv, TypeOK, Queue, Calls, CallFits, ShrinkEnd, Ready
<1>2. Live' = Live /\ Popping' = Popping
      BY DEF IndInv, TypeOK, Live, Popping, ShrinkEnd, Ready
<1>3. Live' = Live  BY <1>2
<1>4. Cardinality(Live') = Cardinality(Live) /\ Cardinality(Popping') = Cardinality(Popping)
      BY <1>2, <1>3
<1>5. CallFits'
      BY <1>1, <1>3 DEF IndInv, TypeOK, CallFits, Calls, Live, ShrinkEnd, Ready
<1>6. TasksArePlaced'
      BY <1>1, NoneAssumption DEF IndInv, TypeOK, TasksArePlaced, ShrinkEnd, Ready
<1>7. ThreadsAreCounted'
      BY <1>1, <1>4, Counts DEF IndInv, TypeOK, ThreadsAreCounted, Apples, Made, CallFits, Queue, Calls, ShrinkEnd, Ready
<1>8. PoppersAreCovered'
      BY <1>1, <1>4, Counts DEF IndInv, TypeOK, PoppersAreCovered, Queue, Calls, ShrinkEnd, Ready
<1>9. ApplesServeOwed'
      BY <1>1 DEF IndInv, TypeOK, ApplesServeOwed, Stopping, Made, CallFits, Queue, Calls, ShrinkEnd, Ready
<1>10. QED  BY <1>1, <1>5, <1>6, <1>7, <1>8, <1>9 DEF IndInv

LEMMA StopKeeps ==
    ASSUME IndInv, Stop
    PROVE  IndInv'
<1>1. TypeOK'
      BY NoneAssumption, WorkersAssumption, PriorityAssumption DEF IndInv, TypeOK, Queue, Calls, CallFits, Stop, Enter, Ready
<1>2. Live' = Live /\ Popping' = Popping
      BY DEF IndInv, TypeOK, Live, Popping, Stop, Enter, Ready
<1>3. Live' = Live  BY <1>2
<1>4. Cardinality(Live') = Cardinality(Live) /\ Cardinality(Popping') = Cardinality(Popping)
      BY <1>2, <1>3
<1>5. CallFits'
      BY <1>1, <1>3 DEF IndInv, TypeOK, CallFits, Calls, Live, Stop, Enter, Ready
<1>6. TasksArePlaced'
      BY <1>1, NoneAssumption DEF IndInv, TypeOK, TasksArePlaced, Stop, Enter, Ready
<1>7. ThreadsAreCounted'
      BY <1>1, <1>4, Counts DEF IndInv, TypeOK, ThreadsAreCounted, Apples, Made, CallFits, Queue, Calls, Stop, Enter, Ready
<1>8. PoppersAreCovered'
      BY <1>1, <1>4, Counts DEF IndInv, TypeOK, PoppersAreCovered, Queue, Calls, Stop, Enter, Ready
<1>9. ApplesServeOwed'
      BY <1>1 DEF IndInv, TypeOK, ApplesServeOwed, Stopping, Made, CallFits, Queue, Calls, Stop, Enter, Ready
<1>10. QED  BY <1>1, <1>5, <1>6, <1>7, <1>8, <1>9 DEF IndInv

LEMMA StopAddAppleKeeps ==
    ASSUME IndInv, StopAddApple
    PROVE  IndInv'
<1>1. TypeOK'
      BY NoneAssumption, WorkersAssumption, PriorityAssumption DEF IndInv, TypeOK, Queue, Calls, CallFits, StopAddApple, Iterate
<1>2. Live' = Live /\ Popping' = Popping
      BY DEF IndInv, TypeOK, Live, Popping, StopAddApple, Iterate
<1>3. Live' = Live  BY <1>2
<1>4. Cardinality(Live') = Cardinality(Live) /\ Cardinality(Popping') = Cardinality(Popping)
      BY <1>2, <1>3
<1>5. CallFits'
      BY <1>1, <1>3 DEF IndInv, TypeOK, CallFits, Calls, Live, StopAddApple, Iterate
<1>6. TasksArePlaced'
      BY <1>1, NoneAssumption DEF IndInv, TypeOK, TasksArePlaced, StopAddApple, Iterate
<1>7. ThreadsAreCounted'
      BY <1>1, <1>4, Counts DEF IndInv, TypeOK, ThreadsAreCounted, Apples, Made, CallFits, Queue, Calls, StopAddApple, Iterate
<1>8. PoppersAreCovered'
      BY <1>1, <1>4, Counts DEF IndInv, TypeOK, PoppersAreCovered, Queue, Calls, StopAddApple, Iterate
<1>9. ApplesServeOwed'
      BY <1>1 DEF IndInv, TypeOK, ApplesServeOwed, Stopping, Made, CallFits, Queue, Calls, StopAddApple, Iterate
<1>10. QED  BY <1>1, <1>5, <1>6, <1>7, <1>8, <1>9 DEF IndInv

LEMMA StopCloseKeeps ==
    ASSUME IndInv, StopClose
    PROVE  IndInv'
<1>1. TypeOK'
      BY NoneAssumption, WorkersAssumption, PriorityAssumption DEF IndInv, TypeOK, Queue, Calls, CallFits, StopClose, Continue
<1>2. Live' = Live /\ Popping' = Popping
      BY DEF IndInv, TypeOK, Live, Popping, StopClose, Continue
<1>3. Live' = Live  BY <1>2
<1>4. Cardinality(Live') = Cardinality(Live) /\ Cardinality(Popping') = Cardinality(Popping)
      BY <1>2, <1>3
<1>5. CallFits'
      BY <1>1, <1>3 DEF IndInv, TypeOK, CallFits, Calls, Live, StopClose, Continue
<1>6. TasksArePlaced'
      BY <1>1, NoneAssumption DEF IndInv, TypeOK, TasksArePlaced, StopClose, Continue
<1>7. ThreadsAreCounted'
      BY <1>1, <1>4, Counts DEF IndInv, TypeOK, ThreadsAreCounted, Apples, Made, CallFits, Queue, Calls, StopClose, Continue
<1>8. PoppersAreCovered'
      BY <1>1, <1>4, Counts DEF IndInv, TypeOK, PoppersAreCovered, Queue, Calls, StopClose, Continue
<1>9. ApplesServeOwed'
      BY <1>1 DEF IndInv, TypeOK, ApplesServeOwed, Stopping, Made, CallFits, Queue, Calls, StopClose, Continue
<1>10. QED  BY <1>1, <1>5, <1>6, <1>7, <1>8, <1>9 DEF IndInv

LEMMA StopNotifyKeeps ==
    ASSUME IndInv, StopNotify
    PROVE  IndInv'
<1>1. TypeOK'
      BY NoneAssumption, WorkersAssumption, PriorityAssumption DEF IndInv, TypeOK, Queue, Calls, CallFits, StopNotify, WakeAll, Continue
<1>2. Live' = Live /\ Popping' = Popping
      BY DEF IndInv, TypeOK, Live, Popping, StopNotify, WakeAll, Continue
<1>3. Live' = Live  BY <1>2
<1>4. Cardinality(Live') = Cardinality(Live) /\ Cardinality(Popping') = Cardinality(Popping)
      BY <1>2, <1>3
<1>5. CallFits'
      BY <1>1, <1>3 DEF IndInv, TypeOK, CallFits, Calls, Live, StopNotify, WakeAll, Continue
<1>6. TasksArePlaced'
      BY <1>1, NoneAssumption DEF IndInv, TypeOK, TasksArePlaced, StopNotify, WakeAll, Continue
<1>7. ThreadsAreCounted'
      BY <1>1, <1>4, Counts DEF IndInv, TypeOK, ThreadsAreCounted, Apples, Made, CallFits, Queue, Calls, StopNotify, WakeAll, Continue
<1>8. PoppersAreCovered'
      BY <1>1, <1>4, Counts DEF IndInv, TypeOK, PoppersAreCovered, Queue, Calls, StopNotify, WakeAll, Continue
<1>9. ApplesServeOwed'
      BY <1>1 DEF IndInv, TypeOK, ApplesServeOwed, Stopping, Made, CallFits, Queue, Calls, StopNotify, WakeAll, Continue
<1>10. QED  BY <1>1, <1>5, <1>6, <1>7, <1>8, <1>9 DEF IndInv

LEMMA JoinKeeps ==
    ASSUME IndInv, Join
    PROVE  IndInv'
<1>1. TypeOK'
      BY NoneAssumption, WorkersAssumption, PriorityAssumption DEF IndInv, TypeOK, Queue, Calls, CallFits, Join, Continue
<1>2. Live' = Live /\ Popping' = Popping
      BY DEF IndInv, TypeOK, Live, Popping, Join, Continue
<1>3. Live' = Live  BY <1>2
<1>4. Cardinality(Live') = Cardinality(Live) /\ Cardinality(Popping') = Cardinality(Popping)
      BY <1>2, <1>3
<1>5. CallFits'
      BY <1>1, <1>3 DEF IndInv, TypeOK, CallFits, Calls, Live, Join, Continue
<1>6. TasksArePlaced'
      BY <1>1, NoneAssumption DEF IndInv, TypeOK, TasksArePlaced, Join, Continue
<1>7. ThreadsAreCounted'
      BY <1>1, <1>4, Counts DEF IndInv, TypeOK, ThreadsAreCounted, Apples, Made, CallFits, Queue, Calls, Join, Continue
<1>8. PoppersAreCovered'
      BY <1>1, <1>4, Counts DEF IndInv, TypeOK, PoppersAreCovered, Queue, Calls, Join, Continue
<1>9. ApplesServeOwed'
      BY <1>1 DEF IndInv, TypeOK, ApplesServeOwed, Stopping, Made, CallFits, Queue, Calls, Join, Continue
<1>10. QED  BY <1>1, <1>5, <1>6, <1>7, <1>8, <1>9 DEF IndInv

\* Every reachable state satisfies the inductive invariant.
THEOREM Invariance == Spec => []IndInv
<1>1. IndInv /\ [Next]_vars => IndInv'
  <2>1. SUFFICES ASSUME IndInv, [Next]_vars PROVE IndInv'  OBVIOUS
  <2>2. CASE UNCHANGED vars
        BY <2>1, <2>2 DEF vars, IndInv, TypeOK, CallFits, TasksArePlaced, ThreadsAreCounted,
           PoppersAreCovered, ApplesServeOwed, Stopping, Made, Apples, Live, Popping
  <2>3. CASE \E t \in Tasks : Add(t)  BY <2>1, <2>3, AddKeeps
  <2>4. CASE \E w \in Workers : WorkerStep(w)
        BY <2>1, <2>4, PassGateKeeps, FallAsleepKeeps, PopMockKeeps, PopHighAppleKeeps,
           PopTaskKeeps, PopLowAppleKeeps, FinishTaskKeeps DEF WorkerStep
  <2>5. CASE OwnerStep
        BY <2>1, <2>5, RunNotifyKeeps, PauseAddMockKeeps, PauseNotifyKeeps, CreateThreadKeeps,
           CreateThreadsEndKeeps, ShrinkAddAppleKeeps, ShrinkEndKeeps, StopAddAppleKeeps,
           StopCloseKeeps, StopNotifyKeeps, JoinKeeps DEF OwnerStep
  <2>6. CASE OwnerCall
        BY <2>1, <2>6, RunKeeps, PauseKeeps, SetNumOfThreadKeeps, StopKeeps DEF OwnerCall
  <2>7. CASE Terminated  BY <2>2, <2>7 DEF Terminated
  <2>8. QED  BY <2>1, <2>2, <2>3, <2>4, <2>5, <2>6, <2>7 DEF Next
<1>2. QED  BY <1>1, Initially, PTL DEF Spec

\* Every variable keeps its type, for all tasks, threads and sizes.
THEOREM TypeCorrect == Spec => []TypeOK
<1>1. IndInv => TypeOK  BY DEF IndInv
<1>2. QED  BY <1>1, Invariance, PTL

\* No apple is missing or left over, however resizes, pauses and Stop interleave with
\* the workers.
THEOREM Counted == Spec => []ThreadsAreCounted
<1>1. IndInv => ThreadsAreCounted  BY DEF IndInv
<1>2. QED  BY <1>1, Invariance, PTL

\* A joined pool has done every task it held when Stop was called: if one were still
\* queued, no apple of Stop would have been popped, so a thread would be alive.
THEOREM OwesNothing == Spec => []StoppedPoolOwesNothing
<1>1. IndInv => StoppedPoolOwesNothing
  <2>1. SUFFICES ASSUME IndInv, call.name = "joined", NEW t \in owed
                 PROVE  state[t] = "done"
        BY DEF StoppedPoolOwesNothing
  <2>2. Live = {}  BY <2>1 DEF IndInv, CallFits
  <2>3. state[t] # "running"
    <3>1. ASSUME state[t] = "running" PROVE FALSE
      <4>1. t \in Tasks  BY <2>1 DEF IndInv, TypeOK
      <4>2. PICK w \in Workers : doing[w] = t  BY <2>1, <3>1, <4>1 DEF IndInv, TasksArePlaced
      <4>3. at[w] = "work"  BY <2>1, <4>1, <4>2, NoneAssumption DEF IndInv, TypeOK
      <4>4. w \in Live  BY <4>2, <4>3 DEF Live
      <4>5. QED  BY <2>2, <4>4
    <3>2. QED  BY <3>1
  <2>4. state[t] # "queued"
    <3>1. ASSUME state[t] = "queued" PROVE FALSE
      <4>1. t \in owed \cap queue.tasks  BY <2>1, <3>1 DEF IndInv, TypeOK, TasksArePlaced
      <4>2. queue.lowApples = Made  BY <2>1, <4>1 DEF IndInv, ApplesServeOwed, Stopping
      <4>3. Made > 0 /\ numThreadOn = 0  BY <2>1 DEF IndInv, TypeOK, Calls, CallFits, Made
      <4>4. Cardinality(Live) = 0  BY <2>2, FS_EmptySet
      <4>5. Cardinality(Live) = numThreadOn + Apples
            BY <2>1 DEF IndInv, TypeOK, Queue, ThreadsAreCounted, Apples
      <4>6. queue.highApples \in Nat /\ queue.lowApples \in Nat
            BY <2>1 DEF IndInv, TypeOK, Queue
      <4>7. QED  BY <4>2, <4>3, <4>4, <4>5, <4>6 DEF Apples
    <3>2. QED  BY <3>1
  <2>5. state[t] \in {"queued", "running", "done"}  BY <2>1 DEF IndInv, TasksArePlaced
  <2>6. QED  BY <2>3, <2>4, <2>5
<1>2. QED  BY <1>1, Invariance, PTL

\* Between the return of Pause and the next Run or Stop no task starts: a worker that
\* pops one would be a worker in Pop without a mock or an apple before it.
THEOREM PauseHolds == Spec => PausedPoolStartsNothing
<1> DEFINE Quiet ==
      status = "PAUSED" /\ call.name # "pause"
        => \A t \in Tasks : state[t] # "running" => state'[t] # "running"
<1>1. IndInv /\ [Next]_vars => [Quiet]_vars
  <2>1. SUFFICES ASSUME IndInv, Next, status = "PAUSED", call.name # "pause",
                        NEW t \in Tasks, state[t] # "running"
                 PROVE  state'[t] # "running"
        BY DEF vars
  <2>2. \A w \in Workers : ~ PopTask(w)
    <3>1. SUFFICES ASSUME NEW w \in Workers, PopTask(w) PROVE FALSE  OBVIOUS
    <3>2. w \in Popping /\ queue.mocks = 0 /\ queue.highApples = 0
          BY <3>1 DEF PopTask, Popping
    <3>3. Cardinality(Popping) <= 0  BY <2>1, <3>2 DEF IndInv, PoppersAreCovered
    <3>4. Cardinality(Popping) > 0  BY <3>2, Counts, OneLess
    <3>5. QED  BY <3>3, <3>4, Counts
  <2>3. CASE \E u \in Tasks : Add(u)  BY <2>1, <2>3 DEF Add, IndInv, TypeOK
  <2>4. CASE \E w \in Workers : WorkerStep(w)
        BY <2>1, <2>2, <2>4 DEF WorkerStep, PassGate, FallAsleep, PopMock, PopHighApple,
           PopLowApple, FinishTask, IndInv, TypeOK
  <2>5. CASE OwnerStep \/ OwnerCall \/ Terminated
    <3>1. UNCHANGED state
          BY <2>5 DEF OwnerStep, OwnerCall, Terminated, vars, RunNotify, PauseAddMock,
             PauseNotify, CreateThread, CreateThreadsEnd, ShrinkAddApple, ShrinkEnd,
             StopAddApple, StopClose, StopNotify, Join, Run, Pause, SetNumOfThread, Stop
    <3>2. QED  BY <2>1, <3>1
  <2>6. QED  BY <2>1, <2>3, <2>4, <2>5 DEF Next
<1>2. QED  BY <1>1, Invariance, PTL DEF Spec, PausedPoolStartsNothing
=============================================================================
