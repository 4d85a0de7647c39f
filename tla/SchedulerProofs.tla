--------------------------- MODULE SchedulerProofs ---------------------------
(***************************************************************************)
(* For any number of tasks, Adds and expiries: no Add is lost or doubled,  *)
(* and the top task always has a timer, in spite of the unlocked ends of   *)
(* Add and of stale callbacks.                                             *)
(***************************************************************************)
EXTENDS Scheduler, TLAPS

LEMMA Initially == Init => IndInv
<1>1. Init => TypeOK
  <2>1. SUFFICES ASSUME Init PROVE TypeOK  OBVIOUS
  <2>2. now \in Nat /\ pending \in Nat /\ aborted \in BOOLEAN  BY <2>1 DEF Init
  <2>3. /\ adding \in [Tasks -> {"no", "called", "pushing"}] /\ start \in [Tasks -> Nat]
        /\ adds \in [Tasks -> Nat] /\ runs \in [Tasks -> Nat]
        BY <2>1 DEF Init
  <2>4. /\ top \in Tasks \cup {None} /\ queue \subseteq Tasks /\ running \subseteq Tasks
        /\ armed \in Nat \cup {None}
        BY <2>1 DEF Init
  <2>5. QED  BY <2>2, <2>3, <2>4 DEF TypeOK
<1>2. Init => EachAddRunsOnce
  <2>1. SUFFICES ASSUME Init, NEW t \in Tasks
                 PROVE  adds[t] = runs[t] + Count(adding[t] # "no") + Count(top = t)
                                    + Count(t \in queue)
        BY DEF EachAddRunsOnce
  <2>2. adds[t] = 0 /\ runs[t] = 0 /\ adding[t] = "no" /\ top # t /\ t \notin queue
        BY <2>1, TasksAssumption DEF Init
  <2>3. QED  BY <2>2 DEF Count
<1>3. Init => TopHasATimer  BY DEF Init, TopHasATimer
<1>4. QED  BY <1>1, <1>2, <1>3 DEF Init, IndInv

LEMMA AddKeeps ==
    ASSUME IndInv, NEW t \in Tasks, Add(t)
    PROVE  IndInv'
<1>1. TypeOK'
      BY TasksAssumption, DelaysAssumption, BoundsAssumption DEF IndInv, TypeOK, CallAdd, Add
<1>2. EachAddRunsOnce'
      BY <1>1, TasksAssumption DEF IndInv, TypeOK, EachAddRunsOnce, Count, CallAdd, Add
<1>3. TopHasATimer'
      BY <1>1, TasksAssumption DEF IndInv, TypeOK, EachAddRunsOnce, TopHasATimer, Count, CallAdd, Add
<1>4. (\A u \in Tasks : adds[u] <= runs[u] + 1)' /\ (\A u \in running : adds[u] = runs[u] /\ runs[u] > 0)'
      BY <1>1, TasksAssumption DEF IndInv, TypeOK, EachAddRunsOnce, Count, CallAdd, Add
<1>5. QED  BY <1>1, <1>2, <1>3, <1>4 DEF IndInv

LEMMA AddFirstKeeps ==
    ASSUME IndInv, NEW t \in Tasks, AddFirst(t)
    PROVE  IndInv'
<1>1. TypeOK'
      BY TasksAssumption, DelaysAssumption, BoundsAssumption DEF IndInv, TypeOK, AddFirst
<1>2. EachAddRunsOnce'
      BY <1>1, TasksAssumption DEF IndInv, TypeOK, EachAddRunsOnce, Count, AddFirst
<1>3. TopHasATimer'
      BY <1>1, TasksAssumption DEF IndInv, TypeOK, EachAddRunsOnce, TopHasATimer, Count, AddFirst
<1>4. (\A u \in Tasks : adds[u] <= runs[u] + 1)' /\ (\A u \in running : adds[u] = runs[u] /\ runs[u] > 0)'
      BY <1>1, TasksAssumption DEF IndInv, TypeOK, EachAddRunsOnce, Count, AddFirst
<1>5. QED  BY <1>1, <1>2, <1>3, <1>4 DEF IndInv

LEMMA AddEarlierKeeps ==
    ASSUME IndInv, NEW t \in Tasks, AddEarlier(t)
    PROVE  IndInv'
<1>1. TypeOK'
      BY TasksAssumption, DelaysAssumption, BoundsAssumption DEF IndInv, TypeOK, AddEarlier
<1>2. EachAddRunsOnce'
      BY <1>1, TasksAssumption DEF IndInv, TypeOK, EachAddRunsOnce, Count, AddEarlier
<1>3. TopHasATimer'
      BY <1>1, TasksAssumption DEF IndInv, TypeOK, EachAddRunsOnce, TopHasATimer, Count, AddEarlier
<1>4. (\A u \in Tasks : adds[u] <= runs[u] + 1)' /\ (\A u \in running : adds[u] = runs[u] /\ runs[u] > 0)'
      BY <1>1, TasksAssumption DEF IndInv, TypeOK, EachAddRunsOnce, Count, AddEarlier
<1>5. QED  BY <1>1, <1>2, <1>3, <1>4 DEF IndInv

LEMMA AddLaterKeeps ==
    ASSUME IndInv, NEW t \in Tasks, AddLater(t)
    PROVE  IndInv'
<1>1. TypeOK'
      BY TasksAssumption, DelaysAssumption, BoundsAssumption DEF IndInv, TypeOK, AddLater
<1>2. EachAddRunsOnce'
      BY <1>1, TasksAssumption DEF IndInv, TypeOK, EachAddRunsOnce, Count, AddLater
<1>3. TopHasATimer'
      BY <1>1, TasksAssumption DEF IndInv, TypeOK, EachAddRunsOnce, TopHasATimer, Count, AddLater
<1>4. (\A u \in Tasks : adds[u] <= runs[u] + 1)' /\ (\A u \in running : adds[u] = runs[u] /\ runs[u] > 0)'
      BY <1>1, TasksAssumption DEF IndInv, TypeOK, EachAddRunsOnce, Count, AddLater
<1>5. QED  BY <1>1, <1>2, <1>3, <1>4 DEF IndInv

LEMMA PushLaterKeeps ==
    ASSUME IndInv, NEW t \in Tasks, PushLater(t)
    PROVE  IndInv'
<1>1. TypeOK'
      BY TasksAssumption, DelaysAssumption, BoundsAssumption DEF IndInv, TypeOK, PushLater
<1>2. EachAddRunsOnce'
      BY <1>1, TasksAssumption DEF IndInv, TypeOK, EachAddRunsOnce, Count, PushLater
<1>3. TopHasATimer'
      BY <1>1, TasksAssumption DEF IndInv, TypeOK, EachAddRunsOnce, TopHasATimer, Count, PushLater
<1>4. (\A u \in Tasks : adds[u] <= runs[u] + 1)' /\ (\A u \in running : adds[u] = runs[u] /\ runs[u] > 0)'
      BY <1>1, TasksAssumption DEF IndInv, TypeOK, EachAddRunsOnce, Count, PushLater
<1>5. QED  BY <1>1, <1>2, <1>3, <1>4 DEF IndInv

LEMMA ExpireKeeps ==
    ASSUME IndInv, Expire
    PROVE  IndInv'
<1>1. TypeOK'
      BY TasksAssumption, DelaysAssumption, BoundsAssumption DEF IndInv, TypeOK, Expire
<1>2. EachAddRunsOnce'
      BY <1>1, TasksAssumption DEF IndInv, TypeOK, EachAddRunsOnce, Count, Expire
<1>3. TopHasATimer'
      BY <1>1, TasksAssumption DEF IndInv, TypeOK, EachAddRunsOnce, TopHasATimer, Count, Expire
<1>4. (\A u \in Tasks : adds[u] <= runs[u] + 1)' /\ (\A u \in running : adds[u] = runs[u] /\ runs[u] > 0)'
      BY <1>1, TasksAssumption DEF IndInv, TypeOK, EachAddRunsOnce, Count, Expire
<1>5. QED  BY <1>1, <1>2, <1>3, <1>4 DEF IndInv

LEMMA OnTimerEndNoTaskKeeps ==
    ASSUME IndInv, OnTimerEndNoTask
    PROVE  IndInv'
<1>1. TypeOK'
      BY TasksAssumption, DelaysAssumption, BoundsAssumption DEF IndInv, TypeOK, OnTimerEndNoTask
<1>2. EachAddRunsOnce'
      BY <1>1, TasksAssumption DEF IndInv, TypeOK, EachAddRunsOnce, Count, OnTimerEndNoTask
<1>3. TopHasATimer'
      BY <1>1, TasksAssumption DEF IndInv, TypeOK, EachAddRunsOnce, TopHasATimer, Count, OnTimerEndNoTask
<1>4. (\A u \in Tasks : adds[u] <= runs[u] + 1)' /\ (\A u \in running : adds[u] = runs[u] /\ runs[u] > 0)'
      BY <1>1, TasksAssumption DEF IndInv, TypeOK, EachAddRunsOnce, Count, OnTimerEndNoTask
<1>5. QED  BY <1>1, <1>2, <1>3, <1>4 DEF IndInv

LEMMA OnTimerEndLastKeeps ==
    ASSUME IndInv, OnTimerEndLast
    PROVE  IndInv'
<1>1. TypeOK'
      BY TasksAssumption, DelaysAssumption, BoundsAssumption DEF IndInv, TypeOK, TakeTop, OnTimerEndLast
<1>2. EachAddRunsOnce'
      BY <1>1, TasksAssumption DEF IndInv, TypeOK, EachAddRunsOnce, Count, TakeTop, OnTimerEndLast
<1>3. TopHasATimer'
      BY <1>1, TasksAssumption DEF IndInv, TypeOK, EachAddRunsOnce, TopHasATimer, Count, TakeTop, OnTimerEndLast
<1>4. (\A u \in Tasks : adds[u] <= runs[u] + 1)' /\ (\A u \in running : adds[u] = runs[u] /\ runs[u] > 0)'
      BY <1>1, TasksAssumption DEF IndInv, TypeOK, EachAddRunsOnce, Count, TakeTop, OnTimerEndLast
<1>5. QED  BY <1>1, <1>2, <1>3, <1>4 DEF IndInv

LEMMA OnTimerEndNextKeeps ==
    ASSUME IndInv, OnTimerEndNext
    PROVE  IndInv'
<1>1. TypeOK'
      BY TasksAssumption, DelaysAssumption, BoundsAssumption DEF IndInv, TypeOK, TakeTop, OnTimerEndNext
<1>2. EachAddRunsOnce'
      BY <1>1, TasksAssumption DEF IndInv, TypeOK, EachAddRunsOnce, Count, TakeTop, OnTimerEndNext
<1>3. TopHasATimer'
      BY <1>1, TasksAssumption DEF IndInv, TypeOK, EachAddRunsOnce, TopHasATimer, Count, TakeTop, OnTimerEndNext
<1>4. (\A u \in Tasks : adds[u] <= runs[u] + 1)' /\ (\A u \in running : adds[u] = runs[u] /\ runs[u] > 0)'
      BY <1>1, TasksAssumption DEF IndInv, TypeOK, EachAddRunsOnce, Count, TakeTop, OnTimerEndNext
<1>5. QED  BY <1>1, <1>2, <1>3, <1>4 DEF IndInv

LEMMA ExecutedKeeps ==
    ASSUME IndInv, NEW t \in Tasks, Executed(t)
    PROVE  IndInv'
<1>1. TypeOK'
      BY TasksAssumption, DelaysAssumption, BoundsAssumption DEF IndInv, TypeOK, Executed
<1>2. EachAddRunsOnce'
      BY <1>1, TasksAssumption DEF IndInv, TypeOK, EachAddRunsOnce, Count, Executed
<1>3. TopHasATimer'
      BY <1>1, TasksAssumption DEF IndInv, TypeOK, EachAddRunsOnce, TopHasATimer, Count, Executed
<1>4. (\A u \in Tasks : adds[u] <= runs[u] + 1)' /\ (\A u \in running : adds[u] = runs[u] /\ runs[u] > 0)'
      BY <1>1, TasksAssumption DEF IndInv, TypeOK, EachAddRunsOnce, Count, Executed
<1>5. QED  BY <1>1, <1>2, <1>3, <1>4 DEF IndInv

LEMMA ReinjectKeeps ==
    ASSUME IndInv, NEW t \in Tasks, Reinject(t)
    PROVE  IndInv'
<1>1. TypeOK'
      BY TasksAssumption, DelaysAssumption, BoundsAssumption DEF IndInv, TypeOK, CallAdd, Reinject
<1>2. EachAddRunsOnce'
      BY <1>1, TasksAssumption DEF IndInv, TypeOK, EachAddRunsOnce, Count, CallAdd, Reinject
<1>3. TopHasATimer'
      BY <1>1, TasksAssumption DEF IndInv, TypeOK, EachAddRunsOnce, TopHasATimer, Count, CallAdd, Reinject
<1>4. (\A u \in Tasks : adds[u] <= runs[u] + 1)' /\ (\A u \in running : adds[u] = runs[u] /\ runs[u] > 0)'
      BY <1>1, TasksAssumption DEF IndInv, TypeOK, EachAddRunsOnce, Count, CallAdd, Reinject
<1>5. QED  BY <1>1, <1>2, <1>3, <1>4 DEF IndInv

LEMMA TickKeeps ==
    ASSUME IndInv, Tick
    PROVE  IndInv'
<1>1. TypeOK'
      BY TasksAssumption, DelaysAssumption, BoundsAssumption DEF IndInv, TypeOK, Tick
<1>2. EachAddRunsOnce'
      BY <1>1, TasksAssumption DEF IndInv, TypeOK, EachAddRunsOnce, Count, Tick
<1>3. TopHasATimer'
      BY <1>1, TasksAssumption DEF IndInv, TypeOK, EachAddRunsOnce, TopHasATimer, Count, Tick
<1>4. (\A u \in Tasks : adds[u] <= runs[u] + 1)' /\ (\A u \in running : adds[u] = runs[u] /\ runs[u] > 0)'
      BY <1>1, TasksAssumption DEF IndInv, TypeOK, EachAddRunsOnce, Count, Tick
<1>5. QED  BY <1>1, <1>2, <1>3, <1>4 DEF IndInv

\* The invariant holds in every reachable state.
THEOREM Invariance == Spec => []IndInv
<1>1. IndInv /\ [Next]_vars => IndInv'
  <2>1. SUFFICES ASSUME IndInv, [Next]_vars PROVE IndInv'  OBVIOUS
  <2>2. CASE UNCHANGED vars
        BY <2>1, <2>2 DEF vars, IndInv, TypeOK, EachAddRunsOnce, TopHasATimer
  <2>3. CASE \E t \in Tasks : Add(t) \/ AddStep(t) \/ Executed(t) \/ Reinject(t)
        BY <2>1, <2>3, AddKeeps, AddFirstKeeps, AddEarlierKeeps, AddLaterKeeps, PushLaterKeeps,
           ExecutedKeeps, ReinjectKeeps DEF AddStep
  <2>4. CASE Expire \/ OnTimerEnd \/ Tick
        BY <2>1, <2>4, ExpireKeeps, OnTimerEndNoTaskKeeps, OnTimerEndLastKeeps,
           OnTimerEndNextKeeps, TickKeeps DEF OnTimerEnd
  <2>5. QED  BY <2>1, <2>2, <2>3, <2>4 DEF Next
<1>2. QED  BY <1>1, Initially, PTL DEF Spec

\* Every variable keeps its type.
THEOREM TypeCorrect == Spec => []TypeOK
<1>1. IndInv => TypeOK  BY DEF IndInv
<1>2. QED  BY <1>1, Invariance, PTL

\* Each Add leads to one execution at most, and until then one place holds the task.
THEOREM AddsAreKept == Spec => []EachAddRunsOnce
<1>1. IndInv => EachAddRunsOnce  BY DEF IndInv
<1>2. QED  BY <1>1, Invariance, PTL

\* The top task is never left without a timer or a callback.
THEOREM TopIsTimed == Spec => []TopHasATimer
<1>1. IndInv => TopHasATimer  BY DEF IndInv
<1>2. QED  BY <1>1, Invariance, PTL
=============================================================================
