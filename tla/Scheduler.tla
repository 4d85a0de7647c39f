------------------------------ MODULE Scheduler ------------------------------
(***************************************************************************)
(* The framework's Scheduler: one POSIX timer armed for the earliest task  *)
(* (m_currentTopTask), the others in a priority queue.  Any thread adds a  *)
(* task; each expiry of the timer starts a callback thread, which takes    *)
(* the top task, arms the timer for the next one and executes the task.    *)
(* A task of an AsyncInjection adds itself again from its own execution.   *)
(*                                                                         *)
(* m_mutex makes the middle of Add and of OnTimerEnd atomic, but not all   *)
(* of it: Add reads the clock before it locks and, when the new task is    *)
(* not the earliest, pushes it after it has unlocked; and a callback       *)
(* thread runs some time after the expiry that started it.                 *)
(***************************************************************************)
EXTENDS Integers

CONSTANTS
    Tasks,        \* tasks handed to Add, once each by their owners
    Injections,   \* those that AsyncInjection adds again while they return false
    Delays,       \* the timeOfStart arguments
    MaxNow,       \* bound on the clock
    MaxRuns,      \* bound on the executions of an injection
    None

ASSUME DelaysAssumption == Delays \subseteq Nat
ASSUME BoundsAssumption == MaxNow \in Nat /\ MaxRuns \in Nat
ASSUME TasksAssumption == Injections \subseteq Tasks /\ None \notin Tasks /\ None \notin Nat

VARIABLES
    now,       \* steady_clock
    adding,    \* how far the Add of each task got
    start,     \* startTime of each task
    top,       \* m_currentTopTask
    queue,     \* m_queue, which hands out an earliest task
    armed,     \* what m_timer is set to
    pending,   \* callback threads that have not locked m_mutex yet
    running,   \* tasks being executed
    aborted,   \* an assertion ended the process
    adds, runs \* history: Adds and executions of each task

vars == <<now, adding, start, top, queue, armed, pending, running, aborted, adds, runs>>

Init ==
    /\ now = 0
    /\ adding = [t \in Tasks |-> "no"]
    /\ start = [t \in Tasks |-> 0]
    /\ top = None /\ queue = {} /\ armed = None /\ pending = 0
    /\ running = {} /\ aborted = FALSE
    /\ adds = [t \in Tasks |-> 0] /\ runs = [t \in Tasks |-> 0]

-----------------------------------------------------------------------------
(* Add.                                                                    *)

\* The part before the lock: startTime is computed from the clock.
CallAdd(t) ==
    /\ \E d \in Delays : now + d <= MaxNow /\ start' = [start EXCEPT ![t] = now + d]
    /\ adding' = [adding EXCEPT ![t] = "called"]
    /\ adds' = [adds EXCEPT ![t] = @ + 1]

Add(t) ==
    /\ ~ aborted /\ adds[t] = 0
    /\ CallAdd(t)
    /\ UNCHANGED <<now, top, queue, armed, pending, running, aborted, runs>>

AddFirst(t) ==
    /\ ~ aborted /\ adding[t] = "called" /\ top = None
    /\ top' = t
    /\ armed' = start[t]
    /\ adding' = [adding EXCEPT ![t] = "no"]
    /\ UNCHANGED <<now, start, queue, pending, running, aborted, adds, runs>>

AddEarlier_NotArmed(t) ==
    /\ ~ aborted /\ adding[t] = "called" /\ top # None /\ start[top] > start[t]
    /\ queue' = queue \cup {top}
    /\ top' = t
    /\ adding' = [adding EXCEPT ![t] = "no"]
    /\ UNCHANGED <<now, start, armed, pending, running, aborted, adds, runs>>

AddEarlier_OldForgotten(t) ==
    /\ ~ aborted /\ adding[t] = "called" /\ top # None /\ start[top] > start[t]
    /\ top' = t
    /\ armed' = start[t]
    /\ adding' = [adding EXCEPT ![t] = "no"]
    /\ UNCHANGED <<now, start, queue, pending, running, aborted, adds, runs>>

AddEarlier(t) ==
    /\ ~ aborted /\ adding[t] = "called" /\ top # None /\ start[top] > start[t]
    /\ queue' = queue \cup {top}
    /\ top' = t
    /\ armed' = start[t]
    /\ adding' = [adding EXCEPT ![t] = "no"]
    /\ UNCHANGED <<now, start, pending, running, aborted, adds, runs>>

\* The else branch compares under the lock ...
AddLater(t) ==
    /\ ~ aborted /\ adding[t] = "called" /\ top # None /\ start[top] <= start[t]
    /\ adding' = [adding EXCEPT ![t] = "pushing"]
    /\ UNCHANGED <<now, start, top, queue, armed, pending, running, aborted, adds, runs>>

\* ... and pushes after mtx.unlock().
PushLater(t) ==
    /\ ~ aborted /\ adding[t] = "pushing"
    /\ queue' = queue \cup {t}
    /\ adding' = [adding EXCEPT ![t] = "no"]
    /\ UNCHANGED <<now, start, top, armed, pending, running, aborted, adds, runs>>

-----------------------------------------------------------------------------
(* The timer and OnTimerEnd.                                               *)

\* SIGEV_THREAD: the expiry of the absolute timer starts a thread in TimerCallback.
Expire ==
    /\ ~ aborted /\ armed # None /\ armed <= now
    /\ armed' = None
    /\ pending' = pending + 1
    /\ UNCHANGED <<now, adding, start, top, queue, running, aborted, adds, runs>>

\* The locked part of OnTimerEnd: the assertion fails, ...
OnTimerEndNoTask ==
    /\ ~ aborted /\ pending > 0 /\ top = None
    /\ aborted' = TRUE
    /\ UNCHANGED <<now, adding, start, top, queue, armed, pending, running, adds, runs>>

TakeTop ==
    /\ ~ aborted /\ pending > 0 /\ top # None
    /\ pending' = pending - 1
    /\ running' = running \cup {top}
    /\ runs' = [runs EXCEPT ![top] = @ + 1]

\* ... or the top task is the last one (the timer is left as it is), ...
OnTimerEndLast ==
    /\ TakeTop /\ queue = {}
    /\ top' = None
    /\ UNCHANGED <<now, adding, start, queue, armed, aborted, adds>>

\* ... or the earliest of the queue becomes the top.
OnTimerEndNext_NotArmed ==
    /\ TakeTop
    /\ \E t \in queue :
         /\ \A u \in queue : start[t] <= start[u]
         /\ top' = t
         /\ queue' = queue \ {t}
    /\ UNCHANGED <<now, adding, start, armed, aborted, adds>>

OnTimerEndNext ==
    /\ TakeTop
    /\ \E t \in queue :
         /\ \A u \in queue : start[t] <= start[u]
         /\ top' = t
         /\ armed' = start[t]
         /\ queue' = queue \ {t}
    /\ UNCHANGED <<now, adding, start, aborted, adds>>

\* Execute returns or throws (OnTimerEnd catches), or an injection is done or throws.
Executed(t) ==
    /\ ~ aborted /\ t \in running
    /\ running' = running \ {t}
    /\ UNCHANGED <<now, adding, start, top, queue, armed, pending, aborted, adds, runs>>

\* AsyncInjectTask::Execute: the function returned false, the task is added again.
Reinject(t) ==
    /\ ~ aborted /\ t \in running \cap Injections /\ runs[t] < MaxRuns
    /\ CallAdd(t)
    /\ running' = running \ {t}
    /\ UNCHANGED <<now, top, queue, armed, pending, aborted, runs>>

Tick ==
    /\ ~ aborted /\ now < MaxNow
    /\ now' = now + 1
    /\ UNCHANGED <<adding, start, top, queue, armed, pending, running, aborted, adds, runs>>

-----------------------------------------------------------------------------
AddStep(t) == AddFirst(t) \/ AddEarlier(t) \/ AddLater(t) \/ PushLater(t)
OnTimerEnd == OnTimerEndNoTask \/ OnTimerEndLast \/ OnTimerEndNext

Next ==
    \/ \E t \in Tasks : Add(t) \/ AddStep(t) \/ Executed(t) \/ Reinject(t)
    \/ Expire \/ OnTimerEnd \/ Tick

Spec == Init /\ [][Next]_vars

\* Time passes, timers expire, and every thread inside the scheduler is scheduled.
FairSpec ==
    /\ Spec
    /\ WF_vars(Tick) /\ WF_vars(Expire) /\ WF_vars(OnTimerEnd)
    /\ \A t \in Tasks : WF_vars(AddStep(t)) /\ WF_vars(Executed(t) \/ Reinject(t))

-----------------------------------------------------------------------------
(* Properties.                                                             *)

\* Every variable has its type.
TypeOK ==
    /\ now \in Nat /\ pending \in Nat /\ aborted \in BOOLEAN
    /\ adding \in [Tasks -> {"no", "called", "pushing"}]
    /\ start \in [Tasks -> Nat]
    /\ top \in Tasks \cup {None}
    /\ queue \subseteq Tasks /\ running \subseteq Tasks
    /\ armed \in Nat \cup {None}
    /\ adds \in [Tasks -> Nat] /\ runs \in [Tasks -> Nat]

Count(condition) == IF condition THEN 1 ELSE 0

\* No task is lost or doubled on its way between Add, the top, the queue and the
\* callbacks, whichever of them overtake one another: it has been executed as often as
\* it was added, but for the one place that holds it.
EachAddRunsOnce ==
    \A t \in Tasks :
        adds[t] = runs[t] + Count(adding[t] # "no") + Count(top = t) + Count(t \in queue)

\* The top task is never forgotten by the timer: it is armed for that task's start, or
\* an expiry is on its way to take the task.
TopHasATimer == top # None => armed = start[top] \/ pending > 0

\* The inductive invariant: a task is in one place, and in none while it is executed.
IndInv ==
    /\ TypeOK /\ EachAddRunsOnce /\ TopHasATimer
    /\ \A t \in Tasks : adds[t] <= runs[t] + 1
    /\ \A t \in running : adds[t] = runs[t] /\ runs[t] > 0

\* Whatever is added while it waits, the top task is executed, unless the process aborts.
TopIsExecuted == \A t \in Tasks : top = t ~> (t \in running \/ aborted)

\* scheduler.cpp:116, assert(nullptr != m_currentTopTask): a callback finds a task.
CallbackFindsTask == ~ aborted

\* test_scheduler.cpp:548, after concurrent Adds every task is executed: the scheduler
\* does not come to rest with a task in its queue.
NothingIsStranded ==
    ~ aborted /\ top = None /\ armed = None /\ pending = 0 /\ (\A t \in Tasks : adding[t] = "no")
        => queue = {}
=============================================================================
