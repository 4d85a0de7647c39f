----------------------------- MODULE ThreadPool -----------------------------
(***************************************************************************)
(* The framework's ThreadPool: a priority queue of tasks, workers that     *)
(* pass a gate (m_condRun) before each Pop, and an owner that runs,        *)
(* pauses, resizes and stops the pool while other threads add tasks.       *)
(*                                                                         *)
(* The pool steers its workers through the queue itself: empty tasks of    *)
(* priority VERY_HIGH end a Pause, and "bad apples" end the workers that   *)
(* pop them, before every task (VERY_HIGH, SetNumOfThread) or after every  *)
(* task (VERY_LOW, Stop).  Each Add takes the lock on its own, so every    *)
(* iteration of those loops is a step of its own.                          *)
(***************************************************************************)
EXTENDS Integers, FiniteSets

CONSTANTS
    Tasks,      \* user tasks, added at most once each
    Priority,   \* Priority[t] \in {LOW, MEDIUM, HIGH}: the priority t is added with
    Workers,    \* threads that can ever be created
    Sizes,      \* arguments of the constructor and of SetNumOfThread
    MaxCalls,   \* bound on the owner's calls before Stop
    None        \* a worker that executes no task

LOW == 1
HIGH == 3

ASSUME PriorityAssumption == Priority \in [Tasks -> LOW .. HIGH]
ASSUME WorkersAssumption == IsFiniteSet(Workers) /\ Sizes \subseteq Nat \ {0}
ASSUME NoneAssumption == None \notin Tasks
ASSUME CallsAssumption == MaxCalls \in Nat

VARIABLES
    status,       \* m_status
    numThreadOn,  \* m_numThreadOn
    queue,        \* m_queue: the tasks in it, and how many mocks and apples
    state,        \* what became of each task
    at,           \* where each worker is in ThreadJob
    doing,        \* the task a worker executes
    call,         \* the owner's call in progress and how far it got
    calls,        \* calls the owner has made
    owed          \* history: tasks in the queue or running when Stop was called

vars == <<status, numThreadOn, queue, state, at, doing, call, calls, owed>>

Queue == [tasks : SUBSET Tasks, mocks : Nat, highApples : Nat, lowApples : Nat]

\* name: the call; n: its argument; left: iterations of its loop still to do.
Calls == [name : {"none", "run", "pause", "grow", "shrink", "stop", "stopped",
                  "join", "joined"}, n : Nat, left : Nat]

Ready == [name |-> "none", n |-> 0, left |-> 0]

Live == {w \in Workers : at[w] \notin {"none", "dead"}}

Init ==
    /\ \E size \in Sizes, first \in SUBSET Workers :
         /\ Cardinality(first) = size
         /\ numThreadOn = size
         /\ at = [w \in Workers |-> IF w \in first THEN "gate" ELSE "none"]
    /\ status = "PAUSED"
    /\ queue = [tasks |-> {}, mocks |-> 0, highApples |-> 0, lowApples |-> 0]
    /\ state = [t \in Tasks |-> "new"]
    /\ doing = [w \in Workers |-> None]
    /\ call = Ready
    /\ calls = 0
    /\ owed = {}

-----------------------------------------------------------------------------
(* Any thread, a worker in a task included: Add.  A stopped pool drops it.  *)

Add(t) ==
    /\ state[t] = "new" /\ call.name # "joined"
    /\ IF status # "STOPPED"
       THEN /\ queue' = [queue EXCEPT !.tasks = @ \cup {t}]
            /\ state' = [state EXCEPT ![t] = "queued"]
       ELSE /\ state' = [state EXCEPT ![t] = "dropped"]
            /\ UNCHANGED queue
    /\ UNCHANGED <<status, numThreadOn, at, doing, call, calls, owed>>

-----------------------------------------------------------------------------
(* A worker: ThreadJob.                                                    *)

\* m_condRun.wait: the predicate is tested under m_mtx.
PassGate(w) ==
    /\ at[w] = "gate" /\ status # "PAUSED"
    /\ at' = [at EXCEPT ![w] = "pop"]
    /\ UNCHANGED <<status, numThreadOn, queue, state, doing, call, calls, owed>>

FallAsleep(w) ==
    /\ at[w] = "gate" /\ status = "PAUSED"
    /\ at' = [at EXCEPT ![w] = "asleep"]
    /\ UNCHANGED <<status, numThreadOn, queue, state, doing, call, calls, owed>>

\* m_queue.Pop hands out an element of the highest priority: VERY_HIGH ones first, ...
PopMock(w) ==
    /\ at[w] = "pop" /\ queue.mocks > 0
    /\ queue' = [queue EXCEPT !.mocks = @ - 1]
    /\ at' = [at EXCEPT ![w] = "gate"]
    /\ UNCHANGED <<status, numThreadOn, state, doing, call, calls, owed>>

PopHighApple(w) ==
    /\ at[w] = "pop" /\ queue.highApples > 0
    /\ queue' = [queue EXCEPT !.highApples = @ - 1]
    /\ at' = [at EXCEPT ![w] = "dead"]
    /\ UNCHANGED <<status, numThreadOn, state, doing, call, calls, owed>>

\* ... then tasks by their priority (elements of equal priority come in any order), ...
PopTask(w) ==
    /\ at[w] = "pop" /\ queue.mocks = 0 /\ queue.highApples = 0
    /\ \E t \in queue.tasks :
         /\ \A u \in queue.tasks : Priority[u] <= Priority[t]
         /\ queue' = [queue EXCEPT !.tasks = @ \ {t}]
         /\ state' = [state EXCEPT ![t] = "running"]
         /\ doing' = [doing EXCEPT ![w] = t]
    /\ at' = [at EXCEPT ![w] = "work"]
    /\ UNCHANGED <<status, numThreadOn, call, calls, owed>>

\* ... then the apples of Stop.
PopLowApple(w) ==
    /\ at[w] = "pop" /\ queue.mocks = 0 /\ queue.highApples = 0 /\ queue.tasks = {}
    /\ queue.lowApples > 0
    /\ queue' = [queue EXCEPT !.lowApples = @ - 1]
    /\ at' = [at EXCEPT ![w] = "dead"]
    /\ UNCHANGED <<status, numThreadOn, state, doing, call, calls, owed>>

FinishTask(w) ==
    /\ at[w] = "work"
    /\ state' = [state EXCEPT ![doing[w]] = "done"]
    /\ doing' = [doing EXCEPT ![w] = None]
    /\ at' = [at EXCEPT ![w] = "gate"]
    /\ UNCHANGED <<status, numThreadOn, queue, call, calls, owed>>

-----------------------------------------------------------------------------
(* The owner: Run, Pause, SetNumOfThread, Stop, ~ThreadPool.               *)

\* m_condRun.notify_all
WakeAll == at' = [w \in Workers |-> IF at[w] = "asleep" THEN "gate" ELSE at[w]]

Enter(name, n) ==
    /\ call = Ready
    /\ calls < MaxCalls \/ name = "stop"
    /\ calls' = IF name = "stop" THEN calls ELSE calls + 1
    /\ call' = [name |-> name, n |-> n, left |-> n]

Continue(name) == call' = [call EXCEPT !.name = name]
Iterate(name) == call.name = name /\ call.left > 0 /\ call' = [call EXCEPT !.left = @ - 1]

Run ==
    /\ Enter("run", 0)
    /\ status' = "RUNNING"
    /\ UNCHANGED <<numThreadOn, queue, state, at, doing, owed>>

RunNotify_Forgotten ==
    /\ call.name = "run"
    /\ call' = Ready
    /\ UNCHANGED <<status, numThreadOn, queue, state, at, doing, calls, owed>>

RunNotify ==
    /\ call.name = "run"
    /\ WakeAll
    /\ call' = Ready
    /\ UNCHANGED <<status, numThreadOn, queue, state, doing, calls, owed>>

Pause_OneMockShort ==
    /\ Enter("pause", numThreadOn - 1)
    /\ status' = "PAUSED"
    /\ UNCHANGED <<numThreadOn, queue, state, at, doing, owed>>

Pause ==
    /\ Enter("pause", numThreadOn)
    /\ status' = "PAUSED"
    /\ UNCHANGED <<numThreadOn, queue, state, at, doing, owed>>

PauseAddMock ==
    /\ Iterate("pause")
    /\ queue' = [queue EXCEPT !.mocks = @ + 1]
    /\ UNCHANGED <<status, numThreadOn, state, at, doing, calls, owed>>

PauseNotify ==
    /\ call.name = "pause" /\ call.left = 0
    /\ WakeAll
    /\ call' = Ready
    /\ UNCHANGED <<status, numThreadOn, queue, state, doing, calls, owed>>

\* The bound on threads: only as many are created as Workers has left.
SetNumOfThread ==
    /\ \E size \in Sizes :
         /\ size - numThreadOn <= Cardinality({w \in Workers : at[w] = "none"})
         /\ IF size > numThreadOn
            THEN Enter("grow", size - numThreadOn)
            ELSE Enter("shrink", numThreadOn - size)
    /\ UNCHANGED <<status, numThreadOn, queue, state, at, doing, owed>>

CreateThread ==
    /\ Iterate("grow")
    /\ \E w \in Workers : at[w] = "none" /\ at' = [at EXCEPT ![w] = "gate"]
    /\ UNCHANGED <<status, numThreadOn, queue, state, doing, calls, owed>>

CreateThreadsEnd ==
    /\ call.name = "grow" /\ call.left = 0
    /\ numThreadOn' = numThreadOn + call.n
    /\ call' = Ready
    /\ UNCHANGED <<status, queue, state, at, doing, calls, owed>>

ShrinkAddApple ==
    /\ Iterate("shrink")
    /\ queue' = [queue EXCEPT !.highApples = @ + 1]
    /\ UNCHANGED <<status, numThreadOn, state, at, doing, calls, owed>>

ShrinkEnd_NotCounted ==
    /\ call.name = "shrink" /\ call.left = 0
    /\ call' = Ready
    /\ UNCHANGED <<status, numThreadOn, queue, state, at, doing, calls, owed>>

ShrinkEnd ==
    /\ call.name = "shrink" /\ call.left = 0
    /\ numThreadOn' = numThreadOn - call.n
    /\ call' = Ready
    /\ UNCHANGED <<status, queue, state, at, doing, calls, owed>>

Stop ==
    /\ Enter("stop", numThreadOn)
    /\ owed' = {t \in Tasks : state[t] \in {"queued", "running"}}
    /\ UNCHANGED <<status, numThreadOn, queue, state, at, doing>>

StopAddApple_VeryHigh ==
    /\ Iterate("stop")
    /\ queue' = [queue EXCEPT !.highApples = @ + 1]
    /\ UNCHANGED <<status, numThreadOn, state, at, doing, calls, owed>>

StopAddApple ==
    /\ Iterate("stop")
    /\ queue' = [queue EXCEPT !.lowApples = @ + 1]
    /\ UNCHANGED <<status, numThreadOn, state, at, doing, calls, owed>>

\* The apples are in the queue: the pool no longer counts its threads and closes.
StopClose ==
    /\ call.name = "stop" /\ call.left = 0
    /\ numThreadOn' = numThreadOn - call.n
    /\ status' = "STOPPED"
    /\ Continue("stopped")
    /\ UNCHANGED <<queue, state, at, doing, calls, owed>>

StopNotify_Forgotten ==
    /\ call.name = "stopped"
    /\ Continue("join")
    /\ UNCHANGED <<status, numThreadOn, queue, state, at, doing, calls, owed>>

StopNotify ==
    /\ call.name = "stopped"
    /\ WakeAll
    /\ Continue("join")
    /\ UNCHANGED <<status, numThreadOn, queue, state, doing, calls, owed>>

\* ~ThreadPool, after Stop: m_workerThreads is destroyed, each WorkerThread joins.
Join ==
    /\ call.name = "join" /\ Live = {}
    /\ Continue("joined")
    /\ UNCHANGED <<status, numThreadOn, queue, state, at, doing, calls, owed>>

-----------------------------------------------------------------------------
WorkerStep(w) ==
    \/ PassGate(w) \/ FallAsleep(w) \/ PopMock(w) \/ PopHighApple(w)
    \/ PopTask(w) \/ PopLowApple(w) \/ FinishTask(w)

\* Steps of a call under way; the owner is free to call nothing.
OwnerStep ==
    \/ RunNotify \/ PauseAddMock \/ PauseNotify \/ CreateThread \/ CreateThreadsEnd
    \/ ShrinkAddApple \/ ShrinkEnd \/ StopAddApple \/ StopClose \/ StopNotify \/ Join

OwnerCall == Run \/ Pause \/ SetNumOfThread \/ Stop

Terminated == call.name = "joined" /\ UNCHANGED vars

Next ==
    \/ \E t \in Tasks : Add(t)
    \/ \E w \in Workers : WorkerStep(w)
    \/ OwnerStep \/ OwnerCall
    \/ Terminated

Spec == Init /\ [][Next]_vars

\* Threads are scheduled, tasks return, and a call once made is carried through.
FairSpec ==
    /\ Spec
    /\ \A w \in Workers : WF_vars(WorkerStep(w))
    /\ WF_vars(OwnerStep)
-----------------------------------------------------------------------------
(* Properties.                                                             *)

\* Every variable has its type; a worker is at "work" exactly while it holds a task.
TypeOK ==
    /\ status \in {"RUNNING", "PAUSED", "STOPPED"}
    /\ numThreadOn \in Nat
    /\ queue \in Queue
    /\ state \in [Tasks -> {"new", "queued", "running", "done", "dropped"}]
    /\ at \in [Workers -> {"none", "gate", "asleep", "pop", "work", "dead"}]
    /\ doing \in [Workers -> Tasks \cup {None}]
    /\ \A w \in Workers : at[w] = "work" <=> doing[w] # None
    /\ call \in Calls /\ call.left <= call.n
    /\ calls \in Nat
    /\ owed \subseteq Tasks

Apples == queue.highApples + queue.lowApples

\* Iterations the call in progress has made.
Made == call.n - call.left

\* AddBadApples and CreateThreads change threads and m_numThreadOn at different
\* times, yet no apple is ever missing or left over: the threads alive are those
\* m_numThreadOn counts, those an apple waits for, and those of the call in progress.
ThreadsAreCounted ==
    Cardinality(Live) =
        numThreadOn + Apples + (IF call.name = "grow" THEN Made
                                ELSE IF call.name \in {"shrink", "stop"} THEN -Made ELSE 0)

\* thread_pool.hpp:49, "finish all running tasks and stop": once Pause has returned,
\* and until Run or Stop, no worker starts a task, although workers that passed the
\* gate before the pause are waiting in Pop and the queue may hold tasks.
PausedPoolStartsNothing ==
    [][status = "PAUSED" /\ call.name # "pause"
         => \A t \in Tasks : state[t] # "running" => state'[t] # "running"]_vars

\* thread_pool.hpp:48, "finish all queued tasks and stop": when the destructor has
\* joined the workers, each task that was in the pool when Stop was called is done,
\* however many threads were added or dropped before.
StoppedPoolOwesNothing == call.name = "joined" => \A t \in owed : state[t] = "done"

\* A task that was accepted before the pool closed is executed before it is joined
\* (the comment of Stop, thread_pool.hpp:48).  Add may queue a task behind the
\* apples, before status is STOPPED: no thread is left to pop it.
AcceptedTasksAreDone ==
    call.name = "joined" => \A t \in Tasks : state[t] \in {"new", "done", "dropped"}

\* Stop wakes the workers a Pause left asleep and hands each an apple, so the
\* destructor's joins return.
StoppedPoolJoins == call.name = "stop" ~> call.name = "joined"

\* In a pool that stays running, with no call under way, every queued task gets a
\* worker: none is left asleep by an earlier Pause or missing after a resize.
RunningPoolServesTasks ==
    \A t \in Tasks :
        state[t] = "queued" ~> (state[t] # "queued" \/ status # "RUNNING" \/ call # Ready)

-----------------------------------------------------------------------------
(* The inductive invariant of the safety proofs.                           *)

Stopping == call.name \in {"stop", "stopped", "join", "joined"}

\* m_numThreadOn while calls are under way: it reaches zero only in Stop.
CallFits ==
    /\ call.name = "shrink" => call.n < numThreadOn
    /\ call.name = "stop" => call.n = numThreadOn
    /\ IF call.name \in {"stopped", "join", "joined"}
       THEN numThreadOn = 0 /\ call.n > 0 /\ call.left = 0
       ELSE numThreadOn > 0
    /\ call.name = "joined" => Live = {}

\* A task's state says where it is, one worker executes it; an owed task is not forgotten.
TasksArePlaced ==
    /\ \A t \in Tasks : state[t] = "queued" <=> t \in queue.tasks
    /\ \A w \in Workers : doing[w] # None => state[doing[w]] = "running"
    /\ \A w, v \in Workers : doing[w] = doing[v] /\ doing[w] # None => w = v
    /\ \A t \in Tasks : state[t] = "running" => \E w \in Workers : doing[w] = t
    /\ \A t \in owed : state[t] \in {"queued", "running", "done"}

Popping == {w \in Workers : at[w] = "pop"}

\* While paused, each worker already past the gate has a mock or an apple to pop,
\* or one that the Pause under way is still to add.
PoppersAreCovered ==
    status = "PAUSED" =>
        Cardinality(Popping) <= queue.mocks + queue.highApples
                                  + (IF call.name = "pause" THEN call.left ELSE 0)

\* No apple of Stop is popped while an owed task is in the queue.
ApplesServeOwed ==
    /\ ~ Stopping => queue.lowApples = 0
    /\ Stopping /\ owed \cap queue.tasks # {} => queue.lowApples = Made

IndInv ==
    /\ TypeOK /\ CallFits /\ TasksArePlaced
    /\ ThreadsAreCounted /\ PoppersAreCovered /\ ApplesServeOwed
=============================================================================
