-------------------------------- MODULE Heap --------------------------------
(***************************************************************************)
(* ds/src: the vector, the heap and the priority queue in a vector, and    *)
(* the scheduler of tasks in a priority queue.                             *)
(***************************************************************************)
EXTENDS Integers, SequencesExt, BagsExt

-----------------------------------------------------------------------------
(***************************************************************************)
(* The growing array of ds/src/vector.c: its elements and the room in its  *)
(* block.  A vector made with no room is left out: its first growth frees  *)
(* the block.                                                              *)
(***************************************************************************)

CONSTANTS VECTOR_DATA, VECTOR_ROOM   \* elements, and capacities a client asks for

VARIABLE vector      \* [arr |-> the elements, capacity |-> how many fit]

GROWTH_FACTOR == 2

VectorCreate(capacity) == [arr |-> <<>>, capacity |-> capacity]
VectorIsFull(v) == Len(v.arr) = v.capacity
VectorResize(v, capacity) == [v EXCEPT !.capacity = capacity]

\* The vector after data is added, when realloc succeeds if it is called.
VectorPushBack(v, data) ==
    LET grown == IF VectorIsFull(v) THEN VectorResize(v, v.capacity * GROWTH_FACTOR) ELSE v
    IN  [grown EXCEPT !.arr = Append(@, data)]
VectorPopBack(v) == [v EXCEPT !.arr = Front(@)]

VectorReserve(v, capacity) == IF v.capacity > capacity THEN v ELSE VectorResize(v, capacity)

VectorShrink_Exactly(v) == VectorResize(v, Len(v.arr) - 1)
VectorShrink(v) == VectorResize(v, Min({Len(v.arr) * GROWTH_FACTOR + 1, v.capacity}))

VectorInit == \E capacity \in VECTOR_ROOM : vector = VectorCreate(capacity)

VectorNext ==
    \/ \E data \in VECTOR_DATA :
        Len(vector.arr) < Max(VECTOR_ROOM) /\ vector' = VectorPushBack(vector, data)
    \/ vector.arr # <<>> /\ vector' = VectorPopBack(vector)
    \/ \E capacity \in VECTOR_ROOM : vector' = VectorReserve(vector, capacity)
    \/ vector' = VectorShrink(vector)

-----------------------------------------------------------------------------
\* Whatever the order of growth, reservations and shrinking, the elements fit in the block.
VectorFits == Len(vector.arr) <= vector.capacity

-----------------------------------------------------------------------------
(***************************************************************************)
(* The binary heap of ds/src/heap.c in a vector, and the priority queue of *)
(* pqueue.c, which is the heap under other names.                          *)
(* Positions count from 0 as in the code: arr[i + 1] is its element i.     *)
(* A client pushes numbers and compares them as numbers, largest first.    *)
(***************************************************************************)

CONSTANTS HEAP_DATA,    \* what a client pushes
          HEAP_MAX      \* pushes while there are that many elements are not explored

VARIABLES heapVector,   \* its vector
          heapReply     \* <<e>> when the last call returned element e, or <<>>

heapVars == <<heapVector, heapReply>>

At(arr, i) == arr[i + 1]
Parent(i) == (i - 1) \div 2
SwapAt(arr, i, j) == [arr EXCEPT ![i + 1] = At(arr, j), ![j + 1] = At(arr, i)]

(***************************************************************************)
(* HeapifyUp keeps comparing the slot `current' it started from, while the *)
(* parent it compares it with goes up.  cmp compares the elements' keys.   *)
(***************************************************************************)
Prior(key, a, b) == key[a] > key[b]

RECURSIVE HeapifyUp(_, _, _, _)
HeapifyUp(arr, current, index, key) ==
    IF index > 0 /\ Prior(key, At(arr, current), At(arr, Parent(index)))
    THEN HeapifyUp(SwapAt(arr, current, Parent(index)), current, Parent(index), key)
    ELSE arr

BiggerIndex(arr, i, j, key) == IF Prior(key, At(arr, i), At(arr, j)) THEN i ELSE j

RECURSIVE HeapifyDown(_, _, _)
HeapifyDown(arr, i, key) ==
    LET left == 2 * i + 1
        side == IF left + 1 < Len(arr) THEN BiggerIndex(arr, left, left + 1, key) ELSE left
    IN  IF left >= Len(arr) \/ i = BiggerIndex(arr, i, side, key) THEN arr
        ELSE HeapifyDown(SwapAt(arr, i, side), side, key)

HeapPushed(v, data, key) ==
    LET w == VectorPushBack(v, data)
    IN  [w EXCEPT !.arr = HeapifyUp(@, Len(@) - 1, Len(@) - 1, key)]

\* The last element takes the root's place and sinks.
HeapPopped(v, key) ==
    LET w == VectorPopBack([v EXCEPT !.arr = SwapAt(@, 0, Len(@) - 1)])
    IN  [w EXCEPT !.arr = HeapifyDown(@, 0, key)]

\* Find: a search that matches nothing leaves index 0 and returns the last element.
FindIndex(arr, IsMatch(_)) ==
    LET matches == {i \in 0..(Len(arr) - 1) : IsMatch(At(arr, i))}
    IN  IF matches = {} THEN 0 ELSE CHOOSE i \in matches : \A j \in matches : i <= j
FindElement(arr, IsMatch(_)) ==
    IF \E i \in DOMAIN arr : IsMatch(arr[i]) THEN At(arr, FindIndex(arr, IsMatch)) ELSE Last(arr)

HeapRemoved(v, i, key) ==
    LET w == VectorPopBack([v EXCEPT !.arr[i + 1] = Last(v.arr)])
    IN  IF i = Len(v.arr) - 1 THEN VectorPopBack(v)
        ELSE IF i > 0 /\ Prior(key, At(w.arr, i), At(w.arr, Parent(i)))
             THEN [w EXCEPT !.arr = HeapifyUp(@, i, i, key)]
             ELSE [w EXCEPT !.arr = HeapifyDown(@, i, key)]

HeapRemoved_RootOnly(v, i, key) == HeapPopped(v, key)

-----------------------------------------------------------------------------
Itself == [data \in HEAP_DATA |-> data]

HeapInit == heapVector = VectorCreate(1) /\ heapReply = <<>>

PQueueEnqueue(data) ==
    /\ Len(heapVector.arr) < HEAP_MAX
    /\ heapVector' = HeapPushed(heapVector, data, Itself)
    /\ heapReply' = <<>>

\* realloc fails: the vector and its block stay as they were.
PQueueEnqueueNoMemory == /\ VectorIsFull(heapVector)
                         /\ heapReply' = <<>>
                         /\ UNCHANGED heapVector

PQueueDequeue == /\ heapVector.arr # <<>>
                 /\ heapReply' = <<At(heapVector.arr, 0)>>
                 /\ heapVector' = HeapPopped(heapVector, Itself)

HeapRemove(data) ==
    LET IsMatch(e) == e = data
    IN  IF heapVector.arr = <<>> THEN heapReply' = <<>> /\ UNCHANGED heapVector
        ELSE /\ heapReply' = <<FindElement(heapVector.arr, IsMatch)>>
             /\ heapVector' = HeapRemoved(heapVector, FindIndex(heapVector.arr, IsMatch), Itself)

HeapNext == \/ PQueueEnqueueNoMemory \/ PQueueDequeue
            \/ \E data \in HEAP_DATA : PQueueEnqueue(data) \/ HeapRemove(data)

-----------------------------------------------------------------------------
(***************************************************************************)
(* No call loses, doubles or changes an element on its way through the     *)
(* array: each adds what it was given or takes out what it returns.  Only  *)
(* a removal that matches nothing does not: where it should return NULL,   *)
(* it takes out the first element and returns the last.                    *)
(***************************************************************************)
HeapKeepsElements ==
    LET arr == heapVector.arr
        before == ToBag(arr)
        after == ToBag(heapVector'.arr)
        TakesOut(data, reply) == heapReply' = <<reply>> /\ after = BagRemove(before, data)
    IN  /\ PQueueDequeue => TakesOut(Head(arr), Head(arr))
        /\ \A data \in HEAP_DATA :
            /\ PQueueEnqueue(data) => heapReply' = <<>> /\ after = BagAdd(before, data)
            /\ HeapRemove(data) => CASE data \in DOMAIN before -> TakesOut(data, data)
                                     [] arr = <<>> -> heapReply' = <<>> /\ after = before
                                     [] OTHER -> TakesOut(Head(arr), Last(arr))

(***************************************************************************)
(* The first element is one that no other comes before: what PQueueDequeue *)
(* promises to return (pqueue.h).  The code does not keep it.              *)
(***************************************************************************)
FirstIsNext == \A i \in DOMAIN heapVector.arr : heapVector.arr[i] <= heapVector.arr[1]

-----------------------------------------------------------------------------
(***************************************************************************)
(* The task scheduler of ds/src/scheduler.c, task.c and uid.c.  A task is  *)
(* its uid's counter.  Calls come from the client while the scheduler does *)
(* not run and from the running task's function while it does.  A refused  *)
(* allocation in SchedulerAddTask changes nothing and is left out.         *)
(***************************************************************************)

CONSTANTS TS_TASKS,       \* how many tasks a client adds, at most
          TS_INTERVALS,   \* their intervals, in seconds
          TS_TIME         \* the time at which the clock stops

VARIABLES tsPq,           \* the priority queue of the tasks
          tsTask,         \* tsTask[uid]: its interval and time_ready
          tsCurrent,      \* sc->current: it may point to a task that is destroyed
          tsStopped, tsRemoveSelf,
          tsPc,           \* where SchedulerRun is, or "undefined"
          tsNow,          \* time(NULL)
          tsCleaned       \* tsCleaned[uid]: calls of its cleanup function

tsVars == <<tsPq, tsTask, tsCurrent, tsStopped, tsRemoveSelf, tsPc, tsNow, tsCleaned>>

None == 0
Tasks == DOMAIN tsTask
ClientMayCall == tsPc \in {"idle", "running"}

\* PriorityCmp: the earlier a task is ready, the sooner it goes.
PriorityCmp(task) == [uid \in DOMAIN task |-> -task[uid].ready]
Enqueued(pq, task, uid) == HeapPushed(pq, uid, PriorityCmp(task))

SchedulerInit ==
    /\ tsPq = VectorCreate(1) /\ tsTask = <<>> /\ tsCleaned = <<>>
    /\ tsCurrent = None /\ tsStopped = FALSE /\ tsRemoveSelf = FALSE
    /\ tsPc = "idle" /\ tsNow = 0

SchedulerAddTask == \E interval \in TS_INTERVALS :
    LET uid == Len(tsTask) + 1
    IN  /\ ClientMayCall /\ uid <= TS_TASKS
        /\ tsTask' = Append(tsTask, [interval |-> interval, ready |-> tsNow + interval])
        /\ tsPq' = Enqueued(tsPq, tsTask', uid)
        /\ tsCleaned' = Append(tsCleaned, 0)
        /\ UNCHANGED <<tsCurrent, tsStopped, tsRemoveSelf, tsPc, tsNow>>

CleanedAndDestroyed(uid) == tsCleaned' = [tsCleaned EXCEPT ![uid] = @ + 1]

\* The removal of the current task is only noted, and forgotten when another one is asked for.
\* A current that is destroyed may still read as the uid asked for, or as any other.
SchedulerRemoveSelf ==
    /\ ClientMayCall /\ tsCurrent # None
    /\ tsRemoveSelf' = TRUE
    /\ UNCHANGED <<tsPq, tsTask, tsCurrent, tsStopped, tsPc, tsNow, tsCleaned>>

(***************************************************************************)
(* CmpFunc is called with the uid for its task and a task for its uid: it  *)
(* compares what lies behind the uid on the stack with other members of    *)
(* the task, and may match any task in the queue or none.  When none of    *)
(* several matches, HeapRemove takes out the first and returns the last,   *)
(* which is destroyed in the queue: nothing that follows is defined.       *)
(***************************************************************************)
CmpFuncMatches(arr) == {[index |-> i, element |-> At(arr, i)] : i \in 0..(Len(arr) - 1)}
                           \cup {[index |-> 0, element |-> Last(arr)]}

RemovesQueued == \E found \in CmpFuncMatches(tsPq.arr) :
    /\ tsPq' = HeapRemoved(tsPq, found.index, PriorityCmp(tsTask))
    /\ CleanedAndDestroyed(found.element)
    /\ tsPc' = IF found.element = At(tsPq.arr, found.index) THEN tsPc ELSE "undefined"

SchedulerRemoveTask_NoReturn == \E uid \in Tasks :
    /\ ClientMayCall
    /\ tsRemoveSelf' = (tsCurrent = uid)
    /\ CleanedAndDestroyed(uid)
    /\ tsPq' = [tsPq EXCEPT !.arr = Remove(@, uid)]
    /\ UNCHANGED <<tsTask, tsCurrent, tsStopped, tsPc, tsNow>>

\* Another task than the current one: also when current is destroyed, and what it was is not there.
SchedulerRemoveTask == \E uid \in Tasks :
    /\ ClientMayCall
    /\ tsCurrent # uid \/ tsCleaned[uid] # 0
    /\ tsRemoveSelf' = IF tsCurrent = None THEN tsRemoveSelf ELSE FALSE
    /\ IF tsPq.arr = <<>> THEN UNCHANGED <<tsPq, tsPc, tsCleaned>> ELSE RemovesQueued
    /\ UNCHANGED <<tsTask, tsCurrent, tsStopped, tsNow>>

SchedulerStop == /\ ClientMayCall /\ tsStopped' = TRUE
                 /\ UNCHANGED <<tsPq, tsTask, tsCurrent, tsRemoveSelf, tsPc, tsNow, tsCleaned>>

SchedulerRun == /\ tsPc = "idle" /\ tsPc' = "loop"
                /\ UNCHANGED <<tsPq, tsTask, tsCurrent, tsStopped, tsRemoveSelf, tsNow, tsCleaned>>

DequeueAndTimeCheckUntilRun ==
    /\ tsPc = "loop" /\ tsPq.arr # <<>> /\ ~tsStopped
    /\ tsCurrent' = tsPq.arr[1]
    /\ tsPq' = HeapPopped(tsPq, PriorityCmp(tsTask))
    /\ tsPc' = "waiting"
    /\ UNCHANGED <<tsTask, tsStopped, tsRemoveSelf, tsNow, tsCleaned>>

RunReturns == /\ tsPc = "loop" /\ (tsPq.arr = <<>> \/ tsStopped)
              /\ tsCurrent' = None /\ tsStopped' = FALSE /\ tsPc' = "idle"
              /\ UNCHANGED <<tsPq, tsTask, tsRemoveSelf, tsNow, tsCleaned>>

\* sleep(time_remain): a signal may end it early, and it may return a second late.
Sleep == /\ tsPc = "waiting" /\ tsNow < tsTask[tsCurrent].ready
         /\ tsNow' \in (tsNow + 1)..(tsTask[tsCurrent].ready + 1)
         /\ UNCHANGED <<tsPq, tsTask, tsCurrent, tsStopped, tsRemoveSelf, tsPc, tsCleaned>>

\* A negative time_remain is converted to unsigned: undefined, no sleep or one of 2^32 seconds.
SleepLate == /\ tsPc = "waiting" /\ tsNow > tsTask[tsCurrent].ready
             /\ tsPc' \in {"running", "oversleeping"}
             /\ UNCHANGED <<tsPq, tsTask, tsCurrent, tsStopped, tsRemoveSelf, tsNow, tsCleaned>>

TaskDoFunc == /\ tsPc = "waiting" /\ tsNow = tsTask[tsCurrent].ready
              /\ tsPc' = "running"
              /\ UNCHANGED <<tsPq, tsTask, tsCurrent, tsStopped, tsRemoveSelf, tsNow, tsCleaned>>

TimePasses == /\ ClientMayCall /\ tsNow < TS_TIME /\ tsNow' = tsNow + 1
              /\ UNCHANGED <<tsPq, tsTask, tsCurrent, tsStopped, tsRemoveSelf, tsPc, tsCleaned>>

\* The function returns FAILURE or DO_NOT_REPEAT, or has removed its own task.
TaskEnds == /\ tsPc = "running" /\ tsPc' = "loop"
            /\ CleanedAndDestroyed(tsCurrent) /\ tsRemoveSelf' = FALSE
            /\ UNCHANGED <<tsPq, tsTask, tsCurrent, tsStopped, tsNow>>

TaskRepeats ==
    /\ tsPc = "running" /\ ~tsRemoveSelf /\ tsNow + tsTask[tsCurrent].interval <= TS_TIME
    /\ tsTask' = [tsTask EXCEPT ![tsCurrent].ready = tsNow + tsTask[tsCurrent].interval]
    /\ tsPq' = Enqueued(tsPq, tsTask', tsCurrent)
    /\ tsPc' = "loop"
    /\ UNCHANGED <<tsCurrent, tsStopped, tsRemoveSelf, tsNow, tsCleaned>>

\* PQ_ENQUEUE_FAIL: SchedulerRun returns at once and leaves current and the flags as they are.
TaskRepeatsNoMemory ==
    /\ tsPc = "running" /\ ~tsRemoveSelf /\ VectorIsFull(tsPq)
    /\ CleanedAndDestroyed(tsCurrent) /\ tsPc' = "idle"
    /\ UNCHANGED <<tsPq, tsTask, tsCurrent, tsStopped, tsRemoveSelf, tsNow>>

SchedulerDestroy ==
    /\ tsPc = "idle" /\ tsPc' = "destroyed"
    /\ tsCleaned' = [uid \in Tasks |-> tsCleaned[uid] + (IF Contains(tsPq.arr, uid) THEN 1 ELSE 0)]
    /\ tsPq' = [tsPq EXCEPT !.arr = <<>>] /\ tsCurrent' = None
    /\ UNCHANGED <<tsTask, tsStopped, tsRemoveSelf, tsNow>>

TaskSchedulerNext ==
    \/ SchedulerAddTask \/ SchedulerRemoveSelf \/ SchedulerRemoveTask \/ SchedulerStop
    \/ SchedulerRun \/ DequeueAndTimeCheckUntilRun \/ RunReturns \/ Sleep
    \/ SleepLate \/ TaskDoFunc \/ TimePasses \/ TaskEnds \/ TaskRepeats \/ TaskRepeatsNoMemory
    \/ SchedulerDestroy

-----------------------------------------------------------------------------
(***************************************************************************)
(* Whatever the tasks do, a task is in the queue, current, or cleaned up   *)
(* once and destroyed: SchedulerRun, a removal and SchedulerDestroy        *)
(* neither lose one nor clean one up twice.  Only a removal that finds     *)
(* none of several tasks loses one and leaves a destroyed one queued.      *)
(***************************************************************************)
IsHeld(uid) == /\ tsCurrent = uid
               /\ \/ tsPc \in {"waiting", "oversleeping", "running"}
                  \/ tsPc = "undefined" /\ tsCleaned[uid] = 0
Places(uid) == Cardinality({i \in DOMAIN tsPq.arr : tsPq.arr[i] = uid})
                   + (IF IsHeld(uid) THEN 1 ELSE 0) + tsCleaned[uid]
TasksAreCleanedOnce ==
    IF tsPc # "undefined" THEN \A uid \in Tasks : Places(uid) = 1
    ELSE \E lost, dangling \in Tasks :
            /\ Contains(tsPq.arr, dangling) /\ tsCleaned[dangling] = 1
            /\ \A uid \in Tasks : Places(uid) = CASE uid = lost -> 0 [] uid = dangling -> 2 [] OTHER -> 1
=============================================================================
