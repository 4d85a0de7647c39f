---------------------------- MODULE WaitableQueue ----------------------------
(***************************************************************************)
(* The framework's WaitableQueue: Push adds an element under m_mtx and     *)
(* calls notify_one after it has unlocked; Pop waits on m_condNotEmpty for *)
(* an element, and its timed variant gives up at a deadline, either before *)
(* it owns the lock or when the deadline finds the queue empty.            *)
(*                                                                         *)
(* What the container does with the elements is its own business: only     *)
(* their number matters here.  A thread's stretch under m_mtx is a step.   *)
(***************************************************************************)
EXTENDS Integers, FiniteSets

CONSTANTS
    Threads,    \* threads that call Push or Pop, one call at a time
    MaxPushes   \* bound on the calls of Push

ASSUME ThreadsAssumption == IsFiniteSet(Threads)
ASSUME PushesAssumption == MaxPushes \in Nat

VARIABLES
    size,       \* elements in m_container
    at,         \* where each thread is in its call
    timed,      \* threads whose Pop has a timeout
    pushes      \* calls of Push so far

vars == <<size, at, timed, pushes>>

Init ==
    /\ size = 0 /\ pushes = 0
    /\ at = [c \in Threads |-> "idle"]
    /\ timed = {}

Asleep == {c \in Threads : at[c] = "asleep"}
\* Consumers that the notification of an element, or their deadline, has woken.
Awake == {c \in Threads : at[c] \in {"awake", "expired"}}
Notifying == {c \in Threads : at[c] = "notify"}

Goto(c, place) == at' = [at EXCEPT ![c] = place]

-----------------------------------------------------------------------------
Push_NotifiesFirstOnly(c) ==
    /\ at[c] = "idle" /\ pushes < MaxPushes
    /\ size' = size + 1
    /\ pushes' = pushes + 1
    /\ IF size = 0 THEN Goto(c, "notify") ELSE UNCHANGED at
    /\ UNCHANGED timed

\* lock, push, unlock.
Push(c) ==
    /\ at[c] = "idle" /\ pushes < MaxPushes
    /\ size' = size + 1
    /\ pushes' = pushes + 1
    /\ Goto(c, "notify")
    /\ UNCHANGED timed

\* m_condNotEmpty.notify_one: it wakes one waiting thread, if there is one.
NotifyOne(c) ==
    /\ at[c] = "notify"
    /\ \/ \E d \in Asleep : at' = [at EXCEPT ![c] = "idle", ![d] = "awake"]
       \/ Asleep = {} /\ Goto(c, "idle")
    /\ UNCHANGED <<size, timed, pushes>>

\* Pop(outParam) and Pop(outParam, timeout) up to the lock.
Pop(c) ==
    /\ at[c] = "idle"
    /\ Goto(c, "calling")
    /\ timed' \in {timed \ {c}, timed \cup {c}}
    /\ UNCHANGED <<size, pushes>>

\* try_lock_until: the deadline passes before the lock is free.
LockTimeout(c) ==
    /\ c \in timed /\ at[c] = "calling"
    /\ Goto(c, "idle")
    /\ UNCHANGED <<size, timed, pushes>>

\* The wait's predicate holds: front, pop, unlock.
Take(c) ==
    /\ at[c] \in {"calling", "awake", "expired"} /\ size > 0
    /\ size' = size - 1
    /\ Goto(c, "idle")
    /\ UNCHANGED <<timed, pushes>>

\* It does not: wait gives the lock back until a notification.
Sleep(c) ==
    /\ at[c] \in {"calling", "awake"} /\ size = 0
    /\ Goto(c, "asleep")
    /\ UNCHANGED <<size, timed, pushes>>

\* A condition variable may wake a thread that nobody notified.
WakeSpuriously(c) ==
    /\ at[c] = "asleep"
    /\ Goto(c, "awake")
    /\ UNCHANGED <<size, timed, pushes>>

\* The deadline passes while the thread owns the lock or waits, notified or not.
Deadline(c) ==
    /\ c \in timed /\ at[c] \in {"calling", "asleep", "awake"}
    /\ Goto(c, "expired")
    /\ UNCHANGED <<size, timed, pushes>>

\* wait_until tests its predicate once more after the deadline.
GiveUp_Untested(c) ==
    /\ at[c] = "expired"
    /\ Goto(c, "idle")
    /\ UNCHANGED <<size, timed, pushes>>

GiveUp(c) ==
    /\ at[c] = "expired" /\ size = 0
    /\ Goto(c, "idle")
    /\ UNCHANGED <<size, timed, pushes>>

-----------------------------------------------------------------------------
CallStep(c) == NotifyOne(c) \/ Take(c) \/ Sleep(c) \/ GiveUp(c)

Next == \E c \in Threads :
            \/ Push(c) \/ Pop(c) \/ CallStep(c)
            \/ LockTimeout(c) \/ WakeSpuriously(c) \/ Deadline(c)

Spec == Init /\ [][Next]_vars

\* A thread inside a call is scheduled and gets the lock; nobody has to call.
FairSpec == Spec /\ \A c \in Threads : WF_vars(CallStep(c))

-----------------------------------------------------------------------------
(* Properties.                                                             *)

\* Every variable has its type.
TypeOK ==
    /\ size \in Nat /\ pushes \in Nat
    /\ at \in [Threads -> {"idle", "notify", "calling", "asleep", "awake", "expired"}]
    /\ timed \subseteq Threads
    /\ \A c \in Threads : at[c] = "expired" => c \in timed

\* While a consumer sleeps, each element has its own notification under way or its own
\* consumer on the way to the lock: a wakeup is lost neither to a Pop that comes in
\* between nor to one that times out.
NoLostWakeup ==
    Asleep # {} => size <= Cardinality(Awake) + Cardinality(Notifying)

\* Pop does not leave elements and sleeping consumers side by side for ever.
SleepersAreServed == ~ <>[](Asleep # {} /\ size > 0)
=============================================================================
