------------------------------ MODULE Dispatcher ------------------------------
(***************************************************************************)
(* Dispatcher and BaseCallback: each side keeps pointers to the other and  *)
(* tells it when it dies.  NotifyAll and ~Dispatcher go over a copy of the *)
(* set, and what they call is the observers' own code, which may subscribe,*)
(* unsubscribe, destroy and notify in turn: a stack of loops.              *)
(*                                                                         *)
(* m_dispatcher remembers one dispatcher, and the code checks nothing: a   *)
(* callback that is subscribed to a second one, or while the death of an   *)
(* earlier one has yet to reach it, strays: a dispatcher holds it that it  *)
(* will not unsubscribe from.  A callback that is dead when a loop calls   *)
(* it, and a dispatcher that is dead when a callback unsubscribes from it, *)
(* are undefined behaviour.                                                *)
(***************************************************************************)
EXTENDS Integers, Sequences, FiniteSets

CONSTANTS
    DISPATCHERS, CALLBACKS,
    NO_DISPATCHER,   \* nullptr
    LOOP_DEPTH       \* bound on loops inside one another

ASSUME NobodyAssumption == NO_DISPATCHER \notin DISPATCHERS

VARIABLES
    dispatchers,    \* the live ones
    callbacks,      \* the live ones
    m_callbacks,    \* the set of each dispatcher
    m_dispatcher,   \* the pointer of each callback
    loops,          \* the loops under way, the innermost last
    strays,         \* history: callbacks that one pointer has not been enough for
    dispUndefined   \* a dead callback or dispatcher has been called

dispVars == <<dispatchers, callbacks, m_callbacks, m_dispatcher, loops, strays, dispUndefined>>

DispInit ==
    /\ dispatchers = DISPATCHERS /\ callbacks = CALLBACKS
    /\ m_callbacks = [d \in DISPATCHERS |-> {}]
    /\ m_dispatcher = [c \in CALLBACKS |-> NO_DISPATCHER]
    /\ loops = <<>> /\ strays = {} /\ dispUndefined = FALSE

Innermost == loops[Len(loops)]
Dying == {loops[i].of : i \in {j \in DOMAIN loops : loops[j].kind = "death"}}

HearsOfDeath(c) == \E i \in DOMAIN loops : loops[i].kind = "death" /\ c \in loops[i].left

-----------------------------------------------------------------------------
\* The pointer is another dispatcher's, or somebody is still to clear or to outlive it.
Strays(d, c) ==
    \/ m_dispatcher[c] \notin {d, NO_DISPATCHER}
    \/ d \in Dying \/ HearsOfDeath(c)

Subscribe(d, c) ==
    /\ d \in dispatchers /\ c \in callbacks
    /\ m_callbacks' = [m_callbacks EXCEPT ![d] = @ \cup {c}]
    /\ m_dispatcher' = [m_dispatcher EXCEPT ![c] = d]
    /\ strays' = IF Strays(d, c) THEN strays \cup {c} ELSE strays
    /\ UNCHANGED <<dispatchers, callbacks, loops, dispUndefined>>

\* From a dispatcher it is not subscribed to, too: its pointer goes all the same.
Unsubscribe(d, c) ==
    /\ d \in dispatchers /\ c \in callbacks
    /\ m_callbacks' = [m_callbacks EXCEPT ![d] = @ \ {c}]
    /\ m_dispatcher' = [m_dispatcher EXCEPT ![c] = NO_DISPATCHER]
    /\ strays' = IF m_dispatcher[c] \in {d, NO_DISPATCHER} THEN strays ELSE strays \cup {c}
    /\ UNCHANGED <<dispatchers, callbacks, loops, dispUndefined>>

\* Bug: the destructor tells nobody.
DestroyCallback_Silently(c) ==
    /\ c \in callbacks /\ callbacks' = callbacks \ {c}
    /\ m_dispatcher' = [m_dispatcher EXCEPT ![c] = NO_DISPATCHER]
    /\ UNCHANGED <<dispatchers, m_callbacks, loops, strays, dispUndefined>>

\* ~BaseCallback unsubscribes from the dispatcher its pointer is to.
DestroyCallback(c) ==
    /\ c \in callbacks /\ callbacks' = callbacks \ {c}
    /\ m_callbacks' = [d \in DISPATCHERS |-> IF d = m_dispatcher[c] THEN m_callbacks[d] \ {c}
                                             ELSE m_callbacks[d]]
    /\ m_dispatcher' = [m_dispatcher EXCEPT ![c] = NO_DISPATCHER]
    /\ dispUndefined' = (m_dispatcher[c] \notin dispatchers \cup {NO_DISPATCHER})
    /\ UNCHANGED <<dispatchers, loops, strays>>

Loop(kind, d) ==
    /\ Len(loops) < LOOP_DEPTH /\ d \in dispatchers
    /\ loops' = Append(loops, [kind |-> kind, of |-> d, left |-> m_callbacks[d]])
    /\ UNCHANGED <<dispatchers, callbacks, m_callbacks, m_dispatcher, strays, dispUndefined>>

NotifyAll(d) == Loop("notify", d)
DestroyDispatcher(d) == d \notin Dying /\ Loop("death", d)

\* Bug: the callback keeps its pointer.
NotifyDeath_PointerKept(c) == m_dispatcher' = m_dispatcher

\* m_dispatcher is cleared before the observer hears of it.
NotifyDeath(c) == m_dispatcher' = [m_dispatcher EXCEPT ![c] = NO_DISPATCHER]

\* for_each over the copy: Notify or NotifyDeath of the next callback.
NotifyNext ==
    /\ loops # <<>>
    /\ \E c \in Innermost.left :
         /\ loops' = [loops EXCEPT ![Len(loops)].left = @ \ {c}]
         /\ dispUndefined' = (c \notin callbacks)
         /\ IF Innermost.kind = "death" THEN NotifyDeath(c) ELSE UNCHANGED m_dispatcher
    /\ UNCHANGED <<dispatchers, callbacks, m_callbacks, strays>>

LoopEnds ==
    /\ loops # <<>> /\ Innermost.left = {}
    /\ loops' = SubSeq(loops, 1, Len(loops) - 1)
    /\ IF Innermost.kind = "death"
       THEN /\ dispatchers' = dispatchers \ {Innermost.of}
            /\ m_callbacks' = [m_callbacks EXCEPT ![Innermost.of] = {}]
       ELSE UNCHANGED <<dispatchers, m_callbacks>>
    /\ UNCHANGED <<callbacks, m_dispatcher, strays, dispUndefined>>

DispNext ==
    /\ ~dispUndefined
    /\ \/ \E d \in DISPATCHERS, c \in CALLBACKS : Subscribe(d, c) \/ Unsubscribe(d, c)
       \/ \E c \in CALLBACKS : DestroyCallback(c)
       \/ \E d \in DISPATCHERS : NotifyAll(d) \/ DestroyDispatcher(d)
       \/ NotifyNext \/ LoopEnds

DispSpec == DispInit /\ [][DispNext]_dispVars

-----------------------------------------------------------------------------
\* Whatever observers do while they are notified, and in whatever order both sides die,
\* each dispatcher and its callbacks point to one another, so that a callback that dies
\* leaves its dispatcher and a dispatcher that dies is forgotten -- except by callbacks
\* that strayed themselves: one that never did is not hurt by those that do.
SubscriptionsAgree ==
    /\ \A d \in dispatchers \ Dying : \A c \in m_callbacks[d] \ strays :
         c \in callbacks /\ m_dispatcher[c] = d
    /\ \A c \in callbacks \ strays : m_dispatcher[c] # NO_DISPATCHER =>
         m_dispatcher[c] \in dispatchers /\ c \in m_callbacks[m_dispatcher[c]]
=============================================================================
