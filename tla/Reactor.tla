-------------------------------- MODULE Reactor --------------------------------
(***************************************************************************)
(* Reactor: Run copies the handlers, lets the listener choose the ready    *)
(* ones of the copy and calls these one by one.  A handler may add and     *)
(* remove handlers, stop the reactor, and run it again: a stack of runs,   *)
(* each in the handler of the one below.                                   *)
(***************************************************************************)
EXTENDS Integers, Sequences, FiniteSets, SequencesExt

CONSTANTS
    HANDLES,        \* pairs of a descriptor and a mode
    MAX_HANDLERS,   \* bound on the calls of Add
    RUN_DEPTH       \* bound on runs inside one another

ASSUME HandlesAssumption == IsFiniteSet(HANDLES)

VARIABLES
    m_handlers,    \* the handler of each pair, a number, 0 for none
    m_isRunning,
    runs,          \* the calls of Run: the copy, the ready pairs left, whether in a handler
    added,         \* calls of Add so far
    retired        \* history: handlers removed or replaced before the last Listen

reactorVars == <<m_handlers, m_isRunning, runs, added, retired>>

ReactorInit ==
    /\ m_handlers = [k \in HANDLES |-> 0] /\ m_isRunning = FALSE
    /\ runs = <<>> /\ added = 0 /\ retired = {}

Top == Len(runs)
\* The client's code runs before the first Run and in a handler.
ClientRuns == runs # <<>> => runs[Top].handler # 0

ReactorAdd(k) ==
    /\ ClientRuns /\ added < MAX_HANDLERS
    /\ added' = added + 1
    /\ m_handlers' = [m_handlers EXCEPT ![k] = added + 1]
    /\ UNCHANGED <<m_isRunning, runs, retired>>

ReactorRemove(k) ==
    /\ ClientRuns /\ m_handlers[k] # 0
    /\ m_handlers' = [m_handlers EXCEPT ![k] = 0]
    /\ UNCHANGED <<m_isRunning, runs, added, retired>>

ReactorStop ==
    /\ ClientRuns /\ m_isRunning
    /\ m_isRunning' = FALSE
    /\ UNCHANGED <<m_handlers, runs, added, retired>>

\* A second call returns at once while the reactor runs; after Stop it does not.
ReactorRun ==
    /\ ClientRuns /\ ~m_isRunning /\ Top < RUN_DEPTH
    /\ m_isRunning' = TRUE
    /\ runs' = Append(runs, [copy |-> m_handlers, ready |-> <<>>, handler |-> 0])
    /\ UNCHANGED <<m_handlers, added, retired>>

\* Bug: the handlers are copied once, before the loop.
Listen_OldCopy ==
    /\ runs # <<>> /\ runs[Top].handler = 0 /\ runs[Top].ready = <<>>
    /\ \E ready \in {k \in HANDLES : runs[Top].copy[k] # 0} : runs' = [runs EXCEPT ![Top].ready = <<ready>>]
    /\ retired' = (1..added) \ {m_handlers[k] : k \in HANDLES}
    /\ UNCHANGED <<m_handlers, m_isRunning, added>>

\* A turn of the loop: the copy, and the ready pairs among its keys in any order.
Listen ==
    /\ runs # <<>> /\ runs[Top].handler = 0 /\ runs[Top].ready = <<>>
    /\ \E ready \in SUBSET {k \in HANDLES : m_handlers[k] # 0} : \E order \in SetToSeqs(ready) :
         runs' = [runs EXCEPT ![Top] = [copy |-> m_handlers, ready |-> order, handler |-> 0]]
    /\ retired' = (1..added) \ {m_handlers[k] : k \in HANDLES}
    /\ UNCHANGED <<m_handlers, m_isRunning, added>>

CallHandler ==
    /\ runs # <<>> /\ runs[Top].handler = 0 /\ runs[Top].ready # <<>>
    /\ LET run == runs[Top] IN
       runs' = [runs EXCEPT ![Top] = [copy |-> run.copy, ready |-> Tail(run.ready),
                                      handler |-> run.copy[Head(run.ready)]]]
    /\ UNCHANGED <<m_handlers, m_isRunning, added, retired>>

\* Bug: the flag is not looked at before the batch is done.
HandlerReturns_WholeBatch ==
    /\ runs # <<>> /\ runs[Top].handler # 0
    /\ IF m_isRunning \/ runs[Top].ready # <<>> THEN runs' = [runs EXCEPT ![Top].handler = 0]
       ELSE runs' = SubSeq(runs, 1, Top - 1)
    /\ UNCHANGED <<m_handlers, m_isRunning, added, retired>>

\* It returns or throws, which is the same: Run returns if the reactor was stopped.
HandlerReturns ==
    /\ runs # <<>> /\ runs[Top].handler # 0
    /\ IF m_isRunning THEN runs' = [runs EXCEPT ![Top].handler = 0]
       ELSE runs' = SubSeq(runs, 1, Top - 1)
    /\ UNCHANGED <<m_handlers, m_isRunning, added, retired>>

ReactorNext ==
    \/ \E k \in HANDLES : ReactorAdd(k) \/ ReactorRemove(k)
    \/ ReactorStop \/ ReactorRun \/ Listen \/ CallHandler \/ HandlerReturns

-----------------------------------------------------------------------------
\* A batch is served from a copy, but never an old one: a handler that was removed or
\* replaced before the listener was asked is not called, and none is after Stop, however
\* runs are nested in handlers.
OldHandlersRest ==
    (runs # <<>> /\ Len(runs') = Top /\ runs'[Top].handler \notin {0, runs[Top].handler})
        => m_isRunning /\ runs'[Top].handler \notin retired
=============================================================================
