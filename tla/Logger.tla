-------------------------------- MODULE Logger --------------------------------
(***************************************************************************)
(* The Logger behind Handleton: made by the first thread that asks for it, *)
(* double checked, with a thread of its own that writes what is pushed to  *)
(* its WaitableQueue, and deleted by a function of atexit that pushes the  *)
(* stop message and joins that thread.                                     *)
(*                                                                         *)
(* exit may run while other threads log: a pointer that one has got already*)
(* is then dangling, or null (undefined), and a later GetInstance makes a  *)
(* Logger anew, whose stream truncates the file.                           *)
(***************************************************************************)
EXTENDS Integers, Sequences, FiniteSets

CONSTANTS
    LOGGING,     \* the threads that log
    MAX_LOGS     \* bound on the calls of Log

STOP_MSG == 0
NULL_LOGGER == 0

VARIABLES
    m_instance,   \* the number of the logger it points to, alive or not
    living,       \* loggers that are not destroyed
    m_mtx,        \* whether a thread is in the critical section of GetInstance
    logging,      \* where each thread is
    pointer,      \* the logger that GetInstance has given it
    m_queue,      \* messages, numbered by their calls
    logThread,    \* the logger's thread: "none", "pops" or "ended"
    logFile,      \* what it has written
    logs,         \* calls of Log so far
    made,         \* loggers made
    atExit,       \* registrations of CleanUp that have not run
    exiting,      \* main: "runs", "exit", "joins", "deletes", "ended"
    accepted,     \* history: the messages pushed before the stop message
    logUndefined

handletonVars == <<m_instance, living, made, atExit>>
queueVars == <<m_queue, logThread, logFile>>
logVars == <<handletonVars, m_mtx, logging, pointer, queueVars, logs, exiting, accepted, logUndefined>>

LoggerInit ==
    /\ m_instance = NULL_LOGGER /\ living = {} /\ made = 0 /\ atExit = 0
    /\ m_mtx = FALSE /\ logging = [t \in LOGGING |-> "idle"]
    /\ pointer = [t \in LOGGING |-> NULL_LOGGER]
    /\ m_queue = <<>> /\ logThread = "none" /\ logFile = <<>> /\ logs = 0
    /\ exiting = "runs" /\ accepted = <<>> /\ logUndefined = FALSE

At(t, place) == logging[t] = place /\ exiting # "ended"
GoesTo(t, place) == logging' = [logging EXCEPT ![t] = place]

-----------------------------------------------------------------------------
(* Handleton::GetInstance.                                                 *)

GetInstance(t) ==
    /\ At(t, "idle") /\ logs < MAX_LOGS /\ logs' = logs + 1
    /\ GoesTo(t, IF m_instance = NULL_LOGGER THEN "lock" ELSE "return")
    /\ UNCHANGED <<handletonVars, m_mtx, pointer, queueVars, exiting, accepted, logUndefined>>

\* Bug: the second look is missing.
LockInstance_NotAgain(t) ==
    /\ At(t, "lock") /\ ~m_mtx
    /\ m_mtx' = TRUE /\ GoesTo(t, "make")
    /\ UNCHANGED <<handletonVars, pointer, queueVars, logs, exiting, accepted, logUndefined>>

LockInstance(t) ==
    /\ At(t, "lock") /\ ~m_mtx
    /\ m_mtx' = (m_instance = NULL_LOGGER)
    /\ GoesTo(t, IF m_instance = NULL_LOGGER THEN "make" ELSE "return")
    /\ UNCHANGED <<handletonVars, pointer, queueVars, logs, exiting, accepted, logUndefined>>

\* new Logger opens the file, which truncates it, and starts its thread.  Once the pointer
\* is stored another thread finds it without the lock, ...
MakeInstance(t) ==
    /\ At(t, "make") /\ GoesTo(t, "register")
    /\ made' = made + 1 /\ m_instance' = made + 1 /\ living' = living \cup {made + 1}
    /\ m_queue' = <<>> /\ logFile' = <<>> /\ logThread' = "pops"
    /\ UNCHANGED <<atExit, m_mtx, pointer, logs, exiting, accepted, logUndefined>>

\* ... and only then is its deletion registered.
RegisterCleanUp(t) ==
    /\ At(t, "register") /\ GoesTo(t, "return")
    /\ atExit' = atExit + 1 /\ m_mtx' = FALSE
    /\ UNCHANGED <<m_instance, living, made, pointer, queueVars, logs, exiting, accepted, logUndefined>>

\* The pointer is read once more to be returned.
ReturnInstance(t) ==
    /\ At(t, "return") /\ GoesTo(t, "log")
    /\ pointer' = [pointer EXCEPT ![t] = m_instance]
    /\ UNCHANGED <<handletonVars, m_mtx, queueVars, logs, exiting, accepted, logUndefined>>

\* Log through the pointer: dropped by its level, or pushed.
Log(t) ==
    /\ At(t, "log") /\ GoesTo(t, "idle")
    /\ logUndefined' = (pointer[t] \notin living)
    /\ \/ UNCHANGED <<m_queue, accepted>>
       \/ /\ m_queue' = Append(m_queue, logs)
          /\ accepted' = IF exiting \in {"runs", "exit"} THEN Append(accepted, logs) ELSE accepted
    /\ UNCHANGED <<handletonVars, m_mtx, pointer, logThread, logFile, logs, exiting>>

-----------------------------------------------------------------------------
\* The stop message is written too, and is empty.
PopFromQueueLog ==
    /\ logThread = "pops" /\ m_queue # <<>> /\ exiting # "ended"
    /\ m_queue' = Tail(m_queue)
    /\ IF Head(m_queue) = STOP_MSG THEN logThread' = "ended" /\ UNCHANGED logFile
       ELSE logFile' = Append(logFile, Head(m_queue)) /\ UNCHANGED logThread
    /\ UNCHANGED <<handletonVars, m_mtx, logging, pointer, logs, exiting, accepted, logUndefined>>

Exit(from, to) == /\ exiting = from /\ exiting' = to
                  /\ UNCHANGED <<m_mtx, logging, pointer, logs, accepted, logUndefined>>

ExitCalled == Exit("runs", "exit") /\ UNCHANGED <<handletonVars, queueVars>>

\* Bug: the stop message does not wait for its turn.
DestroyLogger_Clears ==
    /\ Exit("exit", "joins") /\ atExit > 0
    /\ atExit' = atExit - 1 /\ m_queue' = <<STOP_MSG>>
    /\ UNCHANGED <<m_instance, living, made, logThread, logFile>>

\* CleanUp: ~Logger pushes the stop message, ...
DestroyLogger ==
    /\ Exit("exit", "joins") /\ atExit > 0
    /\ atExit' = atExit - 1 /\ m_queue' = Append(m_queue, STOP_MSG)
    /\ UNCHANGED <<m_instance, living, made, logThread, logFile>>

\* ... joins the thread, and the memory goes, ...
JoinLogger ==
    /\ Exit("joins", "deletes") /\ logThread = "ended"
    /\ living' = living \ {m_instance}
    /\ UNCHANGED <<m_instance, made, atExit, queueVars>>

\* ... then the pointer.
CleanUp == /\ Exit("deletes", "exit") /\ m_instance' = NULL_LOGGER
           /\ UNCHANGED <<living, made, atExit, queueVars>>

ExitEnds == Exit("exit", "ended") /\ atExit = 0 /\ UNCHANGED <<handletonVars, queueVars>>

CleansUp == DestroyLogger \/ JoinLogger \/ CleanUp \/ ExitEnds

LoggerNext ==
    /\ ~logUndefined
    /\ \/ \E t \in LOGGING : \/ GetInstance(t) \/ LockInstance(t) \/ MakeInstance(t)
                             \/ RegisterCleanUp(t) \/ ReturnInstance(t) \/ Log(t)
       \/ PopFromQueueLog \/ ExitCalled \/ CleansUp

-----------------------------------------------------------------------------
\* However many threads ask for the logger first, one at a time lives, and when the process
\* has ended the file has every message pushed before the stop message, in order, unless
\* a thread logged once more and made another.  The one way to lose any: exit overtook the
\* thread that made the logger before its atexit, so that nothing stopped or joined it.
LogIsComplete ==
    /\ Cardinality(living) <= 1
    /\ exiting = "ended" /\ made = 1 /\ ~logUndefined =>
         logFile = accepted \/ \E t \in LOGGING : logging[t] = "register"

ProcessEnded == exiting = "ended" \/ logUndefined
=============================================================================
