------------------------------ MODULE Framework ------------------------------
(***************************************************************************)
(* The framework's parts below its pool and scheduler: the waitable queue, *)
(* the dispatcher, the reactor, the directory monitor with its plugin      *)
(* loader and the logger.  They share no state; where one uses another it  *)
(* has an object of its own.  A behaviour is one part with its clients.    *)
(***************************************************************************)
EXTENDS WaitableQueue, Dispatcher, Reactor, DirMonitor, Logger

VARIABLE part   \* the one at work

fwVars == <<part, vars, dispVars, reactorVars, dmVars, logVars>>

FrameworkInit ==
    /\ part \in {"WaitableQueue", "Dispatcher", "Reactor", "DirMonitor", "Logger"}
    /\ Init /\ DispInit /\ ReactorInit /\ DirMonitorInit /\ LoggerInit

\* A step of this part: the others rest.
In(name) ==
    /\ part = name /\ UNCHANGED part
    /\ IF name = "WaitableQueue" THEN TRUE ELSE UNCHANGED vars
    /\ IF name = "Dispatcher" THEN TRUE ELSE UNCHANGED dispVars
    /\ IF name = "Reactor" THEN TRUE ELSE UNCHANGED reactorVars
    /\ IF name = "DirMonitor" THEN TRUE ELSE UNCHANGED dmVars
    /\ IF name = "Logger" THEN TRUE ELSE UNCHANGED logVars

FrameworkNext ==
    \/ In("WaitableQueue") /\ Next
    \/ In("Dispatcher") /\ DispNext
    \/ In("Reactor") /\ ReactorNext
    \/ In("DirMonitor") /\ DirMonitorNext
    \/ In("Logger") /\ LoggerNext

\* The threads of the framework are scheduled: those inside a call of the queue, the
\* monitor's, whose poll returns after two seconds at most, the logger's and exit's.
FrameworkSpec ==
    /\ FrameworkInit /\ [][FrameworkNext]_fwVars
    /\ \A c \in Threads : WF_fwVars(In("WaitableQueue") /\ CallStep(c))
    /\ WF_fwVars(In("DirMonitor") /\ ~dmUndefined /\ (Work \/ MonitorJoined))
    /\ WF_fwVars(In("Logger") /\ ~logUndefined /\ PopFromQueueLog)
    /\ WF_fwVars(In("Logger") /\ ~logUndefined /\ CleansUp)

-----------------------------------------------------------------------------
\* A handler that was removed, replaced or stopped before its batch is not called.
HandlersAreCurrent == [][part = "Reactor" => OldHandlersRest]_fwVars

\* Destructors that join a thread return: the monitor's, and the logger's at exit.
DestructorsReturn ==
    /\ owner_ = "destroys" ~> MonitorIsJoined
    /\ exiting # "runs" ~> ProcessEnded
=============================================================================
