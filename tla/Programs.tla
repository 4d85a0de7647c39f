------------------------------- MODULE Programs -------------------------------
(***************************************************************************)
(* The programs of many processes and threads beside the bank and the      *)
(* framework: they share nothing, and a behaviour is one of them with the  *)
(* processes, threads and clients it has.                                  *)
(***************************************************************************)
EXTENDS ProducersConsumers, Watchdog, PongServer, PingPongPairs

VARIABLE program   \* the one that is run

programVars == <<program, vars, wdVars, pongVars, pairVars>>

\* What another program would have been started with is one value for all.
ProgramsInit ==
    /\ program \in {"ProducersConsumers", "Watchdog", "PongServer", "PingPongPairs"}
    /\ Init /\ (program # "ProducersConsumers" => exercise = 1)
    /\ WatchdogInit
    /\ PongInit /\ (program # "PongServer" => mode = "udp")
    /\ PairsInit /\ (program # "PingPongPairs" => pair = "pipe")

\* A step of this program: the others are not there.
Alone(name) ==
    /\ UNCHANGED program
    /\ IF name = "ProducersConsumers" THEN TRUE ELSE UNCHANGED vars
    /\ IF name = "Watchdog" THEN TRUE ELSE UNCHANGED wdVars
    /\ IF name = "PongServer" THEN TRUE ELSE UNCHANGED pongVars
    /\ IF name = "PingPongPairs" THEN TRUE ELSE UNCHANGED pairVars

ProgramsNext ==
    \/ program = "ProducersConsumers" /\ Next /\ Alone(program)
    \/ program = "Watchdog" /\ WatchdogNext /\ Alone(program)
    \/ program = "PongServer" /\ PongNext /\ Alone(program)
    \/ program = "PingPongPairs" /\ PairsNext /\ Alone(program)

(***************************************************************************)
(* The processes and threads of each program, numbered: main and the       *)
(* server, then the others.  A behaviour is of one program only, so that   *)
(* fairness to a number is fairness to the process or thread it has there. *)
(***************************************************************************)
Actors == 0 .. NUM_PRODUCERS + NUM_CONSUMERS
TheSides == <<"client", "watchdog">>
TheClients == CHOOSE f \in [1 .. Cardinality(CLIENTS) -> CLIENTS] :
                  \A c \in CLIENTS : \E i \in DOMAIN f : f[i] = c

MainThread == EX1 \/ ActiveEx \/ (EX3 /\ Ex3Main) \/ (EX6 /\ Ex6Producer)
Producer(p) == \/ EX2 /\ Ex2Producer(p)
               \/ EX3 /\ Ex3Producer(p)
               \/ EX4 /\ Ex4Producer(p)
               \/ EX5 /\ Ex5Producer(p)
Consumer(c) == \/ EX2 /\ Ex2Consumer(c)
               \/ EX3 /\ Ex3Consumer(c)
               \/ EX4 /\ Ex4Consumer(c)
               \/ EX5 /\ Ex5Consumer(c)
               \/ EX6 /\ Ex6Consumer(c)

\* What a step of the program that is run may change.
ownVars == CASE program = "ProducersConsumers" -> vars
             [] program = "Watchdog" -> wdVars
             [] program = "PongServer" -> pongVars
             [] program = "PingPongPairs" -> pairVars

Acts(i) ==
    \/ i = 0 /\ program = "ProducersConsumers" /\ MainThread /\ UNCHANGED program
    \/ i - 1 \in Producers /\ program = "ProducersConsumers" /\ Producer(i - 1) /\ UNCHANGED program
    \/ i - 1 - NUM_PRODUCERS \in Consumers /\ program = "ProducersConsumers" /\ Consumer(i - 1 - NUM_PRODUCERS) /\ UNCHANGED program
    \/ i \in DOMAIN TheSides /\ program = "Watchdog" /\ WatchdogStep(TheSides[i]) /\ UNCHANGED program
    \/ i = 0 /\ program = "PongServer" /\ ServerStep /\ UNCHANGED program
    \/ i \in DOMAIN TheClients /\ program = "PongServer" /\ DoTcpRoutine(TheClients[i]) /\ UNCHANGED program
    \/ i - 2 \in DOMAIN TheClients /\ program = "PongServer" /\ ClientStep(TheClients[i - 2]) /\ UNCHANGED program
    \/ i = 1 /\ program = "PingPongPairs" /\ PingStep /\ UNCHANGED program
    \/ i = 2 /\ program = "PingPongPairs" /\ PongStep /\ UNCHANGED program

\* Processes and threads are scheduled, and one whose mutex or semaphore stays free gets it.
\* What is not owed: spurious wakeups, the user's lines, a client's interrupt, a process
\* killed from outside.
ProgramsSpec ==
    /\ ProgramsInit /\ [][ProgramsNext]_programVars
    /\ \A i \in Actors : WF_ownVars(Acts(i))

-----------------------------------------------------------------------------
\* What is under way, and its end.  Pings count for each client on its own.
Due(c) == \/ program = "ProducersConsumers" /\ ~ExercisesReturned
          \/ program = "PingPongPairs" /\ ~PairsReturned
          \/ program = "Watchdog" /\ WatchIsDue
          \/ program = "PongServer" /\ PingIsDue(c)
Done(c) == \/ program = "ProducersConsumers" /\ ExercisesReturned
           \/ program = "PingPongPairs" /\ PairsReturned
           \/ program = "Watchdog" /\ WatchIsKept
           \/ program = "PongServer" /\ PingIsAnswered(c)

(***************************************************************************)
(* No program is stuck: every exercise returns and the pairs end their     *)
(* games; the watchdog revives who was killed and stops when it is told; a *)
(* ping that arrives is answered.                                          *)
(***************************************************************************)
ProgramsReturn == \A c \in CLIENTS : Due(c) ~> Done(c)
=============================================================================
