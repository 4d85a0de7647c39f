---------------------------- MODULE PingPongPairs ----------------------------
(***************************************************************************)
(* Two processes that take turns: ipc_ping.c and ipc_pong.c by a pair of   *)
(* semaphores, a pipe or a message queue; ping.c with pong.c, terminal_    *)
(* ping.c with terminal_pong.c and signal_ping_pong.c by signals.  In the  *)
(* signal pairs "ping" and "pong" are whoever prints that.  The loops of 4,*)
(* 5, 10 and 50 turns have ROUNDS turns here.  System calls fail when what *)
(* they are about does not exist (yet, or any more) and not otherwise.     *)
(***************************************************************************)
EXTENDS Integers, Sequences

CONSTANT ROUNDS

ASSUME RoundsAssumption == ROUNDS \in Nat

Players == {"ping", "pong"}
Partner(p) == IF p = "ping" THEN "pong" ELSE "ping"

VARIABLES
    pair,        \* how the two talk
    at, left,    \* where each is, and the turns it has left
    said,        \* history: what was printed
    sems, sets,  \* the values of the two semaphores; whether the set exists
    found,       \* the pong process opened what the ping process had made
    pipe, ends,  \* tokens in the pipe; who has its writing end open
    queue,       \* types of the messages in the queue
    handled, blocked, pending, got   \* of each one's signal

pairVars == <<pair, at, left, said, sems, sets, found, pipe, ends, queue,
              handled, blocked, pending, got>>
talkVars == <<sems, sets, found, pipe, ends, queue>>
signalVars == <<handled, blocked, pending, got>>

Signals == {"fork_exec", "terminal", "fork"}

\* ping.c has Init behind it when it forks, and terminal_pong is started by hand with the
\* number that terminal_ping prints after its Init; exec keeps the mask and the pending
\* signals but no handler.  The one who starts sends the first signal.
Starter == "pong"
Follower == "ping"

PairsInit ==
    /\ pair \in {"semaphore", "pipe", "queue"} \cup Signals
    /\ at = [p \in Players |-> IF pair \notin Signals THEN "starts"
                               ELSE IF p = Follower /\ pair = "terminal" THEN "back" ELSE "init"]
    /\ left = [p \in Players |-> ROUNDS]
    /\ said = <<>>
    /\ sems = <<0, 0>> /\ sets = FALSE /\ found = FALSE
    /\ pipe = <<>> /\ ends = Players /\ queue = {}
    /\ handled = [p \in Players |-> pair = "fork" \/ (pair = "terminal" /\ p = Follower)]
    /\ blocked = [p \in Players |-> pair # "terminal" \/ p = Follower]
    /\ pending = [p \in Players |-> FALSE] /\ got = [p \in Players |-> FALSE]

Goes(p, place) == at' = [at EXCEPT ![p] = place]
Says(what) == said' = Append(said, what)

-----------------------------------------------------------------------------
(* Semaphores.                                                             *)

\* semget with IPC_CREAT, and the two SETVAL.
SemaphorePingActive ==
    /\ pair = "semaphore"
    /\ \/ at["ping"] = "starts" /\ sets' = TRUE /\ Goes("ping", "sets") /\ UNCHANGED sems
       \/ at["ping"] = "sets" /\ sems' = [sems EXCEPT ![1] = 1] /\ Goes("ping", "resets")
          /\ UNCHANGED sets
       \/ at["ping"] = "resets" /\ sems' = [sems EXCEPT ![2] = 0] /\ Goes("ping", "waits")
          /\ UNCHANGED sets
       \/ at["ping"] = "waits" /\ left["ping"] = 0 /\ sets' = FALSE /\ Goes("ping", "returned")
          /\ UNCHANGED sems
    /\ UNCHANGED <<pair, left, said, found, pipe, ends, queue, signalVars>>

\* semget without: -1 when there is no set, and every semop fails then.
SemaphorePongActive ==
    /\ pair = "semaphore"
    /\ \/ at["pong"] = "starts" /\ found' = sets /\ Goes("pong", "waits")
       \/ at["pong"] = "waits" /\ left["pong"] = 0 /\ Goes("pong", "returned") /\ UNCHANGED found
    /\ UNCHANGED <<pair, left, said, sems, sets, pipe, ends, queue, signalVars>>

Index(p) == IF p = "ping" THEN 1 ELSE 2
Usable(p) == sets /\ (p = "pong" => found)

\* A wait, the word and a second's sleep: RunPingLoop, RunPongLoop.
WaitTurn(p) ==
    /\ pair = "semaphore" /\ at[p] = "waits" /\ left[p] > 0
    /\ Usable(p) => sems[Index(p)] > 0
    /\ sems' = IF Usable(p) THEN [sems EXCEPT ![Index(p)] = @ - 1] ELSE sems
    /\ Says(p)
    /\ Goes(p, "signals")
    /\ UNCHANGED <<pair, left, sets, found, pipe, ends, queue, signalVars>>

\* Bug: it signals the semaphore it has waited on.
SignalTurn_Own(p) ==
    /\ pair = "semaphore" /\ at[p] = "signals"
    /\ sems' = IF Usable(p) THEN [sems EXCEPT ![Index(p)] = @ + 1] ELSE sems
    /\ left' = [left EXCEPT ![p] = @ - 1]
    /\ Goes(p, "waits")
    /\ UNCHANGED <<pair, said, sets, found, pipe, ends, queue, signalVars>>

SignalTurn(p) ==
    /\ pair = "semaphore" /\ at[p] = "signals"
    /\ sems' = IF Usable(p) THEN [sems EXCEPT ![Index(Partner(p))] = @ + 1] ELSE sems
    /\ left' = [left EXCEPT ![p] = @ - 1]
    /\ Goes(p, "waits")
    /\ UNCHANGED <<pair, said, sets, found, pipe, ends, queue, signalVars>>

-----------------------------------------------------------------------------
(* A pipe from parent to child.  The child's loop is longer than the       *)
(* parent's: it ends at the end of the pipe, once every writing end of it  *)
(* is closed.                                                              *)

\* Bug: the child keeps the writing end it was born with.
PipeChildCloses_Kept ==
    /\ pair = "pipe" /\ at["pong"] = "starts"
    /\ Goes("pong", "reads")
    /\ UNCHANGED <<pair, left, said, talkVars, signalVars>>

PipeChildCloses ==
    /\ pair = "pipe" /\ at["pong"] = "starts"
    /\ ends' = ends \ {"pong"}
    /\ Goes("pong", "reads")
    /\ UNCHANGED <<pair, left, said, sems, sets, found, pipe, queue, signalVars>>

RunParentLoop ==
    /\ pair = "pipe" /\ at["ping"] = "starts"
    /\ IF left["ping"] > 0
       THEN /\ pipe' = Append(pipe, left["ping"])
            /\ left' = [left EXCEPT !["ping"] = @ - 1]
            /\ UNCHANGED <<at, ends>>
       ELSE /\ ends' = ends \ {"ping"}
            /\ Goes("ping", "joins")
            /\ UNCHANGED <<pipe, left>>
    /\ UNCHANGED <<pair, said, sems, sets, found, queue, signalVars>>

RunChildLoop ==
    /\ pair = "pipe" /\ at["pong"] = "reads"
    /\ IF pipe # <<>>
       THEN pipe' = Tail(pipe) /\ Says(Head(pipe)) /\ UNCHANGED at
       ELSE ends = {} /\ Goes("pong", "returned") /\ UNCHANGED <<pipe, said>>
    /\ UNCHANGED <<pair, left, sems, sets, found, ends, queue, signalVars>>

WaitForChild ==
    /\ pair = "pipe" /\ at["ping"] = "joins" /\ at["pong"] = "returned"
    /\ Goes("ping", "returned")
    /\ UNCHANGED <<pair, left, said, talkVars, signalVars>>

-----------------------------------------------------------------------------
(* A message queue: sent by rising type, received by falling type.         *)

MsgQuePing ==
    /\ pair = "queue" /\ at["ping"] \in {"starts", "sends"}
    /\ IF left["ping"] > 0
       THEN /\ queue' = queue \cup {ROUNDS - left["ping"] + 1}
            /\ sets' = TRUE
            /\ left' = [left EXCEPT !["ping"] = @ - 1]
            /\ Goes("ping", "sends")
       ELSE Goes("ping", "returned") /\ UNCHANGED <<queue, sets, left>>
    /\ UNCHANGED <<pair, said, sems, found, pipe, ends, signalVars>>

\* msgget, ActiveMsgQue of each type, and IPC_RMID; a queue that was not found fails them.
MsgQuePong ==
    /\ pair = "queue"
    /\ \/ at["pong"] = "starts" /\ found' = sets /\ Goes("pong", "receives")
          /\ UNCHANGED <<left, said, queue, sets>>
       \/ /\ at["pong"] = "receives" /\ left["pong"] > 0
          /\ found => left["pong"] \in queue
          /\ queue' = IF found THEN queue \ {left["pong"]} ELSE queue
          /\ Says(IF found THEN left["pong"] ELSE 0)
          /\ left' = [left EXCEPT !["pong"] = @ - 1]
          /\ UNCHANGED <<at, found, sets>>
       \/ /\ at["pong"] = "receives" /\ left["pong"] = 0
          /\ Goes("pong", "returned")
          /\ sets' = (sets /\ ~found) /\ queue' = IF found THEN {} ELSE queue
          /\ UNCHANGED <<left, said, found>>
    /\ UNCHANGED <<pair, sems, pipe, ends, signalVars>>

-----------------------------------------------------------------------------
(* Signals: each side blocks the other's, and takes it in sigsuspend only. *)

\* Bug: the signals are not blocked.
InitMask_NotBlocked(p) ==
    /\ pair \in Signals /\ at[p] = "init"
    /\ handled' = [handled EXCEPT ![p] = TRUE]
    /\ blocked' = [blocked EXCEPT ![p] = FALSE]
    /\ Goes(p, IF p = Starter THEN "first" ELSE "back")
    /\ UNCHANGED <<pair, left, said, talkVars, pending, got>>

\* Init: sigaction, and sigprocmask but in pong.c, which has it from its parent.
InitMask(p) ==
    /\ pair \in Signals /\ at[p] = "init"
    /\ handled' = [handled EXCEPT ![p] = TRUE]
    /\ blocked' = [blocked EXCEPT ![p] = TRUE]
    /\ Goes(p, IF p = Starter THEN "first" ELSE "back")
    /\ UNCHANGED <<pair, left, said, talkVars, pending, got>>

FirstKill ==
    /\ pair \in Signals /\ at[Starter] = "first"
    /\ pending' = [pending EXCEPT ![Follower] = TRUE]
    /\ Goes(Starter, "back")
    /\ UNCHANGED <<pair, left, said, talkVars, handled, blocked, got>>

\* Back at the loop's head, on the way into sigsuspend.
Suspend(p) ==
    /\ pair \in Signals /\ at[p] = "back"
    /\ Goes(p, IF left[p] = 0 THEN "returned" ELSE "suspended")
    /\ UNCHANGED <<pair, left, said, talkVars, signalVars>>

\* The default action ends the process; sigsuspend returns after a handler.
Deliver(p) ==
    /\ pending[p] /\ at[p] # "returned" /\ (at[p] = "suspended" \/ ~blocked[p])
    /\ pending' = [pending EXCEPT ![p] = FALSE]
    /\ got' = [got EXCEPT ![p] = handled[p]]
    /\ at' = [at EXCEPT ![p] = IF ~handled[p] THEN "killed" ELSE IF @ = "suspended" THEN "plays" ELSE @]
    /\ UNCHANGED <<pair, left, said, talkVars, handled, blocked>>

\* StartGame, Active: the flag, the word, and the signal back.
Play(p) ==
    /\ pair \in Signals /\ at[p] = "plays"
    /\ got' = [got EXCEPT ![p] = FALSE]
    /\ left' = [left EXCEPT ![p] = @ - 1]
    /\ Says(p)
    /\ pending' = [pending EXCEPT ![Partner(p)] = TRUE]
    /\ Goes(p, "back")
    /\ UNCHANGED <<pair, talkVars, handled, blocked>>

PlayerStep(p) == \/ WaitTurn(p) \/ SignalTurn(p) \/ InitMask(p) \/ Suspend(p) \/ Play(p)
                 \/ Deliver(p)
PingStep == \/ PlayerStep("ping") \/ SemaphorePingActive \/ RunParentLoop \/ WaitForChild
            \/ MsgQuePing
PongStep == \/ PlayerStep("pong") \/ SemaphorePongActive \/ PipeChildCloses \/ RunChildLoop
            \/ MsgQuePong \/ FirstKill

PairsNext == PingStep \/ PongStep

-----------------------------------------------------------------------------
\* The two print in turn: no semaphore is raised twice, no signal is taken for another.
\* (A pong process that is started before its set or queue exists does not wait for it.)
TurnsAreTaken ==
    /\ pair = "semaphore" /\ (found \/ at["pong"] = "starts")
        => \A i \in DOMAIN said : said[i] = IF i % 2 = 1 THEN "ping" ELSE "pong"
    /\ pair \in Signals
        => \A i \in DOMAIN said : said[i] = IF i % 2 = 1 THEN Follower ELSE Starter
    /\ pair = "queue" /\ found => \A i \in DOMAIN said : said[i] = ROUNDS - i + 1

\* Both return, though a signal may arrive before its handler is set or just before
\* sigsuspend, and the child learns of the end of the pipe by its end only.  (A ping whose
\* set of semaphores was not found waits for ever.)
PairsReturned ==
    \/ \A p \in Players : at[p] = "returned"
    \/ pair = "semaphore" /\ at["pong"] # "starts" /\ ~found
=============================================================================
