------------------------------- MODULE Watchdog -------------------------------
(***************************************************************************)
(* The watchdog: a client's thread and the process ./wd watch one another. *)
(* Each sends SIGUSR1 every two seconds, counts its own since the last it  *)
(* got, and after more than three kills the other and starts it again.     *)
(* They meet at two named semaphores, at the first start and after each    *)
(* revival.  WatchdogControllerEnd stops both by SIGUSR2.                  *)
(*                                                                         *)
(* InitScheduler misses a parenthesis at this commit and does not compile; *)
(* it is modelled with it.  Each side has a scheduler of its own, in whose *)
(* rounds of two seconds its tasks run once each: a side may be any number *)
(* of rounds behind the other.  A task that is late makes its scheduler    *)
(* sleep for a negative time, which is none or one that only a signal ends.*)
(* A process may be killed at any time.  System calls do not fail.         *)
(***************************************************************************)
EXTENDS Integers, FiniteSets

CONSTANTS
    MAX_MISSED_HEARTBEATS,
    KILLS   \* bound on the processes killed from outside, or replaced in the handshake

\* Three in the code, and no fewer would do for sides that keep pace: one that was told to
\* stop may owe the ping of a round, when the other is a round ahead and has not had the
\* one before either.
ASSUME HeartbeatsAssumption == MAX_MISSED_HEARTBEATS \in Nat /\ MAX_MISSED_HEARTBEATS >= 3

Sides == {"client", "watchdog"}
Other(s) == IF s = "client" THEN "watchdog" ELSE "client"

VARIABLES
    place,         \* where each side is: see Alive; "none", "ended" or "dead"
    posts,         \* the semaphore each side signals, SEM_PROCCESS and SEM_THREAD
    g_heartbeats, g_is_stopped,
    tasks,         \* tasks of the round that are still to run
    ending,        \* the client's main is in WatchdogControllerEnd
    kills,
    unheard,       \* history: rounds each side has begun since the other last signalled it
    ahead,         \* history: rounds the client is ahead by, while they keep pace
    late,          \* history: since they last met, a living one fell two rounds behind
    replaced,      \* history: the last revival was of a living one
    early,         \* history: a process was killed when they did not both run
    mistakes       \* history: what has gone wrong with living processes

paceVars == <<unheard, ahead, late, replaced>>
wdVars == <<place, posts, g_heartbeats, g_is_stopped, tasks, ending, kills, paceVars, early, mistakes>>

WatchdogInit ==
    /\ place = [s \in Sides |-> "none"] /\ posts = [s \in Sides |-> 0]
    /\ g_heartbeats = [s \in Sides |-> 0] /\ g_is_stopped = [s \in Sides |-> FALSE]
    /\ tasks = [s \in Sides |-> {}] /\ ending = FALSE /\ kills = 0
    /\ unheard = [s \in Sides |-> 0] /\ ahead = 0 /\ late = FALSE
    /\ replaced = FALSE /\ early = FALSE /\ mistakes = {}

\* In StartWatching before its sem_post, in its sem_wait, in SchedulerRun, there in a sleep
\* that has no end, in the sem_wait of Revive, after SchedulerRun.
HandlersSet(s) == place[s] \in {"waits", "runs", "oversleeps", "revives", "stops"}
Alive(s) == place[s] = "starts" \/ HandlersSet(s)
BothRun == \A s \in Sides : place[s] \in {"runs", "oversleeps"}

\* SIGUSR1 or SIGUSR2: a process that has not set its handlers dies of it, one that sleeps
\* wakes.
Signalled(f, s, value) == IF HandlersSet(s) THEN [f EXCEPT ![s] = value] ELSE f
Interrupted(s) == [place EXCEPT ![s] = CASE @ = "starts" -> "dead"
                                         [] @ = "oversleeps" -> "runs"
                                         [] OTHER -> @]

\* DequeueAndTimeCheckUntilRun: the next task of s is in time, or late.
NextTask(s, p) == {p, [p EXCEPT ![s] = "oversleeps"]}

-----------------------------------------------------------------------------
WatchdogControllerStart ==
    /\ place["client"] = "none"
    /\ place' = [s \in Sides |-> "starts"]
    /\ UNCHANGED <<posts, g_heartbeats, g_is_stopped, tasks, ending, kills, paceVars, early, mistakes>>

\* StartWatching: handlers, scheduler, semaphores, sem_post.
PostReady(s) ==
    /\ place[s] = "starts"
    /\ place' = [place EXCEPT ![s] = "waits"]
    /\ posts' = [posts EXCEPT ![s] = @ + 1]
    /\ UNCHANGED <<g_heartbeats, g_is_stopped, tasks, ending, kills, paceVars, early, mistakes>>

\* sem_wait in StartWatching and in Revive.
OtherIsReady(s) ==
    /\ place[s] \in {"waits", "revives"} /\ posts[Other(s)] > 0
    /\ place' \in NextTask(s, [place EXCEPT ![s] = "runs"])
    /\ posts' = [posts EXCEPT ![Other(s)] = @ - 1]
    /\ replaced' = FALSE
    /\ UNCHANGED <<g_heartbeats, g_is_stopped, tasks, ending, kills, unheard, ahead, late, early, mistakes>>

-----------------------------------------------------------------------------
(* The scheduler's tasks; the two of a round run in either order.          *)

Lead(s) == IF s = "client" THEN ahead ELSE -ahead

\* A living other is at most a round behind, and then it has ended that one.
KeepsPace(s) == Alive(Other(s)) => Lead(s) <= 0 /\ (Lead(s) = 0 => tasks[Other(s)] = {})

Round(s) ==
    /\ place[s] = "runs" /\ tasks[s] = {} /\ ~g_is_stopped[s]
    /\ tasks' = [tasks EXCEPT ![s] = {"SendSigUsr1", "CheckAndRevive"}]
    /\ unheard' = [unheard EXCEPT ![s] = @ + 1]
    /\ late' = (late \/ ~KeepsPace(s))
    /\ ahead' = IF late' \/ ~Alive(Other(s)) THEN 0 ELSE IF s = "client" THEN ahead + 1 ELSE ahead - 1
    /\ UNCHANGED <<place, posts, g_heartbeats, g_is_stopped, ending, kills, replaced, early, mistakes>>

Runs(s, task) == place[s] = "runs" /\ task \in tasks[s]
Ran(s, task) == [tasks EXCEPT ![s] = @ \ {task}]

SendSigUsr1(s) ==
    /\ Runs(s, "SendSigUsr1") /\ tasks' = Ran(s, "SendSigUsr1")
    /\ IF g_is_stopped[s] THEN place' \in NextTask(s, place) /\ UNCHANGED <<g_heartbeats, unheard, mistakes>>
       ELSE /\ g_heartbeats' = Signalled([g_heartbeats EXCEPT ![s] = @ + 1], Other(s), 0)
            /\ unheard' = Signalled(unheard, Other(s), 0)
            /\ place' \in NextTask(s, Interrupted(Other(s)))
            /\ mistakes' = mistakes \cup (IF place[Other(s)] = "starts" THEN {"killed by a ping"} ELSE {})
    /\ UNCHANGED <<posts, g_is_stopped, ending, kills, ahead, late, replaced, early>>

\* A living process is killed and replaced: one that was heard of lately, one that kept pace.
Mistakes(s) ==
    {mistake \in {"was heard", "kept pace"} :
        /\ Alive(Other(s))
        /\ IF mistake = "was heard" THEN unheard[s] < MAX_MISSED_HEARTBEATS ELSE ~late}

\* SIGTERM ends the other if it lives; in the handshake, where its post stays, that counts as
\* a kill.
KillsToReplace(s) ==
    LET inHandshake == Alive(Other(s)) /\ ~BothRun
    IN  /\ inHandshake => kills < KILLS
        /\ kills' = kills + (IF inHandshake THEN 1 ELSE 0)
        /\ early' = (early \/ inHandshake)

\* Bug: the reviver goes on counting.
Revive_CountKept(s) ==
    /\ place' = [place EXCEPT ![s] = "revives", ![Other(s)] = "starts"]
    /\ tasks' = [Ran(s, "CheckAndRevive") EXCEPT ![Other(s)] = {}]
    /\ g_heartbeats' = [g_heartbeats EXCEPT ![Other(s)] = 0]
    /\ g_is_stopped' = [g_is_stopped EXCEPT ![Other(s)] = FALSE]
    /\ posts' = [posts EXCEPT ![s] = @ + 1]
    /\ ending' = (ending /\ s = "client")
    /\ unheard' = [t \in Sides |-> 0] /\ ahead' = 0 /\ late' = FALSE
    /\ replaced' = Alive(Other(s))
    /\ KillsToReplace(s)
    /\ mistakes' = mistakes \cup Mistakes(s)

\* Bug: it does not say that it is ready again.
Revive_NotPosted(s) ==
    /\ place' = [place EXCEPT ![s] = "revives", ![Other(s)] = "starts"]
    /\ tasks' = [Ran(s, "CheckAndRevive") EXCEPT ![Other(s)] = {}]
    /\ g_heartbeats' = [t \in Sides |-> 0]
    /\ g_is_stopped' = [g_is_stopped EXCEPT ![Other(s)] = FALSE]
    /\ ending' = (ending /\ s = "client")
    /\ unheard' = [t \in Sides |-> 0] /\ ahead' = 0 /\ late' = FALSE
    /\ replaced' = Alive(Other(s))
    /\ KillsToReplace(s)
    /\ mistakes' = mistakes \cup Mistakes(s)
    /\ UNCHANGED posts

\* Revive: SIGTERM, which ends the other if it lives, a new process with its memory fresh,
\* sem_post.
Revive(s) ==
    /\ place' = [place EXCEPT ![s] = "revives", ![Other(s)] = "starts"]
    /\ tasks' = [Ran(s, "CheckAndRevive") EXCEPT ![Other(s)] = {}]
    /\ g_heartbeats' = [t \in Sides |-> 0]
    /\ g_is_stopped' = [g_is_stopped EXCEPT ![Other(s)] = FALSE]
    /\ posts' = [posts EXCEPT ![s] = @ + 1]
    /\ ending' = (ending /\ s = "client")
    /\ unheard' = [t \in Sides |-> 0] /\ ahead' = 0 /\ late' = FALSE
    /\ replaced' = Alive(Other(s))
    /\ KillsToReplace(s)
    /\ mistakes' = mistakes \cup Mistakes(s)

CheckAndRevive(s) ==
    /\ Runs(s, "CheckAndRevive")
    /\ IF ~g_is_stopped[s] /\ g_heartbeats[s] > MAX_MISSED_HEARTBEATS THEN Revive(s)
       ELSE /\ tasks' = Ran(s, "CheckAndRevive") /\ place' \in NextTask(s, place)
            /\ UNCHANGED <<posts, g_heartbeats, g_is_stopped, ending, kills, paceVars, early, mistakes>>

\* Every second: SchedulerStop and SIGUSR2, or nothing but the choice of the next task.
CheckIsStop(s) ==
    /\ place[s] = "runs"
    /\ IF g_is_stopped[s]
       THEN /\ place' = [Interrupted(Other(s)) EXCEPT ![s] = "stops"]
            /\ g_is_stopped' = Signalled(g_is_stopped, Other(s), TRUE)
            /\ tasks' = [tasks EXCEPT ![s] = {}]
       ELSE place' \in NextTask(s, place) /\ UNCHANGED <<g_is_stopped, tasks>>
    /\ UNCHANGED <<posts, g_heartbeats, ending, kills, paceVars, early, mistakes>>

\* SemaCleanUp unlinks the names, which nobody opens again; the thread, or wd, returns.
SemaCleanUp(s) ==
    /\ place[s] = "stops"
    /\ place' = [place EXCEPT ![s] = "ended"]
    /\ UNCHANGED <<posts, g_heartbeats, g_is_stopped, tasks, ending, kills, paceVars, early, mistakes>>

\* The client's main, which then joins the thread.
WatchdogControllerEnd ==
    /\ Alive("client") /\ ~ending
    /\ ending' = TRUE
    /\ g_is_stopped' = [g_is_stopped EXCEPT !["client"] = TRUE]
    /\ UNCHANGED <<place, posts, g_heartbeats, tasks, kills, paceVars, early, mistakes>>

\* A process is killed from outside.
Killed(s) ==
    /\ kills < KILLS /\ Alive(s)
    /\ kills' = kills + 1
    /\ place' = [place EXCEPT ![s] = "dead"]
    /\ tasks' = [tasks EXCEPT ![s] = {}]
    /\ early' = (early \/ ~BothRun)
    /\ ending' = (ending /\ s # "client")
    /\ UNCHANGED <<posts, g_heartbeats, g_is_stopped, paceVars, mistakes>>

WatchdogStep(s) == \/ PostReady(s) \/ OtherIsReady(s) \/ Round(s) \/ SendSigUsr1(s)
                   \/ CheckAndRevive(s) \/ CheckIsStop(s) \/ SemaCleanUp(s)

WatchdogNext == \/ WatchdogControllerStart \/ WatchdogControllerEnd
                \/ \E s \in Sides : WatchdogStep(s) \/ Killed(s)

-----------------------------------------------------------------------------
\* A living process is taken for dead, and killed, only when its watcher has begun at least
\* MAX_MISSED_HEARTBEATS rounds without a signal of it, and never while both have kept pace.
\* And no signal ends a process, unless one was killed in a handshake: the post it leaves
\* behind lets the other ping before handlers are set.
OnlyTheSilentAreRevived ==
    /\ "was heard" \notin mistakes /\ "kept pace" \notin mistakes
    /\ early \/ "killed by a ping" \notin mistakes

BothGone == \A s \in Sides : ~Alive(s)

\* Nothing will end the sleep of one that was late.
SleepsForEver ==
    \E s \in Sides : place[s] = "oversleeps" /\ place[Other(s)] \in {"oversleeps", "dead", "stops", "ended"}

\* A late one that lives is replaced.
IsReplaced == replaced /\ \E s \in Sides : place[s] = "revives"

\* A process that is killed once both run is to be revived, and both stop when they are told,
\* unless one was killed in a handshake, the other of which then waits for a post that never
\* comes, or one was late: a late task put to sleep for ever the one that should see to it,
\* or a late process was replaced, with what it had been told.
WatchIsDue == ending \/ \E s \in Sides : place[s] = "dead"
WatchIsKept == (BothRun /\ ~ending) \/ BothGone \/ early \/ SleepsForEver \/ IsReplaced
=============================================================================
