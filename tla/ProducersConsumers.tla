-------------------------- MODULE ProducersConsumers --------------------------
(***************************************************************************)
(* main of producers_consumers.c: the six exercises, one after the other,  *)
(* each joined before the next starts.  The shared structure of an exercise*)
(* is a local of its function and EX1's globals are used by EX1 alone, so  *)
(* that how an exercise went says nothing to the next: a behaviour here is *)
(* main from the start of any exercise to its end.  EX6 is here; the others*)
(* are SharedList and SharedRing.                                          *)
(***************************************************************************)
EXTENDS SharedList, SharedRing

-----------------------------------------------------------------------------
(***************************************************************************)
(* EX6: one producer publishes messages to every consumer.  Before each    *)
(* message, and before the end mark, it collects one post of               *)
(* consumers_ready from each consumer; a consumer waits on the condition   *)
(* variable until the version changes.                                     *)
(***************************************************************************)

VARIABLES
    message6, version6, done6, ready6,   \* exercise6_shared_t
    producer6,     \* where the producer is
    index6,        \* its index
    posts6,        \* posts it has collected for this index (i)
    consumer6,     \* where each consumer is
    last6,         \* last_version of each consumer
    got6           \* history: the messages each consumer has read

ex6Vars == <<message6, version6, done6, ready6, producer6, index6, posts6, consumer6, last6, got6>>

Ex6Init ==
    /\ message6 = 0 /\ version6 = 0 /\ done6 = FALSE /\ ready6 = 0
    /\ producer6 = "collect" /\ index6 = 0 /\ posts6 = 0
    /\ consumer6 = [c \in Consumers |-> "post"]
    /\ last6 = [c \in Consumers |-> 0]
    /\ got6 = [c \in Consumers |-> <<>>]

-----------------------------------------------------------------------------
Ex6Collect ==
    /\ producer6 = "collect" /\ index6 <= MESSAGE_COUNT /\ posts6 < NUM_CONSUMERS
    /\ ready6 > 0
    /\ ready6' = ready6 - 1
    /\ posts6' = posts6 + 1
    /\ UNCHANGED <<message6, version6, done6, producer6, index6, consumer6, last6, got6>>

Ex6Publish_OneShort ==
    /\ producer6 = "collect" /\ index6 <= MESSAGE_COUNT /\ posts6 >= NUM_CONSUMERS - 1
    /\ IF index6 = MESSAGE_COUNT
       THEN done6' = TRUE /\ UNCHANGED message6
       ELSE message6' = index6 /\ UNCHANGED done6
    /\ version6' = version6 + 1
    /\ producer6' = "broadcast"
    /\ UNCHANGED <<ready6, index6, posts6, consumer6, last6, got6>>

\* Under the mutex: the message, or the end mark, and its version.
Ex6Publish ==
    /\ producer6 = "collect" /\ index6 <= MESSAGE_COUNT /\ posts6 = NUM_CONSUMERS
    /\ IF index6 = MESSAGE_COUNT
       THEN done6' = TRUE /\ UNCHANGED message6
       ELSE message6' = index6 /\ UNCHANGED done6
    /\ version6' = version6 + 1
    /\ producer6' = "broadcast"
    /\ UNCHANGED <<ready6, index6, posts6, consumer6, last6, got6>>

Ex6Broadcast ==
    /\ producer6 = "broadcast"
    /\ consumer6' = [c \in Consumers |-> IF consumer6[c] = "asleep" THEN "look" ELSE consumer6[c]]
    /\ index6' = index6 + 1
    /\ posts6' = 0
    /\ producer6' = "collect"
    /\ UNCHANGED <<message6, version6, done6, ready6, last6, got6>>

-----------------------------------------------------------------------------
Ex6Post(c) ==
    /\ consumer6[c] = "post"
    /\ ready6' = ready6 + 1
    /\ consumer6' = [consumer6 EXCEPT ![c] = "look"]
    /\ UNCHANGED <<message6, version6, done6, producer6, index6, posts6, last6, got6>>

\* pthread_cond_wait releases the mutex as it puts the consumer to sleep ...
Ex6Sleep(c) ==
    /\ consumer6[c] = "look" /\ last6[c] = version6
    /\ consumer6' = [consumer6 EXCEPT ![c] = "asleep"]
    /\ UNCHANGED <<message6, version6, done6, ready6, producer6, index6, posts6, last6, got6>>

\* ... and may return without a broadcast.
Ex6WakeSpuriously(c) ==
    /\ consumer6[c] = "asleep"
    /\ consumer6' = [consumer6 EXCEPT ![c] = "look"]
    /\ UNCHANGED <<message6, version6, done6, ready6, producer6, index6, posts6, last6, got6>>

Ex6Take(c) ==
    /\ consumer6[c] = "look" /\ last6[c] # version6
    /\ IF done6
       THEN /\ consumer6' = [consumer6 EXCEPT ![c] = "returned"]
            /\ UNCHANGED <<last6, got6>>
       ELSE /\ consumer6' = [consumer6 EXCEPT ![c] = "post"]
            /\ last6' = [last6 EXCEPT ![c] = version6]
            /\ got6' = [got6 EXCEPT ![c] = Append(@, message6)]
    /\ UNCHANGED <<message6, version6, done6, ready6, producer6, index6, posts6>>

-----------------------------------------------------------------------------
Ex6Producer == Ex6Collect \/ Ex6Publish \/ Ex6Broadcast
Ex6Consumer(c) == Ex6Post(c) \/ Ex6Sleep(c) \/ Ex6Take(c)

Ex6Next == Ex6Producer \/ \E c \in Consumers : Ex6Consumer(c) \/ Ex6WakeSpuriously(c)

Ex6Spec == Ex6Init /\ [][Ex6Next]_ex6Vars

Ex6Joined == index6 > MESSAGE_COUNT /\ \A c \in Consumers : consumer6[c] = "returned"

\* Every consumer reads every message once and in order: a fast consumer's next post is
\* not taken for a slow one's, so the producer never publishes over an unread message.
Ex6EveryoneGetsEach ==
    \A c \in Consumers :
        /\ InOrder(got6[c])
        /\ consumer6[c] = "returned" => Len(got6[c]) = MESSAGE_COUNT

-----------------------------------------------------------------------------
(* main *)

VARIABLE exercise   \* the exercise main is in, 7 once that has returned

vars == <<exercise, ex1Vars, ex2Vars, ex3Vars, ex4Vars, ex5Vars, ex6Vars>>

Init == /\ exercise \in 1 .. 6
        /\ Ex1Init /\ Ex2Init /\ Ex3Init /\ Ex4Init /\ Ex5Init /\ Ex6Init

EX1 == /\ exercise = 1
       /\ Ex1Producer \/ Ex1Consumer
       /\ UNCHANGED <<exercise, ex2Vars, ex3Vars, ex4Vars, ex5Vars, ex6Vars>>
EX2 == /\ exercise = 2
       /\ \/ \E p \in Producers : Ex2Producer(p)
          \/ \E c \in Consumers : Ex2Consumer(c)
       /\ UNCHANGED <<exercise, ex1Vars, ex3Vars, ex4Vars, ex5Vars, ex6Vars>>
EX3 == /\ exercise = 3
       /\ \/ \E p \in Producers : Ex3Producer(p)
          \/ \E c \in Consumers : Ex3Consumer(c)
          \/ Ex3Main
       /\ UNCHANGED <<exercise, ex1Vars, ex2Vars, ex4Vars, ex5Vars, ex6Vars>>
EX4 == /\ exercise = 4
       /\ \/ \E p \in Producers : Ex4Producer(p)
          \/ \E c \in Consumers : Ex4Consumer(c)
       /\ UNCHANGED <<exercise, ex1Vars, ex2Vars, ex3Vars, ex5Vars, ex6Vars>>
EX5 == /\ exercise = 5
       /\ \/ \E p \in Producers : Ex5Producer(p)
          \/ \E c \in Consumers : Ex5Consumer(c)
       /\ UNCHANGED <<exercise, ex1Vars, ex2Vars, ex3Vars, ex4Vars, ex6Vars>>
EX6 == /\ exercise = 6
       /\ Ex6Next
       /\ UNCHANGED <<exercise, ex1Vars, ex2Vars, ex3Vars, ex4Vars, ex5Vars>>

\* pthread_join of every thread of an exercise: the exercise's function returns.
Joined == /\ exercise = 1 => Ex1Joined
          /\ exercise = 2 => Ex2Joined
          /\ exercise = 3 => Ex3Joined
          /\ exercise = 4 => Ex4Joined
          /\ exercise = 5 => Ex5Joined
          /\ exercise = 6 => Ex6Joined

ActiveEx ==
    /\ exercise < 7 /\ Joined
    /\ exercise' = 7
    /\ UNCHANGED <<ex1Vars, ex2Vars, ex3Vars, ex4Vars, ex5Vars, ex6Vars>>

Terminated == exercise = 7 /\ UNCHANGED vars

Next == EX1 \/ EX2 \/ EX3 \/ EX4 \/ EX5 \/ EX6 \/ ActiveEx \/ Terminated

Spec == Init /\ [][Next]_vars

-----------------------------------------------------------------------------
\* Whatever the threads do first, no message is left behind or taken twice: the lists of
\* EX2 and EX3 are empty when their threads are joined, each pop of EX3 finds an element,
\* EX5 has received every message, and each consumer of EX6 gets each message in order.
MessagesAreConsumed ==
    /\ Ex2LeavesNothing /\ Ex3LeavesNothing /\ Ex3PopsFindAnElement
    /\ Ex5AllReceived /\ Ex6EveryoneGetsEach

\* Threads that hold different mutexes or none share a ring through semaphores alone: the
\* ring of EX4 is read in the order it was written and never overwritten early, and no
\* reader and writer of EX5 are ever at the same slot.
BuffersAreRespected == Ex4RingIsFifo /\ Ex5SlotsApart

\* Every exercise returns: in none do threads wait for one another for ever, and every
\* consumer learns of the end.
ExercisesReturned == exercise = 7
=============================================================================
