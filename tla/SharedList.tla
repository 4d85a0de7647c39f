----------------------------- MODULE SharedList -----------------------------
(***************************************************************************)
(* The threads of the exercises of producers_consumers.c, and the first    *)
(* three exercises: EX1 passes messages through one variable, EX2 and EX3  *)
(* through a list.                                                         *)
(***************************************************************************)
EXTENDS Integers, Sequences, FiniteSets

-----------------------------------------------------------------------------
(***************************************************************************)
(* What the exercises of producers_consumers.c share: a number of messages *)
(* (their indices stand for the values 777 + index), producers, consumers. *)
(***************************************************************************)

CONSTANTS MESSAGE_COUNT, NUM_PRODUCERS, NUM_CONSUMERS, QUEUE_CAPACITY

ASSUME CountsAssumption ==
    /\ MESSAGE_COUNT \in Nat /\ QUEUE_CAPACITY \in Nat \ {0}
    /\ NUM_PRODUCERS \in Nat \ {0} /\ NUM_CONSUMERS \in Nat \ {0}

Messages == 0 .. MESSAGE_COUNT - 1
Producers == 0 .. NUM_PRODUCERS - 1
Consumers == 0 .. NUM_CONSUMERS - 1

\* The value no message has: EX3_STOP_VALUE, an unwritten slot.
NoMessage == -1

\* A sequence that holds the first messages in order.
InOrder(s) == \A i \in DOMAIN s : s[i] = i - 1

-----------------------------------------------------------------------------
(***************************************************************************)
(* EX1: one producer and one consumer that spin on g_ex1_has_message with  *)
(* atomic compare-and-swaps and share g_ex1_message.  The consumer clears  *)
(* the flag before it reads, where the pseudo code above it reads first:   *)
(* the producer may overwrite a message that has not been read.            *)
(***************************************************************************)

VARIABLES
    message1,      \* g_ex1_message
    hasMessage1,   \* g_ex1_has_message
    producer1,     \* where the producer is
    index1,        \* its index
    consumer1,     \* where the consumer is
    read1          \* history: the values the consumer has read

ex1Vars == <<message1, hasMessage1, producer1, index1, consumer1, read1>>

Ex1Init ==
    /\ message1 = NoMessage /\ hasMessage1 = 0
    /\ producer1 = "spin" /\ index1 = 0
    /\ consumer1 = "spin" /\ read1 = <<>>

\* The loop's compare-and-swap of 0 by 0 succeeds.
Ex1ProducerSpin ==
    /\ producer1 = "spin" /\ index1 < MESSAGE_COUNT /\ hasMessage1 = 0
    /\ producer1' = "write"
    /\ UNCHANGED <<message1, hasMessage1, index1, consumer1, read1>>

Ex1Write ==
    /\ producer1 = "write"
    /\ message1' = index1
    /\ producer1' = "flag"
    /\ UNCHANGED <<hasMessage1, index1, consumer1, read1>>

Ex1Flag ==
    /\ producer1 = "flag"
    /\ hasMessage1' = hasMessage1 + 1
    /\ index1' = index1 + 1
    /\ producer1' = "spin"
    /\ UNCHANGED <<message1, consumer1, read1>>

\* The compare-and-swap of 1 by 0 succeeds: has_message is cleared before the read.
Ex1ConsumerSpin ==
    /\ consumer1 = "spin" /\ Len(read1) < MESSAGE_COUNT /\ hasMessage1 = 1
    /\ hasMessage1' = 0
    /\ consumer1' = "read"
    /\ UNCHANGED <<message1, producer1, index1, read1>>

Ex1Read ==
    /\ consumer1 = "read"
    /\ read1' = Append(read1, message1)
    /\ consumer1' = "spin"
    /\ UNCHANGED <<message1, hasMessage1, producer1, index1>>

Ex1Producer == Ex1ProducerSpin \/ Ex1Write \/ Ex1Flag
Ex1Consumer == Ex1ConsumerSpin \/ Ex1Read

\* Both threads are joined.
Ex1Joined == index1 = MESSAGE_COUNT /\ producer1 = "spin" /\ Len(read1) = MESSAGE_COUNT

-----------------------------------------------------------------------------
(***************************************************************************)
(* EX2 and EX3: producers and consumers of an unbounded list under one     *)
(* mutex.  The consumers of EX2 poll it until every producer is done; those*)
(* of EX3 wait on a semaphore that counts the list's elements, and main    *)
(* ends them with one stop value each.  A stretch under the mutex is a     *)
(* step.                                                                   *)
(***************************************************************************)

VARIABLES
    list2, produced2, producersDone2,  \* exercise2_shared_t
    producer2, consumer2,              \* where each thread is
    value2,                            \* the message a producer is to push
    consumed2                          \* history: messages the consumers acted on

ex2Vars == <<list2, produced2, producersDone2, producer2, consumer2, value2, consumed2>>

Ex2Init ==
    /\ list2 = <<>> /\ produced2 = 0 /\ producersDone2 = 0
    /\ producer2 = [p \in Producers |-> "claim"]
    /\ consumer2 = [c \in Consumers |-> "look"]
    /\ value2 = [p \in Producers |-> NoMessage]
    /\ consumed2 = {}

Ex2Claim(p) ==
    /\ producer2[p] = "claim" /\ produced2 < MESSAGE_COUNT
    /\ value2' = [value2 EXCEPT ![p] = produced2]
    /\ produced2' = produced2 + 1
    /\ producer2' = [producer2 EXCEPT ![p] = "push"]
    /\ UNCHANGED <<list2, producersDone2, consumer2, consumed2>>

Ex2ProducerReturn_First(p) ==
    /\ producer2[p] = "claim" /\ produced2 >= MESSAGE_COUNT
    /\ producersDone2' = NUM_PRODUCERS
    /\ producer2' = [producer2 EXCEPT ![p] = "returned"]
    /\ UNCHANGED <<list2, produced2, consumer2, value2, consumed2>>

Ex2ProducerReturn(p) ==
    /\ producer2[p] = "claim" /\ produced2 >= MESSAGE_COUNT
    /\ producersDone2' = producersDone2 + 1
    /\ producer2' = [producer2 EXCEPT ![p] = "returned"]
    /\ UNCHANGED <<list2, produced2, consumer2, value2, consumed2>>

Ex2Push(p) ==
    /\ producer2[p] = "push"
    /\ list2' = Append(list2, value2[p])
    /\ producer2' = [producer2 EXCEPT ![p] = "claim"]
    /\ UNCHANGED <<produced2, producersDone2, consumer2, value2, consumed2>>

Ex2Pop(c) ==
    /\ consumer2[c] = "look" /\ list2 # <<>>
    /\ consumed2' = consumed2 \cup {Head(list2)}
    /\ list2' = Tail(list2)
    /\ UNCHANGED <<produced2, producersDone2, producer2, consumer2, value2>>

\* An empty list with producers at work changes nothing: the consumer yields and looks again.
Ex2ConsumerReturn(c) ==
    /\ consumer2[c] = "look" /\ list2 = <<>> /\ NUM_PRODUCERS <= producersDone2
    /\ consumer2' = [consumer2 EXCEPT ![c] = "returned"]
    /\ UNCHANGED <<list2, produced2, producersDone2, producer2, value2, consumed2>>

Ex2Producer(p) == Ex2Claim(p) \/ Ex2ProducerReturn(p) \/ Ex2Push(p)
Ex2Consumer(c) == Ex2Pop(c) \/ Ex2ConsumerReturn(c)

Ex2Joined == (\A p \in Producers : producer2[p] = "returned")
             /\ \A c \in Consumers : consumer2[c] = "returned"

\* A consumer that leaves has not left a message behind: not in the list, and not in
\* the hands of a producer that has claimed but not pushed it.
Ex2LeavesNothing ==
    (\E c \in Consumers : consumer2[c] = "returned") => consumed2 = Messages

-----------------------------------------------------------------------------
VARIABLES
    list3, sem3, produced3,            \* exercise3_shared_t
    producer3, consumer3,              \* where each thread is
    value3,                            \* the message a producer is to push
    main3,                             \* where main is in its loop of stop values
    stops3,                            \* stop values main has pushed
    consumed3                          \* history: messages the consumers acted on

ex3Vars == <<list3, sem3, produced3, producer3, consumer3, value3, main3, stops3, consumed3>>

Ex3Init ==
    /\ list3 = <<>> /\ sem3 = 0 /\ produced3 = 0
    /\ producer3 = [p \in Producers |-> "claim"]
    /\ consumer3 = [c \in Consumers |-> "wait"]
    /\ value3 = [p \in Producers |-> NoMessage]
    /\ main3 = "join" /\ stops3 = 0
    /\ consumed3 = {}

Ex3Claim(p) ==
    /\ producer3[p] = "claim"
    /\ IF produced3 < MESSAGE_COUNT
       THEN /\ value3' = [value3 EXCEPT ![p] = produced3]
            /\ produced3' = produced3 + 1
            /\ producer3' = [producer3 EXCEPT ![p] = "push"]
       ELSE /\ producer3' = [producer3 EXCEPT ![p] = "returned"]
            /\ UNCHANGED <<value3, produced3>>
    /\ UNCHANGED <<list3, sem3, consumer3, main3, stops3, consumed3>>

Ex3Push(p) ==
    /\ producer3[p] = "push"
    /\ list3' = Append(list3, value3[p])
    /\ producer3' = [producer3 EXCEPT ![p] = "post"]
    /\ UNCHANGED <<sem3, produced3, consumer3, value3, main3, stops3, consumed3>>

Ex3Post(p) ==
    /\ producer3[p] = "post"
    /\ sem3' = sem3 + 1
    /\ producer3' = [producer3 EXCEPT ![p] = "claim"]
    /\ UNCHANGED <<list3, produced3, consumer3, value3, main3, stops3, consumed3>>

Ex3Wait_Forgotten(c) ==
    /\ consumer3[c] = "wait"
    /\ consumer3' = [consumer3 EXCEPT ![c] = "pop"]
    /\ UNCHANGED <<list3, sem3, produced3, producer3, value3, main3, stops3, consumed3>>

Ex3Wait(c) ==
    /\ consumer3[c] = "wait" /\ sem3 > 0
    /\ sem3' = sem3 - 1
    /\ consumer3' = [consumer3 EXCEPT ![c] = "pop"]
    /\ UNCHANGED <<list3, produced3, producer3, value3, main3, stops3, consumed3>>

Ex3Pop(c) ==
    /\ consumer3[c] = "pop" /\ list3 # <<>>
    /\ list3' = Tail(list3)
    /\ IF Head(list3) = NoMessage
       THEN /\ consumer3' = [consumer3 EXCEPT ![c] = "returned"]
            /\ UNCHANGED consumed3
       ELSE /\ consumer3' = [consumer3 EXCEPT ![c] = "wait"]
            /\ consumed3' = consumed3 \cup {Head(list3)}
    /\ UNCHANGED <<sem3, produced3, producer3, value3, main3, stops3>>

Ex3MainStop_NotJoined ==
    /\ main3 = "join"
    /\ stops3 < NUM_CONSUMERS
    /\ list3' = Append(list3, NoMessage)
    /\ stops3' = stops3 + 1
    /\ main3' = "post"
    /\ UNCHANGED <<sem3, produced3, producer3, consumer3, value3, consumed3>>

\* main, once the producers are joined: a stop value for each consumer, ...
Ex3MainStop ==
    /\ main3 = "join" /\ \A p \in Producers : producer3[p] = "returned"
    /\ stops3 < NUM_CONSUMERS
    /\ list3' = Append(list3, NoMessage)
    /\ stops3' = stops3 + 1
    /\ main3' = "post"
    /\ UNCHANGED <<sem3, produced3, producer3, consumer3, value3, consumed3>>

\* ... each with its sem_post.
Ex3MainPost ==
    /\ main3 = "post"
    /\ sem3' = sem3 + 1
    /\ main3' = "join"
    /\ UNCHANGED <<list3, produced3, producer3, consumer3, value3, stops3, consumed3>>

Ex3Producer(p) == Ex3Claim(p) \/ Ex3Push(p) \/ Ex3Post(p)
Ex3Consumer(c) == Ex3Wait(c) \/ Ex3Pop(c)
Ex3Main == Ex3MainStop \/ Ex3MainPost

Ex3Joined == /\ stops3 = NUM_CONSUMERS /\ main3 = "join"
             /\ \A c \in Consumers : consumer3[c] = "returned"

\* The stop values end the consumers after the last message, and each consumer once:
\* when the consumers are joined no message is unread and no stop value left over.
Ex3LeavesNothing == Ex3Joined => consumed3 = Messages /\ list3 = <<>> /\ sem3 = 0

\* DListPopFront is never called on an empty list: each element is there before the
\* semaphore admits a consumer to it.
Ex3PopsFindAnElement ==
    sem3 + Cardinality({c \in Consumers : consumer3[c] = "pop"}) <= Len(list3)
=============================================================================
