----------------------------- MODULE SharedRing -----------------------------
(***************************************************************************)
(* EX4 and EX5 of producers_consumers.c: messages go through a ring of     *)
(* slots that semaphores count.                                            *)
(***************************************************************************)
EXTENDS SharedList

-----------------------------------------------------------------------------
(***************************************************************************)
(* EX4: a ring of QUEUE_CAPACITY slots under one mutex, semaphores for its *)
(* empty and its full slots, and a chain of sem_posts that ends the        *)
(* consumers: the one that takes the last message posts full_slots once    *)
(* more, and each consumer that finds nothing left passes the post on.     *)
(***************************************************************************)

VARIABLES
    queue4, head4, tail4, produced4, consumed4, empty4, full4,  \* exercise4_shared_t
    producer4, consumer4,     \* where each thread is
    value4,                   \* the message a producer is to store
    stored4, taken4           \* history: messages in the order of their store, and read

ex4Vars == <<queue4, head4, tail4, produced4, consumed4, empty4, full4,
             producer4, consumer4, value4, stored4, taken4>>

Ex4Init ==
    /\ queue4 = [i \in 0 .. QUEUE_CAPACITY - 1 |-> NoMessage]
    /\ head4 = 0 /\ tail4 = 0 /\ produced4 = 0 /\ consumed4 = 0
    /\ empty4 = QUEUE_CAPACITY /\ full4 = 0
    /\ producer4 = [p \in Producers |-> "claim"]
    /\ consumer4 = [c \in Consumers |-> "wait"]
    /\ value4 = [p \in Producers |-> NoMessage]
    /\ stored4 = <<>> /\ taken4 = <<>>

Ex4Claim(p) ==
    /\ producer4[p] = "claim"
    /\ IF produced4 < MESSAGE_COUNT
       THEN /\ value4' = [value4 EXCEPT ![p] = produced4]
            /\ produced4' = produced4 + 1
            /\ producer4' = [producer4 EXCEPT ![p] = "wait"]
       ELSE /\ producer4' = [producer4 EXCEPT ![p] = "returned"]
            /\ UNCHANGED <<value4, produced4>>
    /\ UNCHANGED <<queue4, head4, tail4, consumed4, empty4, full4, consumer4, stored4, taken4>>

Ex4WaitEmpty_Forgotten(p) ==
    /\ producer4[p] = "wait"
    /\ producer4' = [producer4 EXCEPT ![p] = "store"]
    /\ UNCHANGED <<queue4, head4, tail4, produced4, consumed4, empty4, full4, consumer4,
                   value4, stored4, taken4>>

Ex4WaitEmpty(p) ==
    /\ producer4[p] = "wait" /\ empty4 > 0
    /\ empty4' = empty4 - 1
    /\ producer4' = [producer4 EXCEPT ![p] = "store"]
    /\ UNCHANGED <<queue4, head4, tail4, produced4, consumed4, full4, consumer4, value4,
                   stored4, taken4>>

Ex4Store(p) ==
    /\ producer4[p] = "store"
    /\ queue4' = [queue4 EXCEPT ![tail4] = value4[p]]
    /\ tail4' = (tail4 + 1) % QUEUE_CAPACITY
    /\ stored4' = Append(stored4, value4[p])
    /\ producer4' = [producer4 EXCEPT ![p] = "post"]
    /\ UNCHANGED <<head4, produced4, consumed4, empty4, full4, consumer4, value4, taken4>>

Ex4PostFull(p) ==
    /\ producer4[p] = "post"
    /\ full4' = full4 + 1
    /\ producer4' = [producer4 EXCEPT ![p] = "claim"]
    /\ UNCHANGED <<queue4, head4, tail4, produced4, consumed4, empty4, consumer4, value4,
                   stored4, taken4>>

Ex4WaitFull(c) ==
    /\ consumer4[c] = "wait" /\ full4 > 0
    /\ full4' = full4 - 1
    /\ consumer4' = [consumer4 EXCEPT ![c] = "take"]
    /\ UNCHANGED <<queue4, head4, tail4, produced4, consumed4, empty4, producer4, value4,
                   stored4, taken4>>

\* Under the mutex: nothing is left, or the slot at head is read.
Ex4Take(c) ==
    /\ consumer4[c] = "take"
    /\ IF consumed4 >= MESSAGE_COUNT
       THEN /\ consumer4' = [consumer4 EXCEPT ![c] = "chain"]
            /\ UNCHANGED <<head4, consumed4, taken4>>
       ELSE /\ taken4' = Append(taken4, queue4[head4])
            /\ head4' = (head4 + 1) % QUEUE_CAPACITY
            /\ consumed4' = consumed4 + 1
            /\ consumer4' = [consumer4 EXCEPT ![c] =
                                 IF consumed4 + 1 >= MESSAGE_COUNT THEN "release_last" ELSE "release"]
    /\ UNCHANGED <<queue4, tail4, produced4, empty4, full4, producer4, value4, stored4>>

Ex4PostEmpty(c) ==
    /\ consumer4[c] \in {"release", "release_last"}
    /\ empty4' = empty4 + 1
    /\ consumer4' = [consumer4 EXCEPT ![c] = IF @ = "release" THEN "wait" ELSE "chain"]
    /\ UNCHANGED <<queue4, head4, tail4, produced4, consumed4, full4, producer4, value4,
                   stored4, taken4>>

Ex4Chain_LastOnly(c) ==
    /\ consumer4[c] = "chain"
    /\ full4' = IF \A d \in Consumers \ {c} : consumer4[d] # "returned" THEN full4 + 1 ELSE full4
    /\ consumer4' = [consumer4 EXCEPT ![c] = "returned"]
    /\ UNCHANGED <<queue4, head4, tail4, produced4, consumed4, empty4, producer4, value4,
                   stored4, taken4>>

\* The post that lets the next consumer find out.
Ex4Chain(c) ==
    /\ consumer4[c] = "chain"
    /\ full4' = full4 + 1
    /\ consumer4' = [consumer4 EXCEPT ![c] = "returned"]
    /\ UNCHANGED <<queue4, head4, tail4, produced4, consumed4, empty4, producer4, value4,
                   stored4, taken4>>

Ex4Producer(p) == Ex4Claim(p) \/ Ex4WaitEmpty(p) \/ Ex4Store(p) \/ Ex4PostFull(p)
Ex4Consumer(c) == Ex4WaitFull(c) \/ Ex4Take(c) \/ Ex4PostEmpty(c) \/ Ex4Chain(c)

Ex4Joined == (\A p \in Producers : producer4[p] = "returned")
             /\ \A c \in Consumers : consumer4[c] = "returned"

\* Messages are taken in the order they were stored: no slot is written before it has
\* been read, nor read before it has been written, although a semaphore's wait and the
\* slot's use are apart.
Ex4RingIsFifo == Len(taken4) <= Len(stored4) /\ taken4 = SubSeq(stored4, 1, Len(taken4))

-----------------------------------------------------------------------------
(***************************************************************************)
(* EX5: the finite synchronised queue.  Semaphores count its empty and its *)
(* full slots; writers exclude writers and readers readers, but a reader   *)
(* and a writer use the buffer at the same time.  Its threads each have a  *)
(* share of the messages, so that producers and consumers end by count.    *)
(***************************************************************************)

VARIABLES
    buffer5, readIndex5, writeIndex5, empty5, full5,   \* fsq_t
    readMutex5, writeMutex5,  \* the thread that owns each mutex, or NoMessage
    producer5, consumer5,     \* where each thread is
    sent5, received5,         \* what each thread has enqueued, dequeued
    value5                    \* the value a consumer has read

ex5Vars == <<buffer5, readIndex5, writeIndex5, empty5, full5, readMutex5, writeMutex5,
             producer5, consumer5, sent5, received5, value5>>

Slots == 0 .. QUEUE_CAPACITY - 1

\* my_count: MESSAGE_COUNT \div n, and one more for the first threads.
Share(i, n) == MESSAGE_COUNT \div n + (IF i < MESSAGE_COUNT % n THEN 1 ELSE 0)

\* my_start: the shares of the producers before p.
Start(p) == p * (MESSAGE_COUNT \div NUM_PRODUCERS)
            + (IF p < MESSAGE_COUNT % NUM_PRODUCERS THEN p ELSE MESSAGE_COUNT % NUM_PRODUCERS)

Ex5Init ==
    /\ buffer5 = [s \in Slots |-> NoMessage]
    /\ readIndex5 = 0 /\ writeIndex5 = 0
    /\ empty5 = QUEUE_CAPACITY /\ full5 = 0
    /\ readMutex5 = NoMessage /\ writeMutex5 = NoMessage
    /\ producer5 = [p \in Producers |-> "next"]
    /\ consumer5 = [c \in Consumers |-> "next"]
    /\ sent5 = [p \in Producers |-> 0] /\ received5 = [c \in Consumers |-> <<>>]
    /\ value5 = [c \in Consumers |-> NoMessage]

-----------------------------------------------------------------------------
(* FSQEnqueue.                                                             *)

ProducerGoes(p, place) == producer5' = [producer5 EXCEPT ![p] = place]

Ex5WaitEmpty(p) ==
    /\ producer5[p] = "next" /\ sent5[p] < Share(p, NUM_PRODUCERS) /\ empty5 > 0
    /\ empty5' = empty5 - 1
    /\ ProducerGoes(p, "lock")
    /\ UNCHANGED <<buffer5, readIndex5, writeIndex5, full5, readMutex5, writeMutex5, consumer5,
                   sent5, received5, value5>>

Ex5LockWrite(p) ==
    /\ producer5[p] = "lock" /\ writeMutex5 = NoMessage
    /\ writeMutex5' = p
    /\ ProducerGoes(p, "write")
    /\ UNCHANGED <<buffer5, readIndex5, writeIndex5, empty5, full5, readMutex5, consumer5, sent5,
                   received5, value5>>

Ex5Write(p) ==
    /\ producer5[p] = "write"
    /\ buffer5' = [buffer5 EXCEPT ![writeIndex5] = Start(p) + sent5[p]]
    /\ ProducerGoes(p, "advance")
    /\ UNCHANGED <<readIndex5, writeIndex5, empty5, full5, readMutex5, writeMutex5, consumer5,
                   sent5, received5, value5>>

Ex5AdvanceWrite(p) ==
    /\ producer5[p] = "advance"
    /\ writeIndex5' = (writeIndex5 + 1) % QUEUE_CAPACITY
    /\ writeMutex5' = NoMessage
    /\ ProducerGoes(p, "post")
    /\ UNCHANGED <<buffer5, readIndex5, empty5, full5, readMutex5, consumer5, sent5, received5,
                   value5>>

Ex5PostFull(p) ==
    /\ producer5[p] = "post"
    /\ full5' = full5 + 1
    /\ sent5' = [sent5 EXCEPT ![p] = @ + 1]
    /\ ProducerGoes(p, "next")
    /\ UNCHANGED <<buffer5, readIndex5, writeIndex5, empty5, readMutex5, writeMutex5, consumer5,
                   received5, value5>>

-----------------------------------------------------------------------------
(* FSQDequeue.                                                             *)

ConsumerGoes(c, place) == consumer5' = [consumer5 EXCEPT ![c] = place]

Ex5WaitFull(c) ==
    /\ consumer5[c] = "next" /\ Len(received5[c]) < Share(c, NUM_CONSUMERS) /\ full5 > 0
    /\ full5' = full5 - 1
    /\ ConsumerGoes(c, "lock")
    /\ UNCHANGED <<buffer5, readIndex5, writeIndex5, empty5, readMutex5, writeMutex5, producer5,
                   sent5, received5, value5>>

Ex5LockRead_Forgotten(c) ==
    /\ consumer5[c] = "lock"
    /\ ConsumerGoes(c, "read")
    /\ UNCHANGED <<buffer5, readIndex5, writeIndex5, empty5, full5, readMutex5, writeMutex5,
                   producer5, sent5, received5, value5>>

Ex5LockRead(c) ==
    /\ consumer5[c] = "lock" /\ readMutex5 = NoMessage
    /\ readMutex5' = c
    /\ ConsumerGoes(c, "read")
    /\ UNCHANGED <<buffer5, readIndex5, writeIndex5, empty5, full5, writeMutex5, producer5, sent5,
                   received5, value5>>

Ex5Read_PostsFirst(c) ==
    /\ consumer5[c] = "read"
    /\ value5' = [value5 EXCEPT ![c] = buffer5[readIndex5]]
    /\ empty5' = empty5 + 1
    /\ ConsumerGoes(c, "advance")
    /\ UNCHANGED <<buffer5, readIndex5, writeIndex5, full5, readMutex5, writeMutex5,
                   producer5, sent5, received5>>

Ex5Read(c) ==
    /\ consumer5[c] = "read"
    /\ value5' = [value5 EXCEPT ![c] = buffer5[readIndex5]]
    /\ ConsumerGoes(c, "advance")
    /\ UNCHANGED <<buffer5, readIndex5, writeIndex5, empty5, full5, readMutex5, writeMutex5,
                   producer5, sent5, received5>>

Ex5AdvanceRead(c) ==
    /\ consumer5[c] = "advance"
    /\ readIndex5' = (readIndex5 + 1) % QUEUE_CAPACITY
    /\ readMutex5' = NoMessage
    /\ ConsumerGoes(c, "post")
    /\ UNCHANGED <<buffer5, writeIndex5, empty5, full5, writeMutex5, producer5, sent5, received5,
                   value5>>

Ex5PostEmpty(c) ==
    /\ consumer5[c] = "post"
    /\ empty5' = empty5 + 1
    /\ received5' = [received5 EXCEPT ![c] = Append(@, value5[c])]
    /\ ConsumerGoes(c, "next")
    /\ UNCHANGED <<buffer5, readIndex5, writeIndex5, full5, readMutex5, writeMutex5, producer5,
                   sent5, value5>>

-----------------------------------------------------------------------------
Ex5Producer(p) == \/ Ex5WaitEmpty(p) \/ Ex5LockWrite(p) \/ Ex5Write(p)
                  \/ Ex5AdvanceWrite(p) \/ Ex5PostFull(p)
Ex5Consumer(c) == \/ Ex5WaitFull(c) \/ Ex5LockRead(c) \/ Ex5Read(c)
                  \/ Ex5AdvanceRead(c) \/ Ex5PostEmpty(c)

Ex5Joined ==
    /\ \A p \in Producers : producer5[p] = "next" /\ sent5[p] = Share(p, NUM_PRODUCERS)
    /\ \A c \in Consumers : consumer5[c] = "next" /\ Len(received5[c]) = Share(c, NUM_CONSUMERS)

\* A reader and a writer never use the same slot, although no mutex keeps them apart:
\* the semaphores do.
Ex5SlotsApart ==
    \A p \in Producers, c \in Consumers :
        producer5[p] \in {"write", "advance"} /\ consumer5[c] \in {"read", "advance"}
            => writeIndex5 # readIndex5

\* Elements written and not read: slots that are neither empty nor claimed by a producer
\* that is still to write, nor read by a consumer that is still to post.
Stored ==
    QUEUE_CAPACITY - empty5
        - Cardinality({p \in Producers : producer5[p] \in {"lock", "write", "advance"}})
        - Cardinality({c \in Consumers : consumer5[c] = "post"})

Queue == INSTANCE BoundedQueue WITH
    Elements <- Messages, Capacity <- QUEUE_CAPACITY, Readers <- Consumers,
    elements <- [i \in 1 .. Stored |-> buffer5[(readIndex5 + i - 1) % QUEUE_CAPACITY]],
    returned <- [c \in Consumers |-> IF consumer5[c] = "post" THEN Append(received5[c], value5[c])
                                                             ELSE received5[c]]

\* FSQEnqueue and FSQDequeue implement a first-in first-out queue of QUEUE_CAPACITY
\* elements: they take effect when they advance their index, and what FSQDequeue returns
\* is then the oldest element.
Ex5ImplementsQueue == Queue!Spec

\* What the threads have enqueued is dequeued once: nothing is lost or read twice.
Ex5AllReceived ==
    Ex5Joined => Messages = UNION {{received5[c][i] : i \in DOMAIN received5[c]} : c \in Consumers}
=============================================================================
