------------------------ MODULE ProducersConsumersProofs ------------------------
(***************************************************************************)
(* What is proved of the exercises of producers_consumers.c, for any       *)
(* numbers of messages, producers and consumers and any ring.  Each        *)
(* exercise has an inductive invariant of its own: a semaphore and the     *)
(* threads between its wait and its post always add up to what is in the   *)
(* list or the ring, and each message that was claimed is somewhere.       *)
(***************************************************************************)
EXTENDS ProducersConsumers, FiniteSetTheorems, WellFoundedInduction, TLAPS

-----------------------------------------------------------------------------
(* Threads at some places of their routine, counted.                       *)

Num(f, places) == Cardinality({i \in DOMAIN f : f[i] \in places})

LEMMA ThreadsAreFinite ==
    /\ IsFiniteSet(Producers) /\ Cardinality(Producers) = NUM_PRODUCERS
    /\ IsFiniteSet(Consumers) /\ Cardinality(Consumers) = NUM_CONSUMERS
    /\ NoMessage \notin Producers /\ NoMessage \notin Consumers
<1>1. /\ 0 \in Int /\ NUM_PRODUCERS - 1 \in Int /\ NUM_CONSUMERS - 1 \in Int
      /\ NUM_PRODUCERS - 1 - 0 + 1 = NUM_PRODUCERS /\ NUM_CONSUMERS - 1 - 0 + 1 = NUM_CONSUMERS
      /\ 0 <= NUM_PRODUCERS - 1 /\ 0 <= NUM_CONSUMERS - 1
      BY CountsAssumption
<1>2. \A a, b \in Int : IsFiniteSet(a .. b) /\ (a <= b => Cardinality(a .. b) = b - a + 1)
      BY FS_Interval
<1>3. NoMessage \notin Producers /\ NoMessage \notin Consumers
      BY <1>1 DEF NoMessage, Producers, Consumers
<1> QED  BY <1>1, <1>2, <1>3 DEF Producers, Consumers

LEMMA NumBounds ==
    ASSUME NEW S, IsFiniteSet(S), NEW f, DOMAIN f = S, NEW places
    PROVE  /\ Num(f, places) \in Nat /\ Num(f, places) <= Cardinality(S)
           /\ \A i \in S : f[i] \in places => Num(f, places) >= 1
           /\ (\A i \in S : f[i] \notin places) => Num(f, places) = 0
           /\ (\A i \in S : f[i] \in places) => Num(f, places) = Cardinality(S)
           /\ Num(f, places) = Cardinality(S) => \A i \in S : f[i] \in places
<1> DEFINE At == {i \in S : f[i] \in places}
<1>1. Num(f, places) = Cardinality(At)  BY DEF Num
<1>2. /\ IsFiniteSet(At) /\ Cardinality(At) <= Cardinality(S)
      /\ (Cardinality(At) = Cardinality(S) => At = S)
      BY FS_Subset, At \subseteq S
<1>3. Cardinality(At) \in Nat /\ Cardinality(S) \in Nat  BY <1>2, FS_CardinalityType
<1>4. Cardinality(At) = 0 <=> At = {}  BY <1>2, FS_EmptySet
<1>5. ASSUME NEW i \in S, f[i] \in places  PROVE Num(f, places) >= 1
      BY <1>1, <1>3, <1>4, <1>5
<1>6. (\A i \in S : f[i] \notin places) => At = {}  OBVIOUS
<1>7. (\A i \in S : f[i] \in places) => At = S  OBVIOUS
<1>8. At = S => \A i \in S : f[i] \in places  OBVIOUS
<1> QED  BY <1>1, <1>2, <1>3, <1>4, <1>5, <1>6, <1>7, <1>8

\* One thread goes to another place.
Moved(f, g, i, S) == DOMAIN f = S /\ DOMAIN g = S /\ \A j \in S \ {i} : g[j] = f[j]

LEMMA Moves ==
    ASSUME NEW S, IsFiniteSet(S), NEW f, NEW g, NEW i \in S, Moved(f, g, i, S), NEW places
    PROVE  /\ f[i] \notin places /\ g[i] \in places => Num(g, places) = Num(f, places) + 1
           /\ f[i] \in places /\ g[i] \notin places => Num(g, places) = Num(f, places) - 1
           /\ (f[i] \in places <=> g[i] \in places) => Num(g, places) = Num(f, places)
<1> DEFINE At == {j \in S : f[j] \in places}
           AtNow == {j \in S : g[j] \in places}
<1>1. Num(f, places) = Cardinality(At) /\ Num(g, places) = Cardinality(AtNow)  BY DEF Num, Moved
<1>2. IsFiniteSet(At)  BY FS_Subset, At \subseteq S
<1>3. Cardinality(At) \in Nat  BY <1>2, FS_CardinalityType
<1>4. /\ Cardinality(At \cup {i}) = IF i \in At THEN Cardinality(At) ELSE Cardinality(At) + 1
      /\ Cardinality(At \ {i}) = IF i \in At THEN Cardinality(At) - 1 ELSE Cardinality(At)
      BY <1>2, FS_AddElement, FS_RemoveElement
<1>5. f[i] \notin places /\ g[i] \in places => AtNow = At \cup {i} /\ i \notin At  BY DEF Moved
<1>6. f[i] \in places /\ g[i] \notin places => AtNow = At \ {i} /\ i \in At  BY DEF Moved
<1>7. (f[i] \in places <=> g[i] \in places) => AtNow = At  BY DEF Moved
<1> HIDE DEF At, AtNow
<1> QED  BY <1>1, <1>3, <1>4, <1>5, <1>6, <1>7

-----------------------------------------------------------------------------
(* EX2. *)

Ex2TypeOK ==
    /\ list2 \in Seq(Messages) /\ produced2 \in 0 .. MESSAGE_COUNT /\ producersDone2 \in Nat
    /\ producer2 \in [Producers -> {"claim", "push", "returned"}]
    /\ consumer2 \in [Consumers -> {"look", "returned"}]
    /\ value2 \in [Producers -> Messages \cup {NoMessage}]
    /\ consumed2 \subseteq Messages

\* Each message that was claimed is consumed, in the list, or in a producer's hands.
ClaimedAreSomewhere2 ==
    \A m \in Messages : m < produced2 =>
        \/ m \in consumed2
        \/ \E i \in DOMAIN list2 : list2[i] = m
        \/ \E p \in Producers : producer2[p] = "push" /\ value2[p] = m

\* A producer returns once all are claimed, and counts itself; a consumer after all of those.
ReturnedInOrder2 ==
    /\ \A p \in Producers : /\ producer2[p] = "push" => value2[p] \in Messages
                            /\ producer2[p] = "returned" => produced2 = MESSAGE_COUNT
    /\ producersDone2 = Num(producer2, {"returned"})
    /\ \A c \in Consumers : consumer2[c] = "returned" =>
            list2 = <<>> /\ \A p \in Producers : producer2[p] = "returned"

Ex2Inv == Ex2TypeOK /\ ClaimedAreSomewhere2 /\ ReturnedInOrder2

LEMMA Ex2Starts == Ex2Init => Ex2Inv
<1> SUFFICES ASSUME Ex2Init  PROVE Ex2Inv  OBVIOUS
<1>1. Num(producer2, {"returned"}) = 0
      BY NumBounds, ThreadsAreFinite DEF Ex2Init
<1> QED  BY <1>1, CountsAssumption
         DEF Ex2Init, Ex2Inv, Ex2TypeOK, ClaimedAreSomewhere2, ReturnedInOrder2, Messages

LEMMA Ex2ClaimKeeps ==
    ASSUME Ex2Inv, NEW p \in Producers, Ex2Claim(p)  PROVE Ex2Inv'
<1>1. produced2 \in Messages  BY CountsAssumption DEF Ex2TypeOK, Messages, Ex2Inv, Ex2Claim
<1>2. Ex2TypeOK'  BY <1>1, CountsAssumption DEF Ex2TypeOK, Messages, Ex2Inv, Ex2Claim
<1>3. ClaimedAreSomewhere2'
  <2> SUFFICES ASSUME NEW m \in Messages, m < produced2', m \notin consumed2,
                      ~ \E i \in DOMAIN list2 : list2[i] = m
               PROVE  \E q \in Producers : producer2'[q] = "push" /\ value2'[q] = m
      BY DEF ClaimedAreSomewhere2, Ex2Inv, Ex2Claim
  <2>1. CASE m = produced2
        BY <2>1 DEF Ex2TypeOK, Ex2Inv, Ex2Claim
  <2>2. CASE m < produced2
    <3>1. PICK q \in Producers : producer2[q] = "push" /\ value2[q] = m
          BY <2>2 DEF ClaimedAreSomewhere2, Ex2Inv, Ex2Claim
    <3> QED  BY <3>1 DEF Ex2TypeOK, Ex2Inv, Ex2Claim
  <2> QED  BY <2>1, <2>2 DEF Ex2TypeOK, Messages, Ex2Inv, Ex2Claim
<1>4. ReturnedInOrder2'
  <2>0. Moved(producer2, producer2', p, Producers) /\ producer2[p] = "claim" /\ producer2'[p] = "push"
        BY DEF Ex2TypeOK, Moved, Ex2Inv, Ex2Claim
  <2>1. Num(producer2', {"returned"}) = Num(producer2, {"returned"})
        BY <2>0, Moves, ThreadsAreFinite
  <2>2. \A c \in Consumers : consumer2[c] # "returned"  BY DEF ReturnedInOrder2, Ex2Inv, Ex2Claim
  <2> QED  BY <1>1, <2>1, <2>2 DEF ReturnedInOrder2, Ex2TypeOK, Ex2Inv, Ex2Claim
<1> QED  BY <1>2, <1>3, <1>4 DEF Ex2Inv

LEMMA Ex2ProducerReturnKeeps ==
    ASSUME Ex2Inv, NEW p \in Producers, Ex2ProducerReturn(p)  PROVE Ex2Inv'
<1>1. produced2 = MESSAGE_COUNT  BY CountsAssumption DEF Ex2TypeOK, Ex2Inv, Ex2ProducerReturn
<1>2. Ex2TypeOK'  BY DEF Ex2TypeOK, Ex2Inv, Ex2ProducerReturn
<1>3. ClaimedAreSomewhere2'  BY DEF ClaimedAreSomewhere2, Ex2TypeOK, Ex2Inv, Ex2ProducerReturn
<1>4. Num(producer2', {"returned"}) = Num(producer2, {"returned"}) + 1
  <2>1. Moved(producer2, producer2', p, Producers) /\ producer2[p] = "claim" /\ producer2'[p] = "returned"
        BY DEF Ex2Inv, Ex2TypeOK, Ex2ProducerReturn, Moved
  <2> QED  BY <2>1, Moves, ThreadsAreFinite
<1>5. ReturnedInOrder2'  BY <1>1, <1>4 DEF ReturnedInOrder2, Ex2TypeOK, Ex2Inv, Ex2ProducerReturn
<1> QED  BY <1>2, <1>3, <1>5 DEF Ex2Inv

LEMMA Ex2PushKeeps ==
    ASSUME Ex2Inv, NEW p \in Producers, Ex2Push(p)  PROVE Ex2Inv'
<1>1. value2[p] \in Messages  BY DEF ReturnedInOrder2, Ex2Inv, Ex2Push
<1>2. Ex2TypeOK'  BY <1>1 DEF Ex2TypeOK, Ex2Inv, Ex2Push
<1>3. /\ \A i \in DOMAIN list2 : i \in DOMAIN list2' /\ list2'[i] = list2[i]
      /\ Len(list2) + 1 \in DOMAIN list2' /\ list2'[Len(list2) + 1] = value2[p]
      BY <1>1 DEF Ex2TypeOK, Ex2Inv, Ex2Push
<1>4. ClaimedAreSomewhere2'
  <2> SUFFICES ASSUME NEW m \in Messages, m < produced2, m \notin consumed2,
                      ~ \E i \in DOMAIN list2' : list2'[i] = m
               PROVE  \E q \in Producers : producer2'[q] = "push" /\ value2'[q] = m
      BY DEF ClaimedAreSomewhere2, Ex2Inv, Ex2Push
  <2>1. PICK q \in Producers : producer2[q] = "push" /\ value2[q] = m
        BY <1>3 DEF ClaimedAreSomewhere2, Ex2Inv, Ex2Push
  <2>2. q # p  BY <1>3, <2>1 DEF Ex2Inv, Ex2Push
  <2> QED  BY <2>1, <2>2 DEF Ex2TypeOK, Ex2Inv, Ex2Push
<1>5. Num(producer2', {"returned"}) = Num(producer2, {"returned"})
  <2>1. Moved(producer2, producer2', p, Producers) /\ producer2[p] = "push" /\ producer2'[p] = "claim"
        BY DEF Ex2Inv, Ex2TypeOK, Ex2Push, Moved
  <2> QED  BY <2>1, Moves, ThreadsAreFinite
<1>6. \A c \in Consumers : consumer2[c] # "returned"  BY DEF ReturnedInOrder2, Ex2Inv, Ex2Push
<1>7. ReturnedInOrder2'  BY <1>5, <1>6 DEF ReturnedInOrder2, Ex2TypeOK, Ex2Inv, Ex2Push
<1> QED  BY <1>2, <1>4, <1>7 DEF Ex2Inv

LEMMA Ex2PopKeeps ==
    ASSUME Ex2Inv, NEW c \in Consumers, Ex2Pop(c)  PROVE Ex2Inv'
<1>1. /\ Len(list2) \in Nat /\ Len(list2) > 0 /\ Head(list2) = list2[1] /\ list2[1] \in Messages
      /\ list2' \in Seq(Messages) /\ Len(list2') = Len(list2) - 1
      /\ \A i \in 1 .. Len(list2) - 1 : list2'[i] = list2[i + 1]
      BY DEF Ex2TypeOK, Ex2Inv, Ex2Pop
<1>2. Ex2TypeOK'  BY <1>1 DEF Ex2TypeOK, Ex2Inv, Ex2Pop
<1>3. ClaimedAreSomewhere2'
  <2> SUFFICES ASSUME NEW m \in Messages, m < produced2, m \notin consumed2',
                      NEW i \in DOMAIN list2, list2[i] = m
               PROVE  \E j \in DOMAIN list2' : list2'[j] = m
      BY DEF ClaimedAreSomewhere2, Ex2Inv, Ex2Pop
  <2>1. i # 1  BY <1>1 DEF Ex2Inv, Ex2Pop
  <2>2. i \in 1 .. Len(list2) /\ DOMAIN list2' = 1 .. Len(list2')  BY <1>1 DEF Ex2TypeOK, Ex2Inv, Ex2Pop
  <2>3. i - 1 \in DOMAIN list2' /\ list2'[i - 1] = m  BY <1>1, <2>1, <2>2 DEF Ex2Inv, Ex2Pop
  <2> QED  BY <2>3 DEF Ex2Inv, Ex2Pop
<1>4. ReturnedInOrder2'  BY DEF ReturnedInOrder2, Ex2Inv, Ex2Pop
<1> QED  BY <1>2, <1>3, <1>4 DEF Ex2Inv

LEMMA Ex2ConsumerReturnKeeps ==
    ASSUME Ex2Inv, NEW c \in Consumers, Ex2ConsumerReturn(c)  PROVE Ex2Inv'
<1>1. Ex2TypeOK'  BY DEF Ex2TypeOK, Ex2Inv, Ex2ConsumerReturn
<1>2. ClaimedAreSomewhere2'  BY DEF ClaimedAreSomewhere2, Ex2Inv, Ex2ConsumerReturn
<1>3. \A p \in Producers : producer2[p] = "returned"
  <2>1. Num(producer2, {"returned"}) >= NUM_PRODUCERS  BY DEF ReturnedInOrder2, Ex2Inv, Ex2ConsumerReturn
  <2>2. DOMAIN producer2 = Producers  BY DEF Ex2TypeOK, Ex2Inv, Ex2ConsumerReturn
  <2>3. Num(producer2, {"returned"}) \in Nat /\ Num(producer2, {"returned"}) <= NUM_PRODUCERS
        BY <2>2, NumBounds, ThreadsAreFinite DEF Ex2Inv, Ex2ConsumerReturn
  <2>4. Num(producer2, {"returned"}) = NUM_PRODUCERS  BY <2>1, <2>3, CountsAssumption DEF Ex2Inv, Ex2ConsumerReturn
  <2>5. \A p \in Producers : producer2[p] \in {"returned"}
        BY <2>2, <2>4, NumBounds, ThreadsAreFinite DEF Ex2Inv, Ex2ConsumerReturn
  <2> QED  BY <2>5 DEF Ex2Inv, Ex2ConsumerReturn
<1>4. ReturnedInOrder2'  BY <1>3 DEF ReturnedInOrder2, Ex2TypeOK, Ex2Inv, Ex2ConsumerReturn
<1> QED  BY <1>1, <1>2, <1>4 DEF Ex2Inv

LEMMA Ex2Keeps == Ex2Inv /\ [EX2]_ex2Vars => Ex2Inv'
<1>1. ASSUME Ex2Inv, UNCHANGED ex2Vars  PROVE Ex2Inv'
      BY <1>1 DEF Ex2Inv, ex2Vars, Ex2TypeOK, ClaimedAreSomewhere2, ReturnedInOrder2
<1> QED  BY <1>1, Ex2ClaimKeeps, Ex2ProducerReturnKeeps, Ex2PushKeeps, Ex2PopKeeps,
            Ex2ConsumerReturnKeeps DEF EX2, Ex2Producer, Ex2Consumer

LEMMA Ex2Leaves == Ex2Inv => Ex2LeavesNothing
<1> SUFFICES ASSUME Ex2Inv, NEW c \in Consumers, consumer2[c] = "returned"
             PROVE  consumed2 = Messages
    BY DEF Ex2LeavesNothing
<1>1. list2 = <<>> /\ \A p \in Producers : producer2[p] = "returned"
      BY DEF Ex2Inv, ReturnedInOrder2
<1>2. 0 \in Producers  BY CountsAssumption DEF Producers
<1>3. produced2 = MESSAGE_COUNT  BY <1>1, <1>2 DEF Ex2Inv, ReturnedInOrder2
<1>4. \A m \in Messages : m \in consumed2
      BY <1>1, <1>3, CountsAssumption DEF Ex2Inv, ClaimedAreSomewhere2, Messages
<1> QED  BY <1>4 DEF Ex2Inv, Ex2TypeOK

-----------------------------------------------------------------------------
(* EX3. *)

Ex3TypeOK ==
    /\ list3 \in Seq(Messages \cup {NoMessage}) /\ sem3 \in Nat /\ produced3 \in 0 .. MESSAGE_COUNT
    /\ producer3 \in [Producers -> {"claim", "push", "post", "returned"}]
    /\ consumer3 \in [Consumers -> {"wait", "pop", "returned"}]
    /\ value3 \in [Producers -> Messages \cup {NoMessage}]
    /\ main3 \in {"join", "post"} /\ stops3 \in 0 .. NUM_CONSUMERS
    /\ consumed3 \subseteq Messages

\* The list's elements are counted by the semaphore, about to be, or admitted a consumer.
SemaphoreCounts3 ==
    Len(list3) = sem3 + Num(consumer3, {"pop"}) + Num(producer3, {"post"})
                 + (IF main3 = "post" THEN 1 ELSE 0)

\* The stop values are behind all messages, and one for each consumer that is not ended yet.
StopsLeft == stops3 - Num(consumer3, {"returned"})
StopsAreLast3 ==
    /\ 0 <= StopsLeft /\ StopsLeft <= Len(list3)
    /\ \A i \in DOMAIN list3 : list3[i] = NoMessage <=> i > Len(list3) - StopsLeft
    /\ stops3 > 0 => \A p \in Producers : producer3[p] = "returned"
    /\ \A c \in Consumers : consumer3[c] = "returned" => StopsLeft = Len(list3)

ClaimedAreSomewhere3 ==
    /\ \A m \in Messages : m < produced3 =>
          \/ m \in consumed3
          \/ \E i \in DOMAIN list3 : list3[i] = m
          \/ \E p \in Producers : producer3[p] = "push" /\ value3[p] = m
    /\ \A p \in Producers : /\ producer3[p] = "push" => value3[p] \in Messages
                            /\ producer3[p] = "returned" => produced3 = MESSAGE_COUNT

Ex3Inv == Ex3TypeOK /\ SemaphoreCounts3 /\ StopsAreLast3 /\ ClaimedAreSomewhere3

LEMMA NoMessageIsNone == NoMessage \notin Messages /\ NoMessage = -1 /\ -1 \in Int
BY CountsAssumption DEF NoMessage, Messages

LEMMA Ex3Counts ==
    Ex3TypeOK => /\ Len(list3) \in Nat /\ DOMAIN list3 = 1 .. Len(list3)
                 /\ Num(consumer3, {"pop"}) \in Nat /\ Num(producer3, {"post"}) \in Nat
                 /\ Num(consumer3, {"returned"}) \in Nat
                 /\ sem3 \in Nat /\ stops3 \in Nat
BY NumBounds, ThreadsAreFinite, CountsAssumption DEF Ex3TypeOK

LEMMA Ex3Starts == Ex3Init => Ex3Inv
<1> SUFFICES ASSUME Ex3Init  PROVE Ex3Inv  OBVIOUS
<1>1. /\ DOMAIN consumer3 = Consumers /\ \A c \in Consumers : consumer3[c] = "wait"
      /\ DOMAIN producer3 = Producers /\ \A p \in Producers : producer3[p] = "claim"
      BY DEF Ex3Init
<1>2. /\ Num(consumer3, {"pop"}) = 0 /\ Num(consumer3, {"returned"}) = 0
      /\ Num(producer3, {"post"}) = 0
      BY <1>1, NumBounds, ThreadsAreFinite
<1>3. Len(list3) = 0 /\ DOMAIN list3 = {}  BY DEF Ex3Init
<1>4. Ex3TypeOK  BY CountsAssumption DEF Ex3Init, Ex3TypeOK
<1>5. SemaphoreCounts3  BY <1>2, <1>3 DEF Ex3Init, SemaphoreCounts3
<1>6. StopsAreLast3  BY <1>1, <1>2, <1>3 DEF Ex3Init, StopsAreLast3, StopsLeft
<1>7. ClaimedAreSomewhere3  BY <1>1 DEF Ex3Init, ClaimedAreSomewhere3, Messages
<1> QED  BY <1>4, <1>5, <1>6, <1>7 DEF Ex3Inv

LEMMA Ex3ClaimKeeps ==
    ASSUME Ex3Inv, NEW p \in Producers, Ex3Claim(p)  PROVE Ex3Inv'
<1>1. Moved(producer3, producer3', p, Producers) /\ producer3[p] = "claim"
      /\ producer3'[p] \in {"push", "returned"}
      BY DEF Ex3Inv, Ex3TypeOK, Ex3Claim, Moved
<1>2. Num(producer3', {"post"}) = Num(producer3, {"post"})
      BY <1>1, Moves, ThreadsAreFinite
<1>3. UNCHANGED <<list3, sem3, consumer3, main3, stops3, consumed3>>  BY DEF Ex3Claim
<1>4. produced3 < MESSAGE_COUNT => produced3 \in Messages
      BY CountsAssumption DEF Ex3Inv, Ex3TypeOK, Messages
<1>5. Ex3TypeOK'  BY <1>4, CountsAssumption DEF Ex3Inv, Ex3TypeOK, Ex3Claim
<1>6. SemaphoreCounts3'  BY <1>2, <1>3 DEF Ex3Inv, SemaphoreCounts3
<1>7. StopsAreLast3'
  <2>1. StopsLeft' = StopsLeft  BY <1>3 DEF StopsLeft
  <2>2. stops3 = 0  BY <1>1 DEF Ex3Inv, StopsAreLast3, Ex3TypeOK
  <2> QED  BY <1>3, <2>1, <2>2 DEF Ex3Inv, StopsAreLast3
<1>8. ClaimedAreSomewhere3'
  <2>1. ASSUME NEW m \in Messages, m < produced3', m \notin consumed3,
               ~ \E i \in DOMAIN list3 : list3[i] = m
        PROVE  \E q \in Producers : producer3'[q] = "push" /\ value3'[q] = m
    <3>1. CASE m = produced3
          BY <2>1, <3>1, <1>4, CountsAssumption DEF Ex3Inv, Ex3TypeOK, Ex3Claim, Messages
    <3>2. CASE m < produced3
      <4>1. PICK q \in Producers : producer3[q] = "push" /\ value3[q] = m
            BY <2>1, <3>2 DEF Ex3Inv, ClaimedAreSomewhere3
      <4>2. q # p  BY <1>1, <4>1
      <4> QED  BY <4>1, <4>2 DEF Ex3Inv, Ex3TypeOK, Ex3Claim
    <3> QED  BY <2>1, <3>1, <3>2, CountsAssumption DEF Ex3Inv, Ex3TypeOK, Ex3Claim, Messages
  <2>2. ASSUME NEW q \in Producers
        PROVE  /\ producer3'[q] = "push" => value3'[q] \in Messages
               /\ producer3'[q] = "returned" => produced3' = MESSAGE_COUNT
        BY <1>4, CountsAssumption DEF Ex3Inv, Ex3TypeOK, Ex3Claim, ClaimedAreSomewhere3
  <2> QED  BY <1>3, <2>1, <2>2 DEF ClaimedAreSomewhere3
<1> QED  BY <1>5, <1>6, <1>7, <1>8 DEF Ex3Inv

\* An element behind the others.
LEMMA Appended ==
    ASSUME NEW S, NEW s \in Seq(S), NEW e \in S
    PROVE  /\ Append(s, e) \in Seq(S) /\ Len(Append(s, e)) = Len(s) + 1
           /\ \A i \in 1 .. Len(s) : Append(s, e)[i] = s[i]
           /\ Append(s, e)[Len(s) + 1] = e
           /\ DOMAIN s = 1 .. Len(s) /\ DOMAIN Append(s, e) = 1 .. Len(s) + 1
           /\ Len(s) \in Nat
OBVIOUS

LEMMA Ex3PushKeeps ==
    ASSUME Ex3Inv, NEW p \in Producers, Ex3Push(p)  PROVE Ex3Inv'
<1>1. Moved(producer3, producer3', p, Producers) /\ producer3[p] = "push"
      /\ producer3'[p] = "post"
      BY DEF Ex3Inv, Ex3TypeOK, Ex3Push, Moved
<1>2. Num(producer3', {"post"}) = Num(producer3, {"post"}) + 1
      BY <1>1, Moves, ThreadsAreFinite
<1>3. UNCHANGED <<sem3, produced3, consumer3, value3, main3, stops3, consumed3>>  BY DEF Ex3Push
<1>4. value3[p] \in Messages  BY <1>1 DEF Ex3Inv, ClaimedAreSomewhere3
<1>5. /\ list3' \in Seq(Messages \cup {NoMessage}) /\ Len(list3') = Len(list3) + 1
      /\ \A i \in 1 .. Len(list3) : list3'[i] = list3[i]
      /\ list3'[Len(list3) + 1] = value3[p]
      /\ DOMAIN list3 = 1 .. Len(list3) /\ DOMAIN list3' = 1 .. Len(list3) + 1
      /\ Len(list3) \in Nat
      BY <1>4, Appended DEF Ex3Inv, Ex3TypeOK, Ex3Push
<1>6. Ex3TypeOK'  BY <1>5 DEF Ex3Inv, Ex3TypeOK, Ex3Push
<1>7. SemaphoreCounts3'
      BY <1>2, <1>3, <1>5, Ex3Counts DEF Ex3Inv, SemaphoreCounts3
<1>8. StopsAreLast3'
  <2>1. StopsLeft' = StopsLeft  BY <1>3 DEF StopsLeft
  <2>2. stops3 = 0  BY <1>1 DEF Ex3Inv, StopsAreLast3, Ex3TypeOK
  <2>3. StopsLeft = 0 /\ Num(consumer3, {"returned"}) = 0
        BY <2>2, Ex3Counts DEF Ex3Inv, StopsAreLast3, StopsLeft
  <2>4. \A c \in Consumers : consumer3[c] # "returned"
    <3>1. \A c \in Consumers : consumer3[c] \in {"returned"} => Num(consumer3, {"returned"}) >= 1
          BY NumBounds, ThreadsAreFinite DEF Ex3Inv, Ex3TypeOK
    <3> QED  BY <2>3, <3>1
  <2>5. \A i \in 1 .. Len(list3) : list3[i] # NoMessage
        BY <1>5, <2>3 DEF Ex3Inv, StopsAreLast3
  <2>6. \A i \in DOMAIN list3' : list3'[i] # NoMessage /\ ~(i > Len(list3'))
        BY <1>4, <1>5, <2>5, NoMessageIsNone
  <2> QED  BY <1>3, <1>5, <2>1, <2>2, <2>3, <2>4, <2>6 DEF StopsAreLast3
<1>9. ClaimedAreSomewhere3'
  <2>1. ASSUME NEW m \in Messages, m < produced3, m \notin consumed3,
               ~ \E i \in DOMAIN list3' : list3'[i] = m
        PROVE  \E q \in Producers : producer3'[q] = "push" /\ value3[q] = m
    <3>1. ~ \E i \in DOMAIN list3 : list3[i] = m  BY <1>5, <2>1
    <3>2. PICK q \in Producers : producer3[q] = "push" /\ value3[q] = m
          BY <2>1, <3>1 DEF Ex3Inv, ClaimedAreSomewhere3
    <3>3. q # p  BY <1>5, <2>1, <3>2
    <3> QED  BY <1>1, <3>2, <3>3 DEF Moved
  <2>2. \A q \in Producers : producer3'[q] \in {"push", "returned"} => producer3'[q] = producer3[q]
        BY <1>1 DEF Moved
  <2> QED  BY <1>3, <2>1, <2>2 DEF Ex3Inv, ClaimedAreSomewhere3
<1> QED  BY <1>6, <1>7, <1>8, <1>9 DEF Ex3Inv

LEMMA Ex3PostKeeps ==
    ASSUME Ex3Inv, NEW p \in Producers, Ex3Post(p)  PROVE Ex3Inv'
<1>1. Moved(producer3, producer3', p, Producers) /\ producer3[p] = "post"
      /\ producer3'[p] = "claim"
      BY DEF Ex3Inv, Ex3TypeOK, Ex3Post, Moved
<1>2. Num(producer3', {"post"}) = Num(producer3, {"post"}) - 1
      BY <1>1, Moves, ThreadsAreFinite
<1>3. UNCHANGED <<list3, produced3, consumer3, value3, main3, stops3, consumed3>>  BY DEF Ex3Post
<1>4. sem3' = sem3 + 1  BY DEF Ex3Post
<1>6. Ex3TypeOK'  BY DEF Ex3Inv, Ex3TypeOK, Ex3Post
<1>7. SemaphoreCounts3'
  <2>1. /\ Len(list3) \in Nat /\ sem3 \in Nat /\ Num(consumer3, {"pop"}) \in Nat
        /\ Num(producer3, {"post"}) \in Nat /\ SemaphoreCounts3
        BY Ex3Counts DEF Ex3Inv
  <2> QED  BY <1>2, <1>3, <1>4, <2>1 DEF SemaphoreCounts3
<1>8. \A q \in Producers : producer3'[q] \in {"push", "returned"} <=> producer3[q] \in {"push", "returned"}
      BY <1>1 DEF Moved
<1>9. \A q \in Producers : producer3[q] \in {"push", "returned"} => producer3'[q] = producer3[q]
      BY <1>1 DEF Moved
<1>10. StopsAreLast3'
  <2>1. StopsLeft' = StopsLeft  BY <1>3 DEF StopsLeft
  <2> QED  BY <1>3, <1>9, <2>1 DEF Ex3Inv, StopsAreLast3
<1>11. ClaimedAreSomewhere3'  BY <1>3, <1>8, <1>9 DEF Ex3Inv, ClaimedAreSomewhere3
<1> QED  BY <1>6, <1>7, <1>10, <1>11 DEF Ex3Inv

LEMMA Ex3WaitKeeps ==
    ASSUME Ex3Inv, NEW c \in Consumers, Ex3Wait(c)  PROVE Ex3Inv'
<1>1. Moved(consumer3, consumer3', c, Consumers) /\ consumer3[c] = "wait" /\ consumer3'[c] = "pop"
      BY DEF Ex3Inv, Ex3TypeOK, Ex3Wait, Moved
<1>2. /\ Num(consumer3', {"pop"}) = Num(consumer3, {"pop"}) + 1
      /\ Num(consumer3', {"returned"}) = Num(consumer3, {"returned"})
      BY <1>1, Moves, ThreadsAreFinite
<1>3. UNCHANGED <<list3, produced3, producer3, value3, main3, stops3, consumed3>>  BY DEF Ex3Wait
<1>4. sem3' = sem3 - 1 /\ sem3 > 0  BY DEF Ex3Wait
<1>5. Ex3TypeOK'  BY DEF Ex3Inv, Ex3TypeOK, Ex3Wait
<1>6. SemaphoreCounts3'
  <2>1. Num(consumer3, {"pop"}) \in Nat /\ Num(producer3, {"post"}) \in Nat /\ sem3 \in Nat
        BY Ex3Counts DEF Ex3Inv
  <2> QED  BY <1>2, <1>3, <1>4, <2>1 DEF Ex3Inv, SemaphoreCounts3
<1>7. StopsAreLast3'
  <2>1. StopsLeft' = StopsLeft  BY <1>2, <1>3 DEF StopsLeft
  <2>2. \A d \in Consumers : consumer3'[d] = "returned" => consumer3[d] = "returned"
        BY <1>1 DEF Moved
  <2> QED  BY <1>3, <2>1, <2>2 DEF Ex3Inv, StopsAreLast3
<1>8. ClaimedAreSomewhere3'  BY <1>3 DEF Ex3Inv, ClaimedAreSomewhere3
<1> QED  BY <1>5, <1>6, <1>7, <1>8 DEF Ex3Inv

\* The first element taken.
LEMMA Popped ==
    ASSUME NEW S, NEW s \in Seq(S), s # <<>>
    PROVE  /\ Tail(s) \in Seq(S) /\ Len(Tail(s)) = Len(s) - 1 /\ Len(s) > 0 /\ Len(s) \in Nat
           /\ \A i \in 1 .. Len(s) - 1 : Tail(s)[i] = s[i + 1]
           /\ Head(s) = s[1] /\ s[1] \in S
           /\ DOMAIN s = 1 .. Len(s) /\ DOMAIN Tail(s) = 1 .. Len(s) - 1
OBVIOUS

LEMMA Ex3PopKeeps ==
    ASSUME Ex3Inv, NEW c \in Consumers, Ex3Pop(c)  PROVE Ex3Inv'
<1> DEFINE e == Head(list3)
<1>1. /\ Moved(consumer3, consumer3', c, Consumers) /\ consumer3[c] = "pop"
      /\ consumer3'[c] = IF e = NoMessage THEN "returned" ELSE "wait"
      BY DEF Ex3Inv, Ex3TypeOK, Ex3Pop, Moved
<1>2. /\ Num(consumer3', {"pop"}) = Num(consumer3, {"pop"}) - 1
      /\ e = NoMessage => Num(consumer3', {"returned"}) = Num(consumer3, {"returned"}) + 1
      /\ e # NoMessage => Num(consumer3', {"returned"}) = Num(consumer3, {"returned"})
  <2>1. consumer3[c] \in {"pop"} /\ consumer3'[c] \notin {"pop"} /\ consumer3[c] \notin {"returned"}
        /\ (e = NoMessage <=> consumer3'[c] \in {"returned"})
        BY <1>1
  <2> HIDE DEF e
  <2> QED  BY <1>1, <2>1, Moves, ThreadsAreFinite
<1>3. UNCHANGED <<sem3, produced3, producer3, value3, main3, stops3>>
      /\ consumed3' = (IF e = NoMessage THEN consumed3 ELSE consumed3 \cup {e})
      BY DEF Ex3Pop
<1>4. /\ list3' \in Seq(Messages \cup {NoMessage}) /\ Len(list3') = Len(list3) - 1
      /\ Len(list3) > 0 /\ Len(list3) \in Nat
      /\ \A i \in 1 .. Len(list3) - 1 : list3'[i] = list3[i + 1]
      /\ e = list3[1] /\ e \in Messages \cup {NoMessage}
      /\ DOMAIN list3 = 1 .. Len(list3) /\ DOMAIN list3' = 1 .. Len(list3) - 1
      BY Popped DEF Ex3Inv, Ex3TypeOK, Ex3Pop
<1>5. Ex3TypeOK'
  <2>1. consumer3' \in [Consumers -> {"wait", "pop", "returned"}]
        BY DEF Ex3Inv, Ex3TypeOK, Ex3Pop
  <2>2. consumed3' \subseteq Messages  BY <1>3, <1>4 DEF Ex3Inv, Ex3TypeOK
  <2> QED  BY <1>3, <1>4, <2>1, <2>2 DEF Ex3Inv, Ex3TypeOK
<1> HIDE DEF e
<1>6. SemaphoreCounts3'  BY <1>2, <1>3, <1>4, Ex3Counts DEF Ex3Inv, SemaphoreCounts3
<1>7. StopsAreLast3'
  <2>1. e = NoMessage <=> StopsLeft = Len(list3)
        BY <1>4, Ex3Counts DEF Ex3Inv, StopsAreLast3, StopsLeft
  <2>2. StopsLeft' = IF e = NoMessage THEN StopsLeft - 1 ELSE StopsLeft
        BY <1>2, <1>3, Ex3Counts DEF Ex3Inv, StopsLeft
  <2>3. StopsLeft \in Nat /\ StopsLeft <= Len(list3)
        BY Ex3Counts DEF Ex3Inv, StopsAreLast3, StopsLeft
  <2>4. StopsLeft' \in Nat /\ StopsLeft' <= Len(list3')
        BY <1>4, <2>1, <2>2, <2>3
  <2>5. Len(list3') - StopsLeft' = IF e = NoMessage THEN 0 ELSE Len(list3) - StopsLeft - 1
        BY <1>4, <2>1, <2>2, <2>3
  <2>6. ASSUME NEW i \in DOMAIN list3'
        PROVE  list3'[i] = NoMessage <=> i > Len(list3') - StopsLeft'
    <3>1. i \in Nat /\ i >= 1 /\ i + 1 \in DOMAIN list3 /\ list3'[i] = list3[i + 1]  BY <1>4
    <3>2. list3[i + 1] = NoMessage <=> i + 1 > Len(list3) - StopsLeft
          BY <3>1 DEF Ex3Inv, StopsAreLast3
    <3> QED  BY <1>4, <2>1, <2>3, <2>5, <3>1, <3>2
  <2>7. ASSUME NEW d \in Consumers, consumer3'[d] = "returned"
        PROVE  StopsLeft' = Len(list3')
    <3>1. consumer3[d] = "returned" \/ e = NoMessage  BY <1>1, <2>7 DEF Moved
    <3>2. e = NoMessage  BY <2>1, <3>1 DEF Ex3Inv, StopsAreLast3
    <3> QED  BY <1>4, <2>1, <2>2, <3>2
  <2> QED  BY <1>3, <2>4, <2>6, <2>7 DEF Ex3Inv, StopsAreLast3
<1>8. ClaimedAreSomewhere3'
  <2>1. ASSUME NEW m \in Messages, m < produced3, m \notin consumed3',
               ~ \E q \in Producers : producer3[q] = "push" /\ value3[q] = m
        PROVE  \E i \in DOMAIN list3' : list3'[i] = m
    <3>1. m # e /\ m \notin consumed3  BY <1>3, <2>1, NoMessageIsNone
    <3>2. PICK i \in DOMAIN list3 : list3[i] = m
          BY <2>1, <3>1 DEF Ex3Inv, ClaimedAreSomewhere3
    <3>3. i - 1 \in DOMAIN list3' /\ list3'[i - 1] = m  BY <1>4, <3>1, <3>2
    <3> QED  BY <3>3
  <2> QED  BY <1>3, <2>1 DEF Ex3Inv, ClaimedAreSomewhere3
<1> QED  BY <1>5, <1>6, <1>7, <1>8 DEF Ex3Inv

LEMMA Ex3MainStopKeeps == ASSUME Ex3Inv, Ex3MainStop  PROVE Ex3Inv'
<1>1. UNCHANGED <<sem3, produced3, producer3, consumer3, value3, consumed3>>
      /\ main3 = "join" /\ main3' = "post" /\ stops3' = stops3 + 1 /\ stops3 < NUM_CONSUMERS
      /\ \A p \in Producers : producer3[p] = "returned"
      BY DEF Ex3MainStop
<1>2. /\ list3' \in Seq(Messages \cup {NoMessage}) /\ Len(list3') = Len(list3) + 1
      /\ \A i \in 1 .. Len(list3) : list3'[i] = list3[i]
      /\ list3'[Len(list3) + 1] = NoMessage
      /\ DOMAIN list3 = 1 .. Len(list3) /\ DOMAIN list3' = 1 .. Len(list3) + 1
      /\ Len(list3) \in Nat
  <2>1. NoMessage \in Messages \cup {NoMessage} /\ list3 \in Seq(Messages \cup {NoMessage})
        BY DEF Ex3Inv, Ex3TypeOK
  <2>2. list3' = Append(list3, NoMessage)  BY DEF Ex3MainStop
  <2> QED  BY <2>1, <2>2, Appended
<1>3. Ex3TypeOK'  BY <1>1, <1>2, CountsAssumption DEF Ex3Inv, Ex3TypeOK
<1>4. SemaphoreCounts3'  BY <1>1, <1>2, Ex3Counts DEF Ex3Inv, SemaphoreCounts3
<1>5. StopsAreLast3'
  <2>1. StopsLeft' = StopsLeft + 1 /\ StopsLeft \in Nat /\ StopsLeft <= Len(list3)
        BY <1>1, Ex3Counts DEF Ex3Inv, StopsAreLast3, StopsLeft
  <2>2. ASSUME NEW i \in DOMAIN list3'
        PROVE  list3'[i] = NoMessage <=> i > Len(list3') - StopsLeft'
    <3>1. Len(list3') - StopsLeft' = Len(list3) - StopsLeft  BY <1>2, <2>1
    <3>2. CASE i = Len(list3) + 1  BY <1>2, <2>1, <3>1, <3>2
    <3>3. CASE i # Len(list3) + 1
      <4>1. i \in DOMAIN list3 /\ list3'[i] = list3[i]  BY <1>2, <3>3
      <4>2. list3[i] = NoMessage <=> i > Len(list3) - StopsLeft
            BY <4>1 DEF Ex3Inv, StopsAreLast3
      <4> QED  BY <3>1, <4>1, <4>2
    <3> QED  BY <3>2, <3>3
  <2> QED  BY <1>1, <1>2, <2>1, <2>2 DEF Ex3Inv, StopsAreLast3
<1>6. ClaimedAreSomewhere3'
  <2>1. \A m \in Messages :
            (\E i \in DOMAIN list3 : list3[i] = m) => \E i \in DOMAIN list3' : list3'[i] = m
        BY <1>2
  <2> QED  BY <1>1, <2>1 DEF Ex3Inv, ClaimedAreSomewhere3
<1> QED  BY <1>3, <1>4, <1>5, <1>6 DEF Ex3Inv

LEMMA Ex3MainPostKeeps == ASSUME Ex3Inv, Ex3MainPost  PROVE Ex3Inv'
<1>1. /\ UNCHANGED <<list3, produced3, producer3, consumer3, value3, stops3, consumed3>>
      /\ main3 = "post" /\ main3' = "join" /\ sem3' = sem3 + 1
      BY DEF Ex3MainPost
<1>2. Ex3TypeOK'  BY <1>1 DEF Ex3Inv, Ex3TypeOK
<1>3. SemaphoreCounts3'  BY <1>1, Ex3Counts DEF Ex3Inv, SemaphoreCounts3
<1>4. StopsAreLast3'
  <2>1. StopsLeft' = StopsLeft  BY <1>1 DEF StopsLeft
  <2> QED  BY <1>1, <2>1 DEF Ex3Inv, StopsAreLast3
<1>5. ClaimedAreSomewhere3'  BY <1>1 DEF Ex3Inv, ClaimedAreSomewhere3
<1> QED  BY <1>2, <1>3, <1>4, <1>5 DEF Ex3Inv

LEMMA Ex3Keeps == Ex3Inv /\ [EX3]_ex3Vars => Ex3Inv'
<1>1. ASSUME Ex3Inv, UNCHANGED ex3Vars  PROVE Ex3Inv'
      BY <1>1 DEF Ex3Inv, ex3Vars, Ex3TypeOK, SemaphoreCounts3, StopsAreLast3, StopsLeft,
                  ClaimedAreSomewhere3
<1> QED  BY <1>1, Ex3ClaimKeeps, Ex3PushKeeps, Ex3PostKeeps, Ex3WaitKeeps, Ex3PopKeeps,
            Ex3MainStopKeeps, Ex3MainPostKeeps DEF EX3, Ex3Producer, Ex3Consumer, Ex3Main

LEMMA Ex3Leaves == Ex3Inv => Ex3LeavesNothing /\ Ex3PopsFindAnElement
<1> SUFFICES ASSUME Ex3Inv  PROVE Ex3LeavesNothing /\ Ex3PopsFindAnElement  OBVIOUS
<1>1. Num(consumer3, {"pop"}) = Cardinality({c \in Consumers : consumer3[c] = "pop"})
      BY DEF Num, Ex3Inv, Ex3TypeOK
<1>2. Ex3PopsFindAnElement
      BY <1>1, Ex3Counts DEF Ex3Inv, SemaphoreCounts3, Ex3PopsFindAnElement
<1>3. ASSUME Ex3Joined  PROVE consumed3 = Messages /\ list3 = <<>> /\ sem3 = 0
  <2>1. \A c \in Consumers : consumer3[c] \in {"returned"}  BY <1>3 DEF Ex3Joined
  <2>2. DOMAIN consumer3 = Consumers  BY DEF Ex3Inv, Ex3TypeOK
  <2>3. Num(consumer3, {"returned"}) = NUM_CONSUMERS
        BY <2>1, <2>2, NumBounds, ThreadsAreFinite
  <2>4. StopsLeft = 0  BY <1>3, <2>3, CountsAssumption DEF Ex3Joined, StopsLeft
  <2>5. 0 \in Consumers  BY CountsAssumption DEF Consumers
  <2>6. Len(list3) = 0  BY <2>1, <2>4, <2>5 DEF Ex3Inv, StopsAreLast3
  <2>7. list3 = <<>> /\ DOMAIN list3 = {}  BY <2>6 DEF Ex3Inv, Ex3TypeOK
  <2>8. sem3 = 0  BY <2>6, Ex3Counts DEF Ex3Inv, SemaphoreCounts3
  <2>9. stops3 > 0  BY <1>3, CountsAssumption DEF Ex3Joined
  <2>10. \A p \in Producers : producer3[p] = "returned"  BY <2>9 DEF Ex3Inv, StopsAreLast3
  <2>11. 0 \in Producers  BY CountsAssumption DEF Producers
  <2>12. produced3 = MESSAGE_COUNT  BY <2>10, <2>11 DEF Ex3Inv, ClaimedAreSomewhere3
  <2>13. \A m \in Messages : m \in consumed3
         BY <2>7, <2>10, <2>12, CountsAssumption DEF Ex3Inv, ClaimedAreSomewhere3, Messages
  <2> QED  BY <2>7, <2>8, <2>13 DEF Ex3Inv, Ex3TypeOK
<1> QED  BY <1>2, <1>3 DEF Ex3LeavesNothing

-----------------------------------------------------------------------------
(* EX6. *)

Ex6TypeOK ==
    /\ version6 \in Nat /\ index6 \in Nat /\ ready6 \in Nat /\ posts6 \in Nat
    /\ message6 \in Nat /\ done6 \in BOOLEAN /\ producer6 \in {"collect", "broadcast"}
    /\ consumer6 \in [Consumers -> {"post", "look", "asleep", "returned"}]
    /\ last6 \in [Consumers -> Nat] /\ got6 \in [Consumers -> Seq(Nat)]

\* The version numbers the messages, and the end mark after the last of them.
VersionsFollow6 ==
    /\ version6 = index6 + (IF producer6 = "broadcast" THEN 1 ELSE 0)
    /\ version6 <= MESSAGE_COUNT + 1
    /\ done6 <=> version6 = MESSAGE_COUNT + 1
    /\ version6 > 0 /\ ~done6 => message6 = version6 - 1

\* A consumer is behind by one version at most, and has read all the others.
NearlyCurrent6 ==
    \A c \in Consumers :
        /\ last6[c] \in {version6 - 1, version6}
        /\ consumer6[c] = "post" => last6[c] = version6
        /\ consumer6[c] = "returned" => done6 /\ last6[c] = version6 - 1
        /\ Len(got6[c]) = last6[c] /\ InOrder(got6[c])

\* The posts that the producer has and will have of this version are of who has read it.
Posted6 == {c \in Consumers : last6[c] = version6 /\ consumer6[c] \in {"look", "asleep"}}
PostsAreCounted6 ==
    Cardinality(Posted6) = ready6 + (IF producer6 = "collect" THEN posts6 ELSE 0)

Ex6Inv == Ex6TypeOK /\ VersionsFollow6 /\ NearlyCurrent6 /\ PostsAreCounted6

LEMMA PostedIsFinite ==
    /\ IsFiniteSet(Posted6) /\ Cardinality(Posted6) \in Nat
    /\ Cardinality(Posted6) <= NUM_CONSUMERS
    /\ Cardinality(Posted6) = NUM_CONSUMERS => Posted6 = Consumers
<1>1. Posted6 \subseteq Consumers  BY DEF Posted6
<1> HIDE DEF Posted6
<1> QED  BY <1>1, ThreadsAreFinite, FS_Subset, FS_CardinalityType

LEMMA Ex6Starts == Ex6Init => Ex6Inv
<1> SUFFICES ASSUME Ex6Init  PROVE Ex6Inv  OBVIOUS
<1>1. Posted6 = {}  BY DEF Ex6Init, Posted6
<1>2. PostsAreCounted6  BY <1>1, FS_EmptySet DEF Ex6Init, PostsAreCounted6
<1>3. NearlyCurrent6
  <2>1. ASSUME NEW c \in Consumers
        PROVE  consumer6[c] = "post" /\ last6[c] = 0 /\ got6[c] = <<>>
        BY DEF Ex6Init
  <2> QED  BY <2>1 DEF Ex6Init, NearlyCurrent6, InOrder
<1>4. Ex6TypeOK
  <2>1. <<>> \in Seq(Nat)  OBVIOUS
  <2>2. got6 \in [Consumers -> Seq(Nat)]  BY <2>1 DEF Ex6Init
  <2>3. last6 \in [Consumers -> Nat]  BY DEF Ex6Init
  <2>4. consumer6 \in [Consumers -> {"post", "look", "asleep", "returned"}]  BY DEF Ex6Init
  <2> QED  BY <2>2, <2>3, <2>4 DEF Ex6Init, Ex6TypeOK
<1>5. VersionsFollow6  BY CountsAssumption DEF Ex6Init, VersionsFollow6
<1> QED  BY <1>2, <1>3, <1>4, <1>5 DEF Ex6Inv

LEMMA Ex6CollectKeeps == ASSUME Ex6Inv, Ex6Collect  PROVE Ex6Inv'
<1> USE DEF Ex6Inv, Ex6Collect
<1>1. Ex6TypeOK'  BY DEF Ex6TypeOK
<1>2. VersionsFollow6' /\ NearlyCurrent6'  BY DEF VersionsFollow6, NearlyCurrent6
<1>3. Posted6' = Posted6  BY DEF Posted6
<1>4. PostsAreCounted6'  BY <1>3, PostedIsFinite DEF PostsAreCounted6, Ex6TypeOK
<1> QED  BY <1>1, <1>2, <1>4

LEMMA Ex6PublishKeeps == ASSUME Ex6Inv, Ex6Publish  PROVE Ex6Inv'
<1>1. /\ producer6 = "collect" /\ producer6' = "broadcast" /\ version6' = version6 + 1
      /\ posts6 = NUM_CONSUMERS /\ index6 <= MESSAGE_COUNT /\ version6 = index6
      /\ version6 \in Nat /\ ready6 \in Nat /\ last6 \in [Consumers -> Nat]
      /\ UNCHANGED <<ready6, index6, posts6, consumer6, last6, got6>>
      BY DEF Ex6Inv, Ex6Publish, Ex6TypeOK, VersionsFollow6
<1>2. Posted6 = Consumers /\ ready6 = 0
  <2>1. Cardinality(Posted6) = ready6 + NUM_CONSUMERS
        BY <1>1 DEF Ex6Inv, PostsAreCounted6
  <2> QED  BY <1>1, <2>1, PostedIsFinite, CountsAssumption
<1>3. \A c \in Consumers : last6[c] = version6 /\ consumer6[c] \in {"look", "asleep"}
      BY <1>2 DEF Posted6
<1>4. Posted6' = {}  BY <1>1, <1>3 DEF Posted6
<1>5. PostsAreCounted6'  BY <1>1, <1>2, <1>4, FS_EmptySet DEF PostsAreCounted6
<1>6. Ex6TypeOK'
  <2>1. message6' \in Nat /\ done6' \in BOOLEAN
    <3>1. CASE index6 = MESSAGE_COUNT
          BY <3>1 DEF Ex6Inv, Ex6TypeOK, Ex6Publish
    <3>2. CASE index6 # MESSAGE_COUNT
          BY <3>2 DEF Ex6Inv, Ex6TypeOK, Ex6Publish
    <3> QED  BY <3>1, <3>2
  <2> QED  BY <1>1, <2>1 DEF Ex6Inv, Ex6TypeOK
<1>7. VersionsFollow6'
      BY <1>1, CountsAssumption DEF Ex6Inv, Ex6TypeOK, VersionsFollow6, Ex6Publish
<1>8. NearlyCurrent6'  BY <1>1, <1>3 DEF Ex6Inv, NearlyCurrent6
<1> QED  BY <1>5, <1>6, <1>7, <1>8 DEF Ex6Inv

LEMMA Ex6BroadcastKeeps == ASSUME Ex6Inv, Ex6Broadcast  PROVE Ex6Inv'
<1>1. \A c \in Consumers : consumer6'[c] = IF consumer6[c] = "asleep" THEN "look" ELSE consumer6[c]
      BY DEF Ex6Broadcast
<1>2. UNCHANGED <<message6, version6, done6, ready6, last6, got6>>
      /\ producer6 = "broadcast" /\ producer6' = "collect" /\ index6' = index6 + 1 /\ posts6' = 0
      BY DEF Ex6Broadcast
<1>3. Posted6' = Posted6  BY <1>1, <1>2 DEF Posted6
<1>4. PostsAreCounted6'  BY <1>2, <1>3, PostedIsFinite DEF Ex6Inv, PostsAreCounted6, Ex6TypeOK
<1>5. Ex6TypeOK'
  <2>1. consumer6' \in [Consumers -> {"post", "look", "asleep", "returned"}]
        BY DEF Ex6Inv, Ex6TypeOK, Ex6Broadcast
  <2> QED  BY <1>2, <2>1 DEF Ex6Inv, Ex6TypeOK
<1>6. VersionsFollow6'  BY <1>2 DEF Ex6Inv, Ex6TypeOK, VersionsFollow6
<1>7. NearlyCurrent6'  BY <1>1, <1>2 DEF Ex6Inv, NearlyCurrent6
<1> QED  BY <1>4, <1>5, <1>6, <1>7 DEF Ex6Inv

LEMMA Ex6PostKeeps == ASSUME Ex6Inv, NEW c \in Consumers, Ex6Post(c)  PROVE Ex6Inv'
<1>1. /\ consumer6[c] = "post" /\ consumer6'[c] = "look" /\ last6[c] = version6
      /\ \A d \in Consumers \ {c} : consumer6'[d] = consumer6[d]
      BY DEF Ex6Inv, Ex6TypeOK, Ex6Post, NearlyCurrent6
<1>2. UNCHANGED <<message6, version6, done6, producer6, index6, posts6, last6, got6>>
      /\ ready6' = ready6 + 1
      BY DEF Ex6Post
<1>3. Posted6' = Posted6 \cup {c} /\ c \notin Posted6  BY <1>1, <1>2 DEF Posted6
<1>4. Cardinality(Posted6') = Cardinality(Posted6) + 1  BY <1>3, PostedIsFinite, FS_AddElement
<1>5. PostsAreCounted6'
      BY <1>2, <1>4, PostedIsFinite DEF Ex6Inv, PostsAreCounted6, Ex6TypeOK
<1>6. Ex6TypeOK'  BY DEF Ex6Inv, Ex6TypeOK, Ex6Post
<1>7. VersionsFollow6'  BY <1>2 DEF Ex6Inv, VersionsFollow6
<1>8. NearlyCurrent6'  BY <1>1, <1>2 DEF Ex6Inv, NearlyCurrent6
<1> QED  BY <1>5, <1>6, <1>7, <1>8 DEF Ex6Inv

LEMMA Ex6SleepOrWakeKeeps ==
    ASSUME Ex6Inv, NEW c \in Consumers, Ex6Sleep(c) \/ Ex6WakeSpuriously(c)  PROVE Ex6Inv'
<1>1. /\ consumer6[c] \in {"look", "asleep"} /\ consumer6'[c] \in {"look", "asleep"}
      /\ \A d \in Consumers \ {c} : consumer6'[d] = consumer6[d]
      /\ consumer6' \in [Consumers -> {"post", "look", "asleep", "returned"}]
      BY DEF Ex6Inv, Ex6TypeOK, Ex6Sleep, Ex6WakeSpuriously
<1>2. UNCHANGED <<message6, version6, done6, ready6, producer6, index6, posts6, last6, got6>>
      BY DEF Ex6Sleep, Ex6WakeSpuriously
<1>3. Posted6' = Posted6  BY <1>1, <1>2 DEF Posted6
<1>4. PostsAreCounted6'  BY <1>2, <1>3 DEF Ex6Inv, PostsAreCounted6
<1>5. Ex6TypeOK'  BY <1>1, <1>2 DEF Ex6Inv, Ex6TypeOK
<1>6. VersionsFollow6'  BY <1>2 DEF Ex6Inv, VersionsFollow6
<1>7. NearlyCurrent6'  BY <1>1, <1>2 DEF Ex6Inv, NearlyCurrent6
<1> QED  BY <1>4, <1>5, <1>6, <1>7 DEF Ex6Inv

LEMMA Ex6TakeKeeps == ASSUME Ex6Inv, NEW c \in Consumers, Ex6Take(c)  PROVE Ex6Inv'
<1>1. /\ consumer6[c] = "look" /\ last6[c] # version6 /\ last6[c] = version6 - 1
      /\ consumer6'[c] = IF done6 THEN "returned" ELSE "post"
      /\ \A d \in Consumers \ {c} : consumer6'[d] = consumer6[d]
      /\ last6'[c] = (IF done6 THEN last6[c] ELSE version6)
      /\ \A d \in Consumers \ {c} : last6'[d] = last6[d] /\ got6'[d] = got6[d]
      /\ got6'[c] = (IF done6 THEN got6[c] ELSE Append(got6[c], message6))
      BY DEF Ex6Inv, Ex6TypeOK, Ex6Take, NearlyCurrent6
<1>2. UNCHANGED <<message6, version6, done6, ready6, producer6, index6, posts6>>  BY DEF Ex6Take
<1>3. Posted6' = Posted6
  <2>1. c \notin Posted6 /\ c \notin Posted6'  BY <1>1, <1>2 DEF Posted6
  <2> QED  BY <1>1, <1>2, <2>1 DEF Posted6
<1>4. PostsAreCounted6'  BY <1>2, <1>3 DEF Ex6Inv, PostsAreCounted6
<1>5. Ex6TypeOK'
  <2>1. consumer6' \in [Consumers -> {"post", "look", "asleep", "returned"}]
        BY DEF Ex6Inv, Ex6TypeOK, Ex6Take
  <2>2. last6' \in [Consumers -> Nat]  BY DEF Ex6Inv, Ex6TypeOK, Ex6Take
  <2>3. got6[c] \in Seq(Nat) /\ message6 \in Nat  BY DEF Ex6Inv, Ex6TypeOK
  <2>4. Append(got6[c], message6) \in Seq(Nat)  BY <2>3
  <2>5. got6' \in [Consumers -> Seq(Nat)]
    <3>1. CASE done6  BY <3>1 DEF Ex6Inv, Ex6TypeOK, Ex6Take
    <3>2. CASE ~done6  BY <2>4, <3>2 DEF Ex6Inv, Ex6TypeOK, Ex6Take
    <3> QED  BY <3>1, <3>2
  <2> QED  BY <1>2, <2>1, <2>2, <2>5 DEF Ex6Inv, Ex6TypeOK
<1>6. VersionsFollow6'  BY <1>2 DEF Ex6Inv, VersionsFollow6
<1>7. ~done6 => Len(got6'[c]) = version6 /\ InOrder(got6'[c])
  <2>1. got6[c] \in Seq(Nat) /\ message6 \in Nat /\ version6 \in Nat /\ Len(got6[c]) = version6 - 1
        /\ InOrder(got6[c]) /\ Len(got6[c]) \in Nat
        BY <1>1 DEF Ex6Inv, Ex6TypeOK, NearlyCurrent6
  <2>2. ~done6 => message6 = version6 - 1  BY <2>1 DEF Ex6Inv, VersionsFollow6
  <2> QED  BY <1>1, <2>1, <2>2, Appended DEF InOrder
<1>8. NearlyCurrent6'
  <2>1. ASSUME NEW d \in Consumers, d # c
        PROVE  /\ last6'[d] \in {version6' - 1, version6'}
               /\ consumer6'[d] = "post" => last6'[d] = version6'
               /\ consumer6'[d] = "returned" => done6' /\ last6'[d] = version6' - 1
               /\ Len(got6'[d]) = last6'[d] /\ InOrder(got6'[d])
        BY <1>1, <1>2, <2>1 DEF Ex6Inv, NearlyCurrent6
  <2>2. /\ last6'[c] \in {version6' - 1, version6'}
        /\ consumer6'[c] = "post" => last6'[c] = version6'
        /\ consumer6'[c] = "returned" => done6' /\ last6'[c] = version6' - 1
        /\ Len(got6'[c]) = last6'[c] /\ InOrder(got6'[c])
        BY <1>1, <1>2, <1>7 DEF Ex6Inv, NearlyCurrent6
  <2> QED  BY <2>1, <2>2 DEF NearlyCurrent6
<1> QED  BY <1>4, <1>5, <1>6, <1>8 DEF Ex6Inv

LEMMA Ex6Keeps == Ex6Inv /\ [EX6]_ex6Vars => Ex6Inv'
<1>1. ASSUME Ex6Inv, UNCHANGED ex6Vars  PROVE Ex6Inv'
  <2>1. UNCHANGED <<message6, version6, done6, ready6, producer6, index6, posts6, consumer6, last6, got6>>
        BY <1>1 DEF ex6Vars
  <2>2. Posted6' = Posted6  BY <2>1 DEF Posted6
  <2> QED  BY <1>1, <2>1, <2>2 DEF Ex6Inv, Ex6TypeOK, VersionsFollow6, NearlyCurrent6, PostsAreCounted6
<1> QED  BY <1>1, Ex6CollectKeeps, Ex6PublishKeeps, Ex6BroadcastKeeps, Ex6PostKeeps,
            Ex6SleepOrWakeKeeps, Ex6TakeKeeps
         DEF EX6, Ex6Next, Ex6Producer, Ex6Consumer

LEMMA Ex6Gets == Ex6Inv => Ex6EveryoneGetsEach
BY CountsAssumption DEF Ex6Inv, Ex6TypeOK, NearlyCurrent6, VersionsFollow6, Ex6EveryoneGetsEach

-----------------------------------------------------------------------------
(* Slots of a ring, from one of them on. *)

Slot(from, k) == (from + k) % QUEUE_CAPACITY

LEMMA SlotIs ==
    ASSUME NEW from \in Slots, NEW k \in 0 .. QUEUE_CAPACITY
    PROVE  /\ Slot(from, k) = IF from + k < QUEUE_CAPACITY THEN from + k ELSE from + k - QUEUE_CAPACITY
           /\ Slot(from, k) \in Slots
<1>1. QUEUE_CAPACITY \in Nat \ {0}  BY CountsAssumption
<1>2. ASSUME NEW a \in 0 .. QUEUE_CAPACITY - 1  PROVE a % QUEUE_CAPACITY = a
      BY <1>1
<1>3. ASSUME NEW a \in QUEUE_CAPACITY .. 2 * QUEUE_CAPACITY - 1
      PROVE  a % QUEUE_CAPACITY = a - QUEUE_CAPACITY
      BY <1>1
<1> QED  BY <1>1, <1>2, <1>3 DEF Slot, Slots

LEMMA SlotsInARow ==
    ASSUME NEW from \in Slots
    PROVE  /\ Slot(from, 0) = from
           /\ \A k \in 0 .. QUEUE_CAPACITY - 1 : /\ Slot(Slot(from, k), 1) = Slot(from, k + 1)
                                                 /\ Slot(Slot(from, 1), k) = Slot(from, k + 1)
           /\ \A j, k \in 0 .. QUEUE_CAPACITY - 1 : j # k => Slot(from, j) # Slot(from, k)
<1>1. QUEUE_CAPACITY \in Nat \ {0} /\ from \in Nat /\ from < QUEUE_CAPACITY
      BY CountsAssumption DEF Slots
<1>2. Slot(from, 0) = from  BY <1>1, SlotIs
<1>3. ASSUME NEW k \in 0 .. QUEUE_CAPACITY - 1
      PROVE  Slot(Slot(from, k), 1) = Slot(from, k + 1) /\ Slot(Slot(from, 1), k) = Slot(from, k + 1)
  <2>1. k \in 0 .. QUEUE_CAPACITY /\ k + 1 \in 0 .. QUEUE_CAPACITY /\ 1 \in 0 .. QUEUE_CAPACITY
        BY <1>1
  <2>2. Slot(from, k) \in Slots /\ Slot(from, 1) \in Slots  BY <2>1, SlotIs
  <2> QED  BY <1>1, <2>1, <2>2, SlotIs
<1>4. ASSUME NEW j \in 0 .. QUEUE_CAPACITY - 1, NEW k \in 0 .. QUEUE_CAPACITY - 1, j # k
      PROVE  Slot(from, j) # Slot(from, k)
  <2>1. j \in 0 .. QUEUE_CAPACITY /\ k \in 0 .. QUEUE_CAPACITY  BY <1>1
  <2> QED  BY <1>1, <1>4, <2>1, SlotIs
<1> QED  BY <1>2, <1>3, <1>4

-----------------------------------------------------------------------------
(* EX4. *)

Ex4TypeOK ==
    /\ queue4 \in [Slots -> Messages \cup {NoMessage}] /\ head4 \in Slots /\ tail4 \in Slots
    /\ produced4 \in 0 .. MESSAGE_COUNT /\ consumed4 \in Nat
    /\ empty4 \in Nat /\ full4 \in Nat
    /\ producer4 \in [Producers -> {"claim", "wait", "store", "post", "returned"}]
    /\ consumer4 \in [Consumers -> {"wait", "take", "release", "release_last", "chain", "returned"}]
    /\ value4 \in [Producers -> Messages \cup {NoMessage}]
    /\ \A p \in Producers : producer4[p] \in {"wait", "store"} => value4[p] \in Messages
    /\ stored4 \in Seq(Messages) /\ taken4 \in Seq(Messages)

\* What is between head and tail is what was stored and is not taken, in that order.
Held4 == Len(stored4) - Len(taken4)
RingHolds4 ==
    /\ Held4 >= 0 /\ consumed4 = Len(taken4) /\ tail4 = Slot(head4, Held4)
    /\ \A i \in 1 .. Len(taken4) : taken4[i] = stored4[i]
    /\ \A k \in 0 .. Held4 - 1 : queue4[Slot(head4, k)] = stored4[Len(taken4) + 1 + k]

\* Each slot is empty, claimed, held, or read and about to be given back.
EmptyCounts4 ==
    empty4 + Num(producer4, {"store"}) + Held4 + Num(consumer4, {"release", "release_last"})
        = QUEUE_CAPACITY

\* Until the last message is taken, each post is for one that is held, and none ends a consumer.
FullCounts4 ==
    consumed4 < MESSAGE_COUNT =>
        /\ full4 + Num(consumer4, {"take"}) + Num(producer4, {"post"}) = Held4
        /\ \A c \in Consumers : consumer4[c] \in {"wait", "take", "release"}

Ex4Inv == Ex4TypeOK /\ RingHolds4 /\ EmptyCounts4 /\ FullCounts4

LEMMA Ex4Counts ==
    ASSUME Ex4TypeOK
    PROVE  /\ Len(stored4) \in Nat /\ Len(taken4) \in Nat /\ Held4 \in Int
           /\ Num(producer4, {"store"}) \in Nat /\ Num(producer4, {"post"}) \in Nat
           /\ Num(consumer4, {"take"}) \in Nat
           /\ Num(consumer4, {"release", "release_last"}) \in Nat
           /\ empty4 \in Nat /\ full4 \in Nat
           /\ QUEUE_CAPACITY \in Nat /\ QUEUE_CAPACITY > 0 /\ MESSAGE_COUNT \in Nat
<1>1. DOMAIN producer4 = Producers /\ DOMAIN consumer4 = Consumers  BY DEF Ex4TypeOK
<1>2. /\ Num(producer4, {"store"}) \in Nat /\ Num(producer4, {"post"}) \in Nat
      /\ Num(consumer4, {"take"}) \in Nat
      /\ Num(consumer4, {"release", "release_last"}) \in Nat
      BY <1>1, NumBounds, ThreadsAreFinite
<1> QED  BY <1>2, CountsAssumption DEF Ex4TypeOK, Held4

LEMMA Ex4Starts == Ex4Init => Ex4Inv
<1> SUFFICES ASSUME Ex4Init  PROVE Ex4Inv  OBVIOUS
<1>1. /\ DOMAIN consumer4 = Consumers /\ \A c \in Consumers : consumer4[c] = "wait"
      /\ DOMAIN producer4 = Producers /\ \A p \in Producers : producer4[p] = "claim"
      BY DEF Ex4Init
<1>2. /\ Num(consumer4, {"take"}) = 0 /\ Num(consumer4, {"release", "release_last"}) = 0
      /\ Num(producer4, {"post"}) = 0 /\ Num(producer4, {"store"}) = 0
      BY <1>1, NumBounds, ThreadsAreFinite
<1>3. Len(stored4) = 0 /\ Len(taken4) = 0 /\ Held4 = 0  BY DEF Ex4Init, Held4
<1>4. 0 \in Slots  BY CountsAssumption DEF Slots
<1>5. Ex4TypeOK
      BY <1>1, <1>4, CountsAssumption DEF Ex4Init, Ex4TypeOK, Slots
<1>6. RingHolds4  BY <1>3, <1>4, SlotsInARow DEF Ex4Init, RingHolds4
<1>7. EmptyCounts4  BY <1>2, <1>3, CountsAssumption DEF Ex4Init, EmptyCounts4
<1>8. FullCounts4  BY <1>1, <1>2, <1>3 DEF Ex4Init, FullCounts4
<1> QED  BY <1>5, <1>6, <1>7, <1>8 DEF Ex4Inv

LEMMA Ex4ClaimKeeps ==
    ASSUME Ex4Inv, NEW p \in Producers, Ex4Claim(p)  PROVE Ex4Inv'
<1>1. Moved(producer4, producer4', p, Producers) /\ producer4[p] = "claim"
      /\ producer4'[p] \in {"wait", "returned"}
      BY DEF Ex4Inv, Ex4TypeOK, Ex4Claim, Moved
<1>2. /\ Num(producer4', {"store"}) = Num(producer4, {"store"})
      /\ Num(producer4', {"post"}) = Num(producer4, {"post"})
      BY <1>1, Moves, ThreadsAreFinite
<1>3. UNCHANGED <<queue4, head4, tail4, consumed4, empty4, full4, consumer4, stored4, taken4>>
      BY DEF Ex4Claim
<1>4. Ex4TypeOK'
  <2>1. produced4 < MESSAGE_COUNT => produced4 \in Messages
        BY CountsAssumption DEF Ex4Inv, Ex4TypeOK, Messages
  <2> QED  BY <1>3, <2>1, CountsAssumption DEF Ex4Inv, Ex4TypeOK, Ex4Claim
<1>5. Held4' = Held4  BY <1>3 DEF Held4
<1>6. RingHolds4'  BY <1>3, <1>5 DEF Ex4Inv, RingHolds4
<1>7. EmptyCounts4'  BY <1>2, <1>3, <1>5 DEF Ex4Inv, EmptyCounts4
<1>8. FullCounts4'  BY <1>2, <1>3, <1>5 DEF Ex4Inv, FullCounts4
<1> QED  BY <1>4, <1>6, <1>7, <1>8 DEF Ex4Inv

LEMMA Ex4WaitEmptyKeeps ==
    ASSUME Ex4Inv, NEW p \in Producers, Ex4WaitEmpty(p)  PROVE Ex4Inv'
<1>1. Moved(producer4, producer4', p, Producers) /\ producer4[p] = "wait" /\ producer4'[p] = "store"
      BY DEF Ex4Inv, Ex4TypeOK, Ex4WaitEmpty, Moved
<1>2. /\ Num(producer4', {"store"}) = Num(producer4, {"store"}) + 1
      /\ Num(producer4', {"post"}) = Num(producer4, {"post"})
      BY <1>1, Moves, ThreadsAreFinite
<1>3. UNCHANGED <<queue4, head4, tail4, produced4, consumed4, full4, consumer4, value4, stored4, taken4>>
      /\ empty4' = empty4 - 1 /\ empty4 > 0
      BY DEF Ex4WaitEmpty
<1>4. Ex4TypeOK'  BY DEF Ex4Inv, Ex4TypeOK, Ex4WaitEmpty
<1>5. Held4' = Held4  BY <1>3 DEF Held4
<1>6. RingHolds4'  BY <1>3, <1>5 DEF Ex4Inv, RingHolds4
<1>7. EmptyCounts4'
  <2>1. /\ Num(producer4, {"store"}) \in Nat /\ Held4 \in Int /\ empty4 \in Nat
        /\ Num(consumer4, {"release", "release_last"}) \in Nat
        BY Ex4Counts DEF Ex4Inv
  <2> QED  BY <1>2, <1>3, <1>5, <2>1 DEF Ex4Inv, EmptyCounts4
<1>8. FullCounts4'  BY <1>2, <1>3, <1>5 DEF Ex4Inv, FullCounts4
<1> QED  BY <1>4, <1>6, <1>7, <1>8 DEF Ex4Inv

LEMMA Ex4StoreKeeps ==
    ASSUME Ex4Inv, NEW p \in Producers, Ex4Store(p)  PROVE Ex4Inv'
<1>1. Moved(producer4, producer4', p, Producers) /\ producer4[p] = "store" /\ producer4'[p] = "post"
      BY DEF Ex4Inv, Ex4TypeOK, Ex4Store, Moved
<1>2. /\ Num(producer4', {"store"}) = Num(producer4, {"store"}) - 1
      /\ Num(producer4', {"post"}) = Num(producer4, {"post"}) + 1
      BY <1>1, Moves, ThreadsAreFinite
<1>3. /\ UNCHANGED <<head4, produced4, consumed4, empty4, full4, consumer4, value4, taken4>>
      /\ queue4' = [queue4 EXCEPT ![tail4] = value4[p]] /\ tail4' = Slot(tail4, 1)
      BY DEF Ex4Store, Slot
<1>4. value4[p] \in Messages  BY <1>1 DEF Ex4Inv, Ex4TypeOK
<1>5. /\ stored4' \in Seq(Messages) /\ Len(stored4') = Len(stored4) + 1
      /\ \A i \in 1 .. Len(stored4) : stored4'[i] = stored4[i]
      /\ stored4'[Len(stored4) + 1] = value4[p]
      BY <1>4, Appended DEF Ex4Inv, Ex4TypeOK, Ex4Store
<1>6. Held4' = Held4 + 1 /\ Held4 \in Nat /\ Len(taken4) \in Nat /\ Len(stored4) \in Nat
      /\ Len(stored4) = Len(taken4) + Held4
      BY <1>3, <1>5, Ex4Counts DEF Held4, Ex4Inv, RingHolds4
<1>7. Held4 < QUEUE_CAPACITY
  <2>1. Num(producer4, {"store"}) >= 1
        BY <1>1, NumBounds, ThreadsAreFinite DEF Moved
  <2> QED  BY <2>1, Ex4Counts DEF Ex4Inv, EmptyCounts4
<1>8. QUEUE_CAPACITY \in Nat /\ head4 \in Slots /\ tail4 = Slot(head4, Held4)
      BY CountsAssumption DEF Ex4Inv, Ex4TypeOK, RingHolds4
<1>9. tail4' = Slot(head4, Held4 + 1) /\ tail4' \in Slots
      BY <1>3, <1>6, <1>7, <1>8, SlotIs, SlotsInARow
<1>10. RingHolds4'
  <2>1. ASSUME NEW k \in 0 .. Held4
        PROVE  queue4'[Slot(head4, k)] = stored4'[Len(taken4) + 1 + k]
    <3>1. CASE k = Held4
          BY <1>3, <1>5, <1>6, <1>8, <3>1 DEF Ex4Inv, Ex4TypeOK
    <3>2. CASE k # Held4
      <4>1. k \in 0 .. Held4 - 1 /\ Len(taken4) + 1 + k \in 1 .. Len(stored4)  BY <1>6, <3>2
      <4>2. Slot(head4, k) # tail4  BY <1>6, <1>7, <1>8, <3>2, SlotsInARow
      <4>3. Slot(head4, k) \in Slots  BY <1>6, <1>7, <1>8, SlotIs
      <4>4. queue4'[Slot(head4, k)] = queue4[Slot(head4, k)]
            BY <1>3, <4>2, <4>3 DEF Ex4Inv, Ex4TypeOK
      <4> QED  BY <1>5, <4>1, <4>4 DEF Ex4Inv, RingHolds4
    <3> QED  BY <3>1, <3>2
  <2>2. \A i \in 1 .. Len(taken4) : taken4[i] = stored4'[i]
        BY <1>5, <1>6 DEF Ex4Inv, RingHolds4
  <2> QED  BY <1>3, <1>6, <1>9, <2>1, <2>2 DEF Ex4Inv, RingHolds4
<1>11. Ex4TypeOK'
  <2>1. producer4' \in [Producers -> {"claim", "wait", "store", "post", "returned"}]
        BY DEF Ex4Inv, Ex4TypeOK, Ex4Store
  <2>2. queue4' \in [Slots -> Messages \cup {NoMessage}]
        BY <1>3, <1>4 DEF Ex4Inv, Ex4TypeOK
  <2> QED  BY <1>1, <1>3, <1>5, <1>9, <2>1, <2>2 DEF Ex4Inv, Ex4TypeOK, Moved
<1>12. EmptyCounts4'
  <2>1. /\ empty4 \in Nat /\ Num(producer4, {"store"}) \in Nat
        /\ Num(consumer4, {"release", "release_last"}) \in Nat /\ QUEUE_CAPACITY \in Nat
        /\ empty4 + Num(producer4, {"store"}) + Held4 + Num(consumer4, {"release", "release_last"})
               = QUEUE_CAPACITY
        BY Ex4Counts DEF Ex4Inv, EmptyCounts4
  <2>2. /\ empty4' = empty4 /\ Held4' = Held4 + 1 /\ Held4 \in Nat
        /\ Num(producer4', {"store"}) = Num(producer4, {"store"}) - 1
        /\ Num(consumer4', {"release", "release_last"}) = Num(consumer4, {"release", "release_last"})
        BY <1>2, <1>3, <1>6
  <2> QED  BY <2>1, <2>2 DEF EmptyCounts4
<1>13. FullCounts4'
  <2>1. full4 \in Nat /\ Num(consumer4, {"take"}) \in Nat /\ Num(producer4, {"post"}) \in Nat
        BY Ex4Counts DEF Ex4Inv
  <2>2. /\ full4' = full4 /\ consumed4' = consumed4 /\ consumer4' = consumer4
        /\ Held4' = Held4 + 1 /\ Held4 \in Nat
        /\ Num(producer4', {"post"}) = Num(producer4, {"post"}) + 1
        BY <1>2, <1>3, <1>6
  <2>3. FullCounts4  BY DEF Ex4Inv
  <2> QED  BY <2>1, <2>2, <2>3 DEF FullCounts4
<1> QED  BY <1>10, <1>11, <1>12, <1>13 DEF Ex4Inv

LEMMA Ex4PostFullKeeps ==
    ASSUME Ex4Inv, NEW p \in Producers, Ex4PostFull(p)  PROVE Ex4Inv'
<1>1. Moved(producer4, producer4', p, Producers) /\ producer4[p] = "post" /\ producer4'[p] = "claim"
      BY DEF Ex4Inv, Ex4TypeOK, Ex4PostFull, Moved
<1>2. /\ Num(producer4', {"store"}) = Num(producer4, {"store"})
      /\ Num(producer4', {"post"}) = Num(producer4, {"post"}) - 1
      BY <1>1, Moves, ThreadsAreFinite
<1>3. UNCHANGED <<queue4, head4, tail4, produced4, consumed4, empty4, consumer4, value4, stored4, taken4>>
      /\ full4' = full4 + 1
      BY DEF Ex4PostFull
<1>4. Ex4TypeOK'  BY DEF Ex4Inv, Ex4TypeOK, Ex4PostFull
<1>5. Held4' = Held4  BY <1>3 DEF Held4
<1>6. RingHolds4'  BY <1>3, <1>5 DEF Ex4Inv, RingHolds4
<1>7. EmptyCounts4'  BY <1>2, <1>3, <1>5 DEF Ex4Inv, EmptyCounts4
<1>8. FullCounts4'
  <2>1. /\ full4 \in Nat /\ Num(consumer4, {"take"}) \in Nat /\ Num(producer4, {"post"}) \in Nat
        /\ Held4 \in Int /\ FullCounts4
        BY Ex4Counts DEF Ex4Inv
  <2> QED  BY <1>2, <1>3, <1>5, <2>1 DEF FullCounts4
<1> QED  BY <1>4, <1>6, <1>7, <1>8 DEF Ex4Inv

LEMMA Ex4WaitFullKeeps ==
    ASSUME Ex4Inv, NEW c \in Consumers, Ex4WaitFull(c)  PROVE Ex4Inv'
<1>1. Moved(consumer4, consumer4', c, Consumers) /\ consumer4[c] = "wait" /\ consumer4'[c] = "take"
      BY DEF Ex4Inv, Ex4TypeOK, Ex4WaitFull, Moved
<1>2. /\ Num(consumer4', {"take"}) = Num(consumer4, {"take"}) + 1
      /\ Num(consumer4', {"release", "release_last"}) = Num(consumer4, {"release", "release_last"})
      BY <1>1, Moves, ThreadsAreFinite
<1>3. UNCHANGED <<queue4, head4, tail4, produced4, consumed4, empty4, producer4, value4, stored4, taken4>>
      /\ full4' = full4 - 1 /\ full4 > 0
      BY DEF Ex4WaitFull
<1>4. Ex4TypeOK'  BY DEF Ex4Inv, Ex4TypeOK, Ex4WaitFull
<1>5. Held4' = Held4  BY <1>3 DEF Held4
<1>6. RingHolds4'  BY <1>3, <1>5 DEF Ex4Inv, RingHolds4
<1>7. EmptyCounts4'  BY <1>2, <1>3, <1>5 DEF Ex4Inv, EmptyCounts4
<1>8. FullCounts4'
  <2>1. \A d \in Consumers : consumer4'[d] = consumer4[d] \/ consumer4'[d] = "take"
        BY <1>1 DEF Moved
  <2>2. full4 \in Nat /\ Num(consumer4, {"take"}) \in Nat /\ Num(producer4, {"post"}) \in Nat
        BY Ex4Counts DEF Ex4Inv
  <2> QED  BY <1>2, <1>3, <1>5, <2>1, <2>2 DEF Ex4Inv, FullCounts4
<1> QED  BY <1>4, <1>6, <1>7, <1>8 DEF Ex4Inv

\* The last message is taken: the consumer is told that nothing is left.
LEMMA Ex4FindNothingKeeps ==
    ASSUME Ex4Inv, NEW c \in Consumers, Ex4Take(c), consumed4 >= MESSAGE_COUNT  PROVE Ex4Inv'
<1>1. Moved(consumer4, consumer4', c, Consumers) /\ consumer4[c] = "take" /\ consumer4'[c] = "chain"
      BY DEF Ex4Inv, Ex4TypeOK, Ex4Take, Moved
<1>2. Num(consumer4', {"release", "release_last"}) = Num(consumer4, {"release", "release_last"})
      BY <1>1, Moves, ThreadsAreFinite
<1>3. UNCHANGED <<queue4, head4, tail4, produced4, consumed4, empty4, full4, producer4, value4, stored4, taken4>>
      BY DEF Ex4Take
<1>4. Ex4TypeOK'  BY <1>3 DEF Ex4Inv, Ex4TypeOK, Ex4Take
<1>5. Held4' = Held4  BY <1>3 DEF Held4
<1>6. RingHolds4'  BY <1>3, <1>5 DEF Ex4Inv, RingHolds4
<1>7. EmptyCounts4'  BY <1>2, <1>3, <1>5 DEF Ex4Inv, EmptyCounts4
<1>8. FullCounts4'  BY <1>3, CountsAssumption DEF Ex4Inv, Ex4TypeOK, FullCounts4
<1> QED  BY <1>4, <1>6, <1>7, <1>8 DEF Ex4Inv

LEMMA Ex4TakeKeeps ==
    ASSUME Ex4Inv, NEW c \in Consumers, Ex4Take(c), consumed4 < MESSAGE_COUNT  PROVE Ex4Inv'
<1>1. /\ Moved(consumer4, consumer4', c, Consumers) /\ consumer4[c] = "take"
      /\ consumer4'[c] = IF consumed4 + 1 >= MESSAGE_COUNT THEN "release_last" ELSE "release"
      BY CountsAssumption DEF Ex4Inv, Ex4TypeOK, Ex4Take, Moved
<1>2. /\ Num(consumer4', {"take"}) = Num(consumer4, {"take"}) - 1
      /\ Num(consumer4', {"release", "release_last"})
             = Num(consumer4, {"release", "release_last"}) + 1
  <2>1. consumer4'[c] \in {"release", "release_last"}  BY <1>1
  <2>2. consumer4[c] \in {"take"} /\ consumer4'[c] \notin {"take"}
        /\ consumer4[c] \notin {"release", "release_last"}
        BY <1>1, <2>1
  <2> QED  BY <1>1, <2>1, <2>2, Moves, ThreadsAreFinite
<1>3. /\ UNCHANGED <<queue4, tail4, produced4, empty4, full4, producer4, value4, stored4>>
      /\ taken4' = Append(taken4, queue4[head4]) /\ head4' = Slot(head4, 1)
      /\ consumed4' = consumed4 + 1
      BY CountsAssumption DEF Ex4Inv, Ex4TypeOK, Ex4Take, Slot
<1>4. Num(consumer4, {"take"}) >= 1
      BY <1>1, NumBounds, ThreadsAreFinite DEF Moved
<1>5. Held4 \in Nat /\ Held4 >= 1 /\ Held4 <= QUEUE_CAPACITY
      /\ Len(taken4) \in Nat /\ Len(stored4) \in Nat /\ Len(stored4) = Len(taken4) + Held4
  <2>1. /\ Num(producer4, {"store"}) \in Nat /\ Num(producer4, {"post"}) \in Nat
        /\ Num(consumer4, {"take"}) \in Nat /\ Num(consumer4, {"release", "release_last"}) \in Nat
        /\ empty4 \in Nat /\ full4 \in Nat /\ QUEUE_CAPACITY \in Nat
        /\ Len(stored4) \in Nat /\ Len(taken4) \in Nat /\ Held4 \in Int
        BY Ex4Counts DEF Ex4Inv
  <2>2. full4 + Num(consumer4, {"take"}) + Num(producer4, {"post"}) = Held4
        BY DEF Ex4Inv, FullCounts4
  <2>3. Held4 >= 1  BY <1>4, <2>1, <2>2
  <2>4. Held4 <= QUEUE_CAPACITY  BY <2>1, <2>3 DEF Ex4Inv, EmptyCounts4
  <2>5. Len(stored4) = Len(taken4) + Held4  BY <2>1 DEF Held4
  <2> QED  BY <2>1, <2>3, <2>4, <2>5
<1>6. head4 \in Slots /\ tail4 = Slot(head4, Held4) /\ QUEUE_CAPACITY \in Nat
      BY CountsAssumption DEF Ex4Inv, Ex4TypeOK, RingHolds4
<1>7. queue4[head4] = stored4[Len(taken4) + 1] /\ queue4[head4] \in Messages
  <2>1. queue4[Slot(head4, 0)] = stored4[Len(taken4) + 1 + 0]
        BY <1>5 DEF Ex4Inv, RingHolds4
  <2>2. Slot(head4, 0) = head4  BY <1>6, SlotsInARow
  <2>3. Len(taken4) + 1 \in 1 .. Len(stored4) /\ stored4 \in Seq(Messages)
        BY <1>5 DEF Ex4Inv, Ex4TypeOK
  <2>4. stored4[Len(taken4) + 1] \in Messages  BY <2>3
  <2> QED  BY <1>5, <2>1, <2>2, <2>4
<1>8. /\ taken4' \in Seq(Messages) /\ Len(taken4') = Len(taken4) + 1
      /\ \A i \in 1 .. Len(taken4) : taken4'[i] = taken4[i]
      /\ taken4'[Len(taken4) + 1] = queue4[head4]
      BY <1>3, <1>7, Appended DEF Ex4Inv, Ex4TypeOK
<1>9. Held4' = Held4 - 1  BY <1>3, <1>5, <1>8 DEF Held4
<1>10. head4' \in Slots  BY <1>3, <1>5, <1>6, SlotIs
<1>11. \A k \in 0 .. QUEUE_CAPACITY - 1 : Slot(head4', k) = Slot(head4, k + 1)
       BY <1>3, <1>6, SlotsInARow
<1>12. RingHolds4'
  <2>1. tail4' = Slot(head4', Held4')
    <3>1. Held4 - 1 \in 0 .. QUEUE_CAPACITY - 1 /\ Held4 - 1 + 1 = Held4  BY <1>5, <1>6
    <3> QED  BY <1>3, <1>6, <1>9, <1>11, <3>1
  <2>2. ASSUME NEW k \in 0 .. Held4' - 1
        PROVE  queue4'[Slot(head4', k)] = stored4'[Len(taken4') + 1 + k]
    <3>1. k \in 0 .. QUEUE_CAPACITY - 1 /\ k + 1 \in 0 .. Held4 - 1
          /\ Len(taken4') + 1 + k = Len(taken4) + 1 + (k + 1)
      <4>1. k \in Int /\ 0 <= k /\ k <= Held4 - 2  BY <1>5, <1>9
      <4>2. Len(taken4') = Len(taken4) + 1  BY <1>8
      <4> QED  BY <1>5, <1>6, <4>1, <4>2
    <3>2. queue4[Slot(head4, k + 1)] = stored4[Len(taken4) + 1 + (k + 1)]
          BY <3>1 DEF Ex4Inv, RingHolds4
    <3> QED  BY <1>3, <1>11, <3>1, <3>2
  <2>3. ASSUME NEW i \in 1 .. Len(taken4')  PROVE taken4'[i] = stored4'[i]
    <3>1. CASE i = Len(taken4) + 1  BY <1>3, <1>7, <1>8, <3>1
    <3>2. CASE i # Len(taken4) + 1
      <4>1. i \in 1 .. Len(taken4)  BY <1>5, <1>8, <3>2
      <4> QED  BY <1>3, <1>8, <4>1 DEF Ex4Inv, RingHolds4
    <3> QED  BY <3>1, <3>2
  <2>4. Held4' >= 0 /\ consumed4' = Len(taken4')
        BY <1>3, <1>5, <1>8, <1>9 DEF Ex4Inv, RingHolds4
  <2> QED  BY <2>1, <2>2, <2>3, <2>4 DEF RingHolds4
<1>13. Ex4TypeOK'
  <2>1. consumer4' \in [Consumers -> {"wait", "take", "release", "release_last", "chain", "returned"}]
        BY CountsAssumption DEF Ex4Inv, Ex4TypeOK, Ex4Take
  <2>2. consumed4' \in Nat  BY <1>3 DEF Ex4Inv, Ex4TypeOK
  <2> QED  BY <1>3, <1>8, <1>10, <2>1, <2>2 DEF Ex4Inv, Ex4TypeOK
<1>14. EmptyCounts4'
  <2>1. /\ Num(producer4, {"store"}) \in Nat /\ empty4 \in Nat
        /\ Num(consumer4, {"release", "release_last"}) \in Nat
        BY Ex4Counts DEF Ex4Inv
  <2> QED  BY <1>2, <1>3, <1>5, <1>9, <2>1 DEF Ex4Inv, EmptyCounts4
<1>15. FullCounts4'
  <2>1. full4 \in Nat /\ Num(consumer4, {"take"}) \in Nat /\ Num(producer4, {"post"}) \in Nat
        BY Ex4Counts DEF Ex4Inv
  <2>2. ASSUME consumed4' < MESSAGE_COUNT, NEW d \in Consumers
        PROVE  consumer4'[d] \in {"wait", "take", "release"}
    <3>1. CASE d = c
      <4>1. consumed4 + 1 < MESSAGE_COUNT /\ consumed4 \in Nat /\ MESSAGE_COUNT \in Nat
            BY <1>3, <2>2, CountsAssumption DEF Ex4Inv, Ex4TypeOK
      <4>2. consumer4'[c] = "release"  BY <1>1, <4>1
      <4> QED  BY <3>1, <4>2
    <3>2. CASE d # c  BY <1>1, <3>2 DEF Ex4Inv, FullCounts4, Moved
    <3> QED  BY <3>1, <3>2
  <2> QED  BY <1>2, <1>3, <1>5, <1>9, <2>1, <2>2 DEF Ex4Inv, FullCounts4
<1> QED  BY <1>12, <1>13, <1>14, <1>15 DEF Ex4Inv

LEMMA Ex4PostEmptyKeeps ==
    ASSUME Ex4Inv, NEW c \in Consumers, Ex4PostEmpty(c)  PROVE Ex4Inv'
<1>1. /\ Moved(consumer4, consumer4', c, Consumers) /\ consumer4[c] \in {"release", "release_last"}
      /\ consumer4'[c] = IF consumer4[c] = "release" THEN "wait" ELSE "chain"
      BY DEF Ex4Inv, Ex4TypeOK, Ex4PostEmpty, Moved
<1>2. /\ Num(consumer4', {"take"}) = Num(consumer4, {"take"})
      /\ Num(consumer4', {"release", "release_last"})
             = Num(consumer4, {"release", "release_last"}) - 1
  <2>1. consumer4'[c] \notin {"release", "release_last"} /\ consumer4'[c] \notin {"take"}
        /\ consumer4[c] \notin {"take"}
        BY <1>1
  <2> QED  BY <1>1, <2>1, Moves, ThreadsAreFinite
<1>3. UNCHANGED <<queue4, head4, tail4, produced4, consumed4, full4, producer4, value4, stored4, taken4>>
      /\ empty4' = empty4 + 1
      BY DEF Ex4PostEmpty
<1>4. Ex4TypeOK'  BY DEF Ex4Inv, Ex4TypeOK, Ex4PostEmpty
<1>5. Held4' = Held4  BY <1>3 DEF Held4
<1>6. RingHolds4'  BY <1>3, <1>5 DEF Ex4Inv, RingHolds4
<1>7. EmptyCounts4'
  <2>1. /\ Num(producer4, {"store"}) \in Nat /\ empty4 \in Nat /\ Held4 \in Int
        /\ Num(consumer4, {"release", "release_last"}) \in Nat
        BY Ex4Counts DEF Ex4Inv
  <2> QED  BY <1>2, <1>3, <1>5, <2>1 DEF Ex4Inv, EmptyCounts4
<1>8. FullCounts4'
  <2>1. ASSUME consumed4 < MESSAGE_COUNT, NEW d \in Consumers
        PROVE  consumer4'[d] \in {"wait", "take", "release"}
        BY <1>1, <2>1 DEF Ex4Inv, FullCounts4, Moved
  <2> QED  BY <1>2, <1>3, <1>5, <2>1 DEF Ex4Inv, FullCounts4
<1> QED  BY <1>4, <1>6, <1>7, <1>8 DEF Ex4Inv

LEMMA Ex4ChainKeeps ==
    ASSUME Ex4Inv, NEW c \in Consumers, Ex4Chain(c)  PROVE Ex4Inv'
<1>1. Moved(consumer4, consumer4', c, Consumers) /\ consumer4[c] = "chain" /\ consumer4'[c] = "returned"
      BY DEF Ex4Inv, Ex4TypeOK, Ex4Chain, Moved
<1>2. Num(consumer4', {"release", "release_last"}) = Num(consumer4, {"release", "release_last"})
      BY <1>1, Moves, ThreadsAreFinite
<1>3. UNCHANGED <<queue4, head4, tail4, produced4, consumed4, empty4, producer4, value4, stored4, taken4>>
      BY DEF Ex4Chain
<1>4. Ex4TypeOK'  BY DEF Ex4Inv, Ex4TypeOK, Ex4Chain
<1>5. Held4' = Held4  BY <1>3 DEF Held4
<1>6. RingHolds4'  BY <1>3, <1>5 DEF Ex4Inv, RingHolds4
<1>7. EmptyCounts4'  BY <1>2, <1>3, <1>5 DEF Ex4Inv, EmptyCounts4
<1>8. FullCounts4'  BY <1>1, <1>3 DEF Ex4Inv, FullCounts4
<1> QED  BY <1>4, <1>6, <1>7, <1>8 DEF Ex4Inv

LEMMA Ex4Keeps == Ex4Inv /\ [EX4]_ex4Vars => Ex4Inv'
<1>1. ASSUME Ex4Inv, UNCHANGED ex4Vars  PROVE Ex4Inv'
  <2>1. UNCHANGED <<queue4, head4, tail4, produced4, consumed4, empty4, full4,
                    producer4, consumer4, value4, stored4, taken4>>
        BY <1>1 DEF ex4Vars
  <2>2. Held4' = Held4  BY <2>1 DEF Held4
  <2> QED  BY <1>1, <2>1, <2>2 DEF Ex4Inv, Ex4TypeOK, RingHolds4, EmptyCounts4, FullCounts4
<1>2. ASSUME Ex4Inv, NEW c \in Consumers, Ex4Take(c)  PROVE Ex4Inv'
  <2>1. consumed4 < MESSAGE_COUNT \/ consumed4 >= MESSAGE_COUNT
        BY <1>2, CountsAssumption DEF Ex4Inv, Ex4TypeOK
  <2> QED  BY <1>2, <2>1, Ex4TakeKeeps, Ex4FindNothingKeeps
<1> QED  BY <1>1, <1>2, Ex4ClaimKeeps, Ex4WaitEmptyKeeps, Ex4StoreKeeps, Ex4PostFullKeeps,
            Ex4WaitFullKeeps, Ex4PostEmptyKeeps, Ex4ChainKeeps
         DEF EX4, Ex4Producer, Ex4Consumer

LEMMA Ex4IsFifo == Ex4Inv => Ex4RingIsFifo
<1> SUFFICES ASSUME Ex4Inv  PROVE Ex4RingIsFifo  OBVIOUS
<1>1. /\ stored4 \in Seq(Messages) /\ taken4 \in Seq(Messages)
      /\ Len(taken4) \in Nat /\ Len(stored4) \in Nat /\ Len(taken4) <= Len(stored4)
      BY DEF Ex4Inv, Ex4TypeOK, RingHolds4, Held4
<1>2. \A i \in 1 .. Len(taken4) : taken4[i] = stored4[i]  BY DEF Ex4Inv, RingHolds4
<1>3. SubSeq(stored4, 1, Len(taken4)) = [i \in 1 .. Len(taken4) |-> stored4[i]]
      BY <1>1
<1>4. taken4 = [i \in 1 .. Len(taken4) |-> taken4[i]]  BY <1>1
<1> QED  BY <1>1, <1>2, <1>3, <1>4 DEF Ex4RingIsFifo

-----------------------------------------------------------------------------
(* EX5: the shares of n threads divide the messages. *)

\* The shares of the threads before i.
First(i, n) == i * (MESSAGE_COUNT \div n)
               + (IF i < MESSAGE_COUNT % n THEN i ELSE MESSAGE_COUNT % n)

LEMMA SharesAddUp ==
    ASSUME NEW n \in Nat \ {0}
    PROVE  /\ First(0, n) = 0 /\ First(n, n) = MESSAGE_COUNT
           /\ \A i \in 0 .. n : First(i, n) \in Nat
           /\ \A i \in 0 .. n - 1 : Share(i, n) \in Nat /\ First(i + 1, n) = First(i, n) + Share(i, n)
           /\ \A i, j \in 0 .. n : i <= j => First(i, n) <= First(j, n)
<1> DEFINE q == MESSAGE_COUNT \div n
           r == MESSAGE_COUNT % n
           F(i) == i * q + (IF i < r THEN i ELSE r)
           S(i) == q + (IF i < r THEN 1 ELSE 0)
<1>1. MESSAGE_COUNT \in Nat  BY CountsAssumption
<1>2. q \in Int /\ r \in 0 .. n - 1  BY <1>1
<1>3. MESSAGE_COUNT - r = n * q  BY <1>1
<1>4. (\A i : First(i, n) = F(i)) /\ \A i : Share(i, n) = S(i)  BY DEF First, Share
<1> HIDE DEF q, r
<1>5. q \in Nat
  <2>1. ASSUME q < 0  PROVE FALSE
    <3>1. q <= -1  BY <1>2, <2>1
    <3>2. n * q <= -n  BY <1>2, <3>1
    <3> QED  BY <1>1, <1>2, <1>3, <3>2
  <2> QED  BY <1>2, <2>1
<1>6. F(0) = 0 /\ F(n) = MESSAGE_COUNT
  <2>1. 0 * q = 0 /\ n * q \in Int  BY <1>5
  <2>2. F(n) = n * q + r  BY <1>2
  <2>3. F(0) = 0  BY <1>2, <2>1
  <2> QED  BY <1>1, <1>2, <1>3, <2>1, <2>2, <2>3
<1>7. ASSUME NEW i \in 0 .. n  PROVE i * q \in Nat /\ F(i) \in Nat
  <2>1. i * q \in Nat  BY <1>5
  <2> QED  BY <1>2, <2>1
<1>8. ASSUME NEW i \in 0 .. n - 1  PROVE S(i) \in Nat /\ F(i + 1) = F(i) + S(i)
  <2>1. (i + 1) * q = i * q + q /\ i * q \in Nat  BY <1>5
  <2> DEFINE a == i * q  b == (i + 1) * q
  <2> HIDE DEF a, b
  <2>2. b = a + q /\ a \in Nat  BY <2>1 DEF a, b
  <2>3. F(i) = a + (IF i < r THEN i ELSE r) /\ F(i + 1) = b + (IF i + 1 < r THEN i + 1 ELSE r)
        BY DEF a, b
  <2> QED  BY <1>2, <1>5, <2>2, <2>3
<1>9. ASSUME NEW i \in 0 .. n, NEW j \in 0 .. n, i <= j  PROVE F(i) <= F(j)
  <2>1. i * q <= j * q /\ i * q \in Nat /\ j * q \in Nat
    <3>1. j * q = i * q + (j - i) * q  BY <1>5
    <3>2. (j - i) * q \in Nat  BY <1>5, <1>9
    <3>3. i * q \in Nat  BY <1>5
    <3> QED  BY <3>1, <3>2, <3>3
  <2> DEFINE a == i * q  b == j * q
  <2> HIDE DEF a, b
  <2>2. a <= b /\ a \in Nat /\ b \in Nat  BY <2>1 DEF a, b
  <2>3. F(i) = a + (IF i < r THEN i ELSE r) /\ F(j) = b + (IF j < r THEN j ELSE r)
        BY DEF a, b
  <2> QED  BY <1>2, <1>9, <2>2, <2>3
<1> HIDE DEF F, S
<1> QED  BY <1>4, <1>6, <1>7, <1>8, <1>9

\* Each message is in the share of a thread.
LEMMA EachInAShare ==
    ASSUME NEW n \in Nat \ {0}, NEW m \in Messages
    PROVE  \E i \in 0 .. n - 1 : First(i, n) <= m /\ m < First(i, n) + Share(i, n)
<1>1. m \in Nat /\ m < MESSAGE_COUNT  BY CountsAssumption DEF Messages
<1> DEFINE T == {j \in 0 .. n : m < First(j, n)}
<1>2. n \in T  BY <1>1, SharesAddUp
<1>3. T \subseteq Nat  OBVIOUS
<1>4. PICK j \in T : \A k \in T : ~ (<<k, j>> \in OpToRel(<, Nat))
  <2> HIDE DEF T
  <2> QED  BY <1>2, <1>3, NatLessThanWellFounded, WFMin
<1>5. \A k \in T : ~ (k < j)  BY <1>3, <1>4 DEF OpToRel
<1>6. j # 0  BY <1>1, SharesAddUp
<1>7. j - 1 \in 0 .. n - 1 /\ j - 1 \notin T /\ j - 1 \in 0 .. n  BY <1>5, <1>6
<1>8. First(j - 1, n) \in Nat /\ First(j - 1, n) <= m  BY <1>1, <1>7, SharesAddUp
<1>9. First(j - 1 + 1, n) = First(j - 1, n) + Share(j - 1, n)  BY <1>7, SharesAddUp
<1>10. j - 1 + 1 = j  BY <1>6
<1> QED  BY <1>7, <1>8, <1>9, <1>10

\* The shares are disjoint: a thread and a number in its share are a message.
Shared(n) == {x \in (0 .. n - 1) \X Messages : x[2] < Share(x[1], n)}

LEMMA InShare ==
    ASSUME NEW n \in Nat \ {0}, NEW i \in 0 .. n - 1, NEW k \in Nat, k < Share(i, n)
    PROVE  First(i, n) + k \in Messages /\ k \in Messages
<1>1. i \in 0 .. n /\ i + 1 \in 0 .. n /\ n \in 0 .. n /\ i + 1 <= n  OBVIOUS
<1>2. First(i + 1, n) = First(i, n) + Share(i, n) /\ First(i, n) \in Nat /\ Share(i, n) \in Nat
      /\ First(i + 1, n) <= First(n, n) /\ First(n, n) = MESSAGE_COUNT
      BY <1>1, SharesAddUp
<1> QED  BY <1>2, CountsAssumption DEF Messages

LEMMA SharesAreApart ==
    ASSUME NEW n \in Nat \ {0}, NEW i \in 0 .. n - 1, NEW j \in 0 .. n - 1, i < j,
           NEW k \in Nat, k < Share(i, n), NEW l \in Nat
    PROVE  First(i, n) + k # First(j, n) + l
<1>1. i \in 0 .. n /\ i + 1 \in 0 .. n /\ j \in 0 .. n /\ i + 1 <= j  OBVIOUS
<1>2. First(i + 1, n) = First(i, n) + Share(i, n) /\ First(i, n) \in Nat /\ Share(i, n) \in Nat
      /\ First(i + 1, n) <= First(j, n) /\ First(j, n) \in Nat
      BY <1>1, SharesAddUp
<1> QED  BY <1>2

LEMMA SharesAreAll ==
    ASSUME NEW n \in Nat \ {0}
    PROVE  IsFiniteSet(Shared(n)) /\ Cardinality(Shared(n)) = MESSAGE_COUNT
<1> DEFINE f == [x \in Shared(n) |-> First(x[1], n) + x[2]]
<1>1. \A x \in Shared(n) : /\ x[1] \in 0 .. n - 1 /\ x[2] \in Nat /\ x[2] < Share(x[1], n)
                           /\ x = <<x[1], x[2]>>
      BY CountsAssumption DEF Shared, Messages
<1>2. f \in [Shared(n) -> Messages]  BY <1>1, InShare
<1>3. ASSUME NEW x \in Shared(n), NEW y \in Shared(n), f[x] = f[y]  PROVE x = y
  <2>1. First(x[1], n) + x[2] = First(y[1], n) + y[2]  BY <1>3
  <2>2. ~ (x[1] < y[1]) /\ ~ (y[1] < x[1])  BY <1>1, <2>1, SharesAreApart
  <2>3. x[1] = y[1]  BY <1>1, <2>2
  <2>4. x[1] \in 0 .. n  BY <1>1
  <2>5. First(x[1], n) \in Nat  BY <2>4, SharesAddUp
  <2>6. x[2] = y[2]  BY <1>1, <2>1, <2>3, <2>5
  <2> QED  BY <1>1, <2>3, <2>6
<1>4. ASSUME NEW m \in Messages  PROVE \E x \in Shared(n) : f[x] = m
  <2>1. PICK i \in 0 .. n - 1 : First(i, n) <= m /\ m < First(i, n) + Share(i, n)
        BY EachInAShare
  <2>2. i \in 0 .. n /\ m \in Nat  BY CountsAssumption DEF Messages
  <2>3. First(i, n) \in Nat /\ Share(i, n) \in Nat  BY <2>2, SharesAddUp
  <2>4. m - First(i, n) \in Nat /\ m - First(i, n) < Share(i, n)  BY <2>1, <2>2, <2>3
  <2>5. m - First(i, n) \in Messages  BY <2>4, InShare
  <2>6. <<i, m - First(i, n)>> \in Shared(n)  BY <2>4, <2>5 DEF Shared
  <2>7. f[<<i, m - First(i, n)>>] = m  BY <2>2, <2>3, <2>6
  <2> QED  BY <2>6, <2>7
<1> HIDE DEF f
<1>5. f \in Injection(Shared(n), Messages)  BY <1>2, <1>3 DEF Injection, IsInjective
<1>6. f \in Surjection(Shared(n), Messages)  BY <1>2, <1>4 DEF Surjection
<1>7. IsFiniteSet(Messages) /\ Cardinality(Messages) = MESSAGE_COUNT
  <2>1. 0 \in Int /\ MESSAGE_COUNT - 1 \in Int  BY CountsAssumption
  <2>2. IsFiniteSet(0 .. MESSAGE_COUNT - 1)  BY <2>1, FS_Interval
  <2>3. Cardinality(0 .. MESSAGE_COUNT - 1)
            = IF 0 > MESSAGE_COUNT - 1 THEN 0 ELSE MESSAGE_COUNT - 1 - 0 + 1
        BY <2>1, FS_Interval
  <2> QED  BY <2>1, <2>2, <2>3, CountsAssumption DEF Messages
<1> QED  BY <1>5, <1>6, <1>7, FS_Injection

-----------------------------------------------------------------------------
(* EX5: its inductive invariant. *)

\* The places between a semaphore's wait and the step forward of an index.
Claiming == {"lock", "write", "advance"}
Admitted == {"lock", "read", "advance"}

\* What each thread has put into the ring, taken out of it: it counts from the step forward.
WrittenBy == [p \in Producers |-> sent5[p] + (IF producer5[p] = "post" THEN 1 ELSE 0)]
ReadBy == [c \in Consumers |-> Len(received5[c]) + (IF consumer5[c] = "post" THEN 1 ELSE 0)]

Ex5TypeOK ==
    /\ buffer5 \in [Slots -> Messages \cup {NoMessage}]
    /\ readIndex5 \in Slots /\ writeIndex5 \in Slots /\ empty5 \in Nat /\ full5 \in Nat
    /\ readMutex5 \in Consumers \cup {NoMessage} /\ writeMutex5 \in Producers \cup {NoMessage}
    /\ producer5 \in [Producers -> Claiming \cup {"next", "post"}]
    /\ consumer5 \in [Consumers -> Admitted \cup {"next", "post"}]
    /\ sent5 \in [Producers -> Nat] /\ received5 \in [Consumers -> Seq(Messages)]
    /\ value5 \in [Consumers -> Messages \cup {NoMessage}]

\* No thread goes beyond its share, and one that was admitted has not used it up.
WithinShares5 ==
    /\ \A p \in Producers : /\ WrittenBy[p] <= Share(p, NUM_PRODUCERS)
                            /\ producer5[p] \in Claiming => sent5[p] < Share(p, NUM_PRODUCERS)
    /\ \A c \in Consumers :
          /\ ReadBy[c] <= Share(c, NUM_CONSUMERS)
          /\ consumer5[c] \in Admitted => Len(received5[c]) < Share(c, NUM_CONSUMERS)

Owners5 ==
    /\ \A p \in Producers : producer5[p] \in {"write", "advance"} <=> writeMutex5 = p
    /\ \A c \in Consumers : consumer5[c] \in {"read", "advance"} <=> readMutex5 = c

\* What is stored was posted, is about to be, or has admitted a consumer; it lies in a row.
Ring5 ==
    /\ full5 + Num(producer5, {"post"}) + Num(consumer5, Admitted) = Stored
    /\ writeIndex5 = Slot(readIndex5, Stored)
    /\ \A k \in 0 .. Stored - 1 : buffer5[Slot(readIndex5, k)] \in Messages

Values5 ==
    /\ \A p \in Producers : producer5[p] = "advance" => buffer5[writeIndex5] = Start(p) + sent5[p]
    /\ \A c \in Consumers : /\ consumer5[c] = "advance" => value5[c] = buffer5[readIndex5]
                            /\ consumer5[c] = "post" => value5[c] \in Messages

\* Each message that was put into the ring is still there or was handed to a consumer.
Handed5(m) ==
    \E c \in Consumers : \/ \E i \in DOMAIN received5[c] : received5[c][i] = m
                         \/ consumer5[c] = "post" /\ value5[c] = m
Found5(m) == Handed5(m) \/ \E k \in 0 .. Stored - 1 : buffer5[Slot(readIndex5, k)] = m
SentAreSomewhere5 ==
    \A p \in Producers : \A k \in Messages : k < WrittenBy[p] => Found5(Start(p) + k)

\* What was put in is what was taken out and what is stored, by number.
Pairs(count, threads) == {x \in threads \X Messages : x[2] < count[x[1]]}
Paired5 == Cardinality(Pairs(WrittenBy, Producers))
               = Cardinality(Pairs(ReadBy, Consumers)) + Stored

Ex5Inv == /\ Ex5TypeOK /\ WithinShares5 /\ Owners5 /\ Ring5 /\ Values5
          /\ SentAreSomewhere5 /\ Paired5

LEMMA Ex5Counts ==
    ASSUME Ex5TypeOK
    PROVE  /\ Num(producer5, Claiming) \in Nat /\ Num(producer5, {"post"}) \in Nat
           /\ Num(consumer5, Admitted) \in Nat /\ Num(consumer5, {"post"}) \in Nat
           /\ Stored = QUEUE_CAPACITY - empty5 - Num(producer5, Claiming) - Num(consumer5, {"post"})
           /\ Stored \in Int /\ empty5 \in Nat /\ full5 \in Nat
           /\ QUEUE_CAPACITY \in Nat /\ QUEUE_CAPACITY > 0
<1>1. DOMAIN producer5 = Producers /\ DOMAIN consumer5 = Consumers  BY DEF Ex5TypeOK
<1>2. /\ Num(producer5, Claiming) \in Nat /\ Num(producer5, {"post"}) \in Nat
      /\ Num(consumer5, Admitted) \in Nat /\ Num(consumer5, {"post"}) \in Nat
      BY <1>1, NumBounds, ThreadsAreFinite
<1>3. {p \in Producers : producer5[p] \in {"lock", "write", "advance"}}
          = {p \in Producers : producer5[p] \in Claiming}
      BY DEF Claiming
<1>4. {c \in Consumers : consumer5[c] = "post"} = {c \in Consumers : consumer5[c] \in {"post"}}
      OBVIOUS
<1>5. Stored = QUEUE_CAPACITY - empty5 - Num(producer5, Claiming) - Num(consumer5, {"post"})
      BY <1>1, <1>3, <1>4 DEF Stored, Num
<1> QED  BY <1>2, <1>5, CountsAssumption DEF Ex5TypeOK

\* The same of the state after a step.
LEMMA StoredThen ==
    ASSUME DOMAIN producer5' = Producers, DOMAIN consumer5' = Consumers
    PROVE  Stored' = QUEUE_CAPACITY - empty5' - Num(producer5', Claiming) - Num(consumer5', {"post"})
<1>1. {p \in Producers : producer5'[p] \in {"lock", "write", "advance"}}
          = {p \in Producers : producer5'[p] \in Claiming}
      BY DEF Claiming
<1>2. {c \in Consumers : consumer5'[c] = "post"} = {c \in Consumers : consumer5'[c] \in {"post"}}
      OBVIOUS
<1> QED  BY <1>1, <1>2 DEF Stored, Num

LEMMA StoredBounds ==
    ASSUME Ex5Inv
    PROVE  /\ Stored \in 0 .. QUEUE_CAPACITY
           /\ \A p \in Producers : producer5[p] \in Claiming => Stored < QUEUE_CAPACITY
           /\ \A c \in Consumers : consumer5[c] \in Admitted => Stored > 0
<1>1. DOMAIN producer5 = Producers /\ DOMAIN consumer5 = Consumers  BY DEF Ex5Inv, Ex5TypeOK
<1>2. ASSUME NEW p \in Producers, producer5[p] \in Claiming  PROVE Num(producer5, Claiming) >= 1
      BY <1>1, <1>2, NumBounds, ThreadsAreFinite
<1>3. ASSUME NEW c \in Consumers, consumer5[c] \in Admitted  PROVE Num(consumer5, Admitted) >= 1
      BY <1>1, <1>3, NumBounds, ThreadsAreFinite
<1>4. /\ full5 + Num(producer5, {"post"}) + Num(consumer5, Admitted) = Stored
      /\ Num(producer5, Claiming) \in Nat /\ Num(producer5, {"post"}) \in Nat
      /\ Num(consumer5, Admitted) \in Nat /\ Num(consumer5, {"post"}) \in Nat
      /\ Stored = QUEUE_CAPACITY - empty5 - Num(producer5, Claiming) - Num(consumer5, {"post"})
      /\ empty5 \in Nat /\ full5 \in Nat /\ QUEUE_CAPACITY \in Nat
      BY Ex5Counts DEF Ex5Inv, Ring5
<1> QED  BY <1>2, <1>3, <1>4

\* One more of a thread is one more pair.
LEMMA OnePairMore ==
    ASSUME NEW threads, IsFiniteSet(threads), NEW f \in [threads -> Nat], NEW g \in [threads -> Nat],
           NEW i \in threads, f[i] \in Messages, g[i] = f[i] + 1, \A j \in threads \ {i} : g[j] = f[j]
    PROVE  Cardinality(Pairs(g, threads)) = Cardinality(Pairs(f, threads)) + 1
<1>1. IsFiniteSet(Messages)  BY CountsAssumption, FS_Interval DEF Messages
<1>2. IsFiniteSet(threads \X Messages)  BY <1>1, FS_Product
<1>3. IsFiniteSet(Pairs(f, threads))
  <2>1. Pairs(f, threads) \subseteq threads \X Messages  BY DEF Pairs
  <2> QED  BY <1>2, <2>1, FS_Subset
<1>4. \A m \in Messages : m \in Nat  BY CountsAssumption DEF Messages
<1>5. <<i, f[i]>> \notin Pairs(f, threads)  BY <1>4 DEF Pairs
<1>6. ASSUME NEW j \in threads, NEW m \in Messages
      PROVE  <<j, m>> \in Pairs(g, threads) <=> <<j, m>> \in Pairs(f, threads) \cup {<<i, f[i]>>}
      BY <1>4 DEF Pairs
<1>7. Pairs(g, threads) = Pairs(f, threads) \cup {<<i, f[i]>>}
  <2>1. Pairs(g, threads) \subseteq threads \X Messages  BY DEF Pairs
  <2>2. Pairs(f, threads) \cup {<<i, f[i]>>} \subseteq threads \X Messages  BY DEF Pairs
  <2> QED  BY <1>6, <2>1, <2>2
<1> QED  BY <1>3, <1>5, <1>7, FS_AddElement

\* A step that moves nothing into the ring or out of it.
Elements5 == [i \in 1 .. Stored |-> buffer5[(readIndex5 + i - 1) % QUEUE_CAPACITY]]
Returned5 == [c \in Consumers |-> IF consumer5[c] = "post" THEN Append(received5[c], value5[c])
                                                          ELSE received5[c]]
Quiet5 == /\ Stored' = Stored /\ readIndex5' = readIndex5
          /\ \A k \in 0 .. Stored - 1 : buffer5'[Slot(readIndex5, k)] = buffer5[Slot(readIndex5, k)]
          /\ Returned5' = Returned5

LEMMA Ex5QuietKeeps ==
    ASSUME Ex5Inv, UNCHANGED <<readIndex5, writeIndex5>>, Stored' = Stored,
           WrittenBy' = WrittenBy, ReadBy' = ReadBy,
           full5' + Num(producer5', {"post"}) + Num(consumer5', Admitted)
               = full5 + Num(producer5, {"post"}) + Num(consumer5, Admitted),
           \A k \in 0 .. Stored - 1 : buffer5'[Slot(readIndex5, k)] = buffer5[Slot(readIndex5, k)],
           \A m \in Int : Handed5(m) => Handed5(m)'
    PROVE  Ring5' /\ SentAreSomewhere5' /\ Paired5'
<1>1. Ring5'  BY DEF Ex5Inv, Ring5
<1>2. SentAreSomewhere5'
  <2> SUFFICES ASSUME NEW p \in Producers, NEW k \in Messages, k < WrittenBy[p]
               PROVE  Found5(Start(p) + k)'
      BY DEF SentAreSomewhere5
  <2>1. Found5(Start(p) + k)  BY DEF Ex5Inv, SentAreSomewhere5
  <2>2. Start(p) + k \in Int
    <3>1. p \in 0 .. NUM_PRODUCERS /\ NUM_PRODUCERS \in Nat \ {0} /\ k \in Int
          BY CountsAssumption DEF Producers, Messages
    <3>2. First(p, NUM_PRODUCERS) \in Nat  BY <3>1, SharesAddUp
    <3>3. Start(p) = First(p, NUM_PRODUCERS)  BY DEF Start, First
    <3> QED  BY <3>1, <3>2, <3>3
  <2> DEFINE m == Start(p) + k
  <2> HIDE DEF m
  <2>3. Found5(m) /\ m \in Int  BY <2>1, <2>2 DEF m
  <2>4. Found5(m)'  BY <2>3 DEF Found5
  <2> QED  BY <2>4 DEF m
<1>3. Paired5'  BY DEF Ex5Inv, Paired5
<1> QED  BY <1>1, <1>2, <1>3

LEMMA Ex5WaitEmptyKeeps ==
    ASSUME Ex5Inv, NEW p \in Producers, Ex5WaitEmpty(p)  PROVE Ex5Inv' /\ Quiet5
<1>1. Moved(producer5, producer5', p, Producers) /\ producer5[p] = "next" /\ producer5'[p] = "lock"
      BY DEF Ex5Inv, Ex5TypeOK, Ex5WaitEmpty, ProducerGoes, Moved
<1>2. /\ Num(producer5', Claiming) = Num(producer5, Claiming) + 1
      /\ Num(producer5', {"post"}) = Num(producer5, {"post"})
      BY <1>1, Moves, ThreadsAreFinite DEF Claiming
<1>3. /\ UNCHANGED <<buffer5, readIndex5, writeIndex5, full5, readMutex5, writeMutex5, consumer5,
                     sent5, received5, value5>>
      /\ empty5' = empty5 - 1 /\ empty5 > 0 /\ sent5[p] < Share(p, NUM_PRODUCERS)
      BY DEF Ex5WaitEmpty
<1>4. Ex5TypeOK'
      BY <1>3 DEF Ex5Inv, Ex5TypeOK, Ex5WaitEmpty, ProducerGoes, Claiming
<1>5. Stored' = Stored
  <2>1. DOMAIN producer5' = Producers /\ DOMAIN consumer5' = Consumers  BY <1>4 DEF Ex5TypeOK
  <2>2. Stored' = QUEUE_CAPACITY - empty5' - Num(producer5', Claiming) - Num(consumer5', {"post"})
        BY <2>1, StoredThen
  <2>3. /\ Num(producer5, Claiming) \in Nat /\ Num(consumer5, {"post"}) \in Nat
        /\ Stored = QUEUE_CAPACITY - empty5 - Num(producer5, Claiming) - Num(consumer5, {"post"})
        /\ empty5 \in Nat /\ QUEUE_CAPACITY \in Nat
        BY Ex5Counts DEF Ex5Inv
  <2> QED  BY <1>2, <1>3, <2>2, <2>3
<1>6. WrittenBy' = WrittenBy /\ ReadBy' = ReadBy
  <2>1. \A q \in Producers : producer5'[q] = "post" <=> producer5[q] = "post"  BY <1>1 DEF Moved
  <2> QED  BY <1>3, <2>1 DEF WrittenBy, ReadBy
<1>7. Ring5' /\ SentAreSomewhere5' /\ Paired5'
  <2>1. \A m \in Int : Handed5(m) => Handed5(m)'  BY <1>3 DEF Handed5
  <2> QED  BY <1>2, <1>3, <1>5, <1>6, <2>1, Ex5QuietKeeps
<1>8. WithinShares5'  BY <1>1, <1>3, <1>6 DEF Ex5Inv, WithinShares5, Moved
<1>9. Owners5'  BY <1>1, <1>3 DEF Ex5Inv, Owners5, Moved
<1>10. Values5'  BY <1>1, <1>3 DEF Ex5Inv, Values5, Moved
<1>11. Quiet5  BY <1>3, <1>5 DEF Quiet5, Returned5
<1> QED  BY <1>4, <1>7, <1>8, <1>9, <1>10, <1>11 DEF Ex5Inv

LEMMA Ex5LockWriteKeeps ==
    ASSUME Ex5Inv, NEW p \in Producers, Ex5LockWrite(p)  PROVE Ex5Inv' /\ Quiet5
<1>1. Moved(producer5, producer5', p, Producers) /\ producer5[p] = "lock" /\ producer5'[p] = "write"
      BY DEF Ex5Inv, Ex5TypeOK, Ex5LockWrite, ProducerGoes, Moved
<1>2. /\ Num(producer5', Claiming) = Num(producer5, Claiming)
      /\ Num(producer5', {"post"}) = Num(producer5, {"post"})
      BY <1>1, Moves, ThreadsAreFinite DEF Claiming
<1>3. /\ UNCHANGED <<buffer5, readIndex5, writeIndex5, empty5, full5, readMutex5, consumer5,
                     sent5, received5, value5>>
      /\ writeMutex5 = NoMessage /\ writeMutex5' = p
      BY DEF Ex5LockWrite
<1>4. Ex5TypeOK'
      BY <1>3 DEF Ex5Inv, Ex5TypeOK, Ex5LockWrite, ProducerGoes, Claiming
<1>5. Stored' = Stored
  <2>1. DOMAIN producer5' = Producers /\ DOMAIN consumer5' = Consumers  BY <1>4 DEF Ex5TypeOK
  <2> QED  BY <1>2, <1>3, <2>1, StoredThen, Ex5Counts DEF Ex5Inv
<1>6. WrittenBy' = WrittenBy /\ ReadBy' = ReadBy
  <2>1. \A q \in Producers : producer5'[q] = "post" <=> producer5[q] = "post"  BY <1>1 DEF Moved
  <2> QED  BY <1>3, <2>1 DEF WrittenBy, ReadBy
<1>7. Ring5' /\ SentAreSomewhere5' /\ Paired5'
  <2>1. \A m \in Int : Handed5(m) => Handed5(m)'  BY <1>3 DEF Handed5
  <2> QED  BY <1>2, <1>3, <1>5, <1>6, <2>1, Ex5QuietKeeps
<1>8. WithinShares5'  BY <1>1, <1>3, <1>6 DEF Ex5Inv, WithinShares5, Moved, Claiming
<1>9. Owners5'
  <2>1. \A q \in Producers : producer5[q] \notin {"write", "advance"}
        BY <1>3, ThreadsAreFinite DEF Ex5Inv, Owners5
  <2> QED  BY <1>1, <1>3, <2>1 DEF Ex5Inv, Owners5, Moved
<1>10. Values5'  BY <1>1, <1>3 DEF Ex5Inv, Values5, Moved
<1>11. Quiet5  BY <1>3, <1>5 DEF Quiet5, Returned5
<1> QED  BY <1>4, <1>7, <1>8, <1>9, <1>10, <1>11 DEF Ex5Inv

LEMMA Ex5WriteKeeps ==
    ASSUME Ex5Inv, NEW p \in Producers, Ex5Write(p)  PROVE Ex5Inv' /\ Quiet5
<1>1. Moved(producer5, producer5', p, Producers) /\ producer5[p] = "write" /\ producer5'[p] = "advance"
      BY DEF Ex5Inv, Ex5TypeOK, Ex5Write, ProducerGoes, Moved
<1>2. /\ Num(producer5', Claiming) = Num(producer5, Claiming)
      /\ Num(producer5', {"post"}) = Num(producer5, {"post"})
      BY <1>1, Moves, ThreadsAreFinite DEF Claiming
<1>3. /\ UNCHANGED <<readIndex5, writeIndex5, empty5, full5, readMutex5, writeMutex5, consumer5,
                     sent5, received5, value5>>
      /\ buffer5' = [buffer5 EXCEPT ![writeIndex5] = Start(p) + sent5[p]]
      BY DEF Ex5Write
<1>4. /\ sent5[p] < Share(p, NUM_PRODUCERS) /\ sent5[p] \in Nat
      /\ Stored \in 0 .. QUEUE_CAPACITY /\ Stored < QUEUE_CAPACITY
      /\ writeIndex5 = Slot(readIndex5, Stored) /\ writeIndex5 \in Slots /\ readIndex5 \in Slots
      BY <1>1, StoredBounds DEF Ex5Inv, Ex5TypeOK, WithinShares5, Ring5, Claiming
<1>5. Start(p) + sent5[p] \in Messages
  <2>1. NUM_PRODUCERS \in Nat \ {0} /\ p \in 0 .. NUM_PRODUCERS - 1
        BY CountsAssumption DEF Producers
  <2>2. First(p, NUM_PRODUCERS) + sent5[p] \in Messages  BY <1>4, <2>1, InShare
  <2> QED  BY <2>2 DEF Start, First
<1>6. Ex5TypeOK'
  <2>1. buffer5' \in [Slots -> Messages \cup {NoMessage}]
        BY <1>3, <1>5 DEF Ex5Inv, Ex5TypeOK
  <2> QED  BY <1>3, <2>1 DEF Ex5Inv, Ex5TypeOK, Ex5Write, ProducerGoes, Claiming
<1>7. \A k \in 0 .. Stored - 1 : /\ Slot(readIndex5, k) # writeIndex5
                                 /\ buffer5'[Slot(readIndex5, k)] = buffer5[Slot(readIndex5, k)]
  <2> SUFFICES ASSUME NEW k \in 0 .. Stored - 1
               PROVE  /\ Slot(readIndex5, k) # writeIndex5
                      /\ buffer5'[Slot(readIndex5, k)] = buffer5[Slot(readIndex5, k)]
      OBVIOUS
  <2>1. /\ k \in 0 .. QUEUE_CAPACITY - 1 /\ Stored \in 0 .. QUEUE_CAPACITY - 1 /\ k # Stored
        /\ k \in 0 .. QUEUE_CAPACITY
        BY <1>4, CountsAssumption
  <2>2. Slot(readIndex5, k) # writeIndex5  BY <1>4, <2>1, SlotsInARow
  <2>3. Slot(readIndex5, k) \in Slots  BY <1>4, <2>1, SlotIs
  <2> QED  BY <1>3, <2>2, <2>3 DEF Ex5Inv, Ex5TypeOK
<1>8. Stored' = Stored
  <2>1. DOMAIN producer5' = Producers /\ DOMAIN consumer5' = Consumers  BY <1>6 DEF Ex5TypeOK
  <2> QED  BY <1>2, <1>3, <2>1, StoredThen, Ex5Counts DEF Ex5Inv
<1>9. WrittenBy' = WrittenBy /\ ReadBy' = ReadBy
  <2>1. \A q \in Producers : producer5'[q] = "post" <=> producer5[q] = "post"  BY <1>1 DEF Moved
  <2> QED  BY <1>3, <2>1 DEF WrittenBy, ReadBy
<1>10. Ring5' /\ SentAreSomewhere5' /\ Paired5'
  <2>1. \A m \in Int : Handed5(m) => Handed5(m)'  BY <1>3 DEF Handed5
  <2> QED  BY <1>2, <1>3, <1>7, <1>8, <1>9, <2>1, Ex5QuietKeeps
<1>11. WithinShares5'  BY <1>1, <1>3, <1>9 DEF Ex5Inv, WithinShares5, Moved, Claiming
<1>12. Owners5'  BY <1>1, <1>3 DEF Ex5Inv, Owners5, Moved
<1>13. Values5'
  <2>1. ASSUME NEW q \in Producers, producer5'[q] = "advance"
        PROVE  buffer5'[writeIndex5] = Start(q) + sent5[q]
    <3>1. CASE q = p  BY <1>3, <1>4, <3>1 DEF Ex5Inv, Ex5TypeOK
    <3>2. CASE q # p
      <4>1. producer5[q] = "advance"  BY <1>1, <2>1, <3>2 DEF Moved
      <4>2. writeMutex5 = q /\ writeMutex5 = p  BY <1>1, <4>1 DEF Ex5Inv, Owners5
      <4> QED  BY <3>2, <4>2
    <3> QED  BY <3>1, <3>2
  <2>2. ASSUME NEW c \in Consumers, consumer5[c] = "advance"
        PROVE  value5[c] = buffer5'[readIndex5]
    <3>1. Stored > 0  BY <2>2, StoredBounds DEF Admitted
    <3>2. 0 \in 0 .. Stored - 1  BY <1>4, <3>1
    <3>3. Slot(readIndex5, 0) = readIndex5  BY <1>4, SlotsInARow
    <3>4. buffer5'[readIndex5] = buffer5[readIndex5]  BY <1>7, <3>2, <3>3
    <3> QED  BY <2>2, <3>4 DEF Ex5Inv, Values5
  <2> QED  BY <1>3, <2>1, <2>2 DEF Ex5Inv, Values5
<1>14. Quiet5  BY <1>3, <1>7, <1>8 DEF Quiet5, Returned5
<1> QED  BY <1>6, <1>10, <1>11, <1>12, <1>13, <1>14 DEF Ex5Inv

LEMMA Ex5PostFullKeeps ==
    ASSUME Ex5Inv, NEW p \in Producers, Ex5PostFull(p)  PROVE Ex5Inv' /\ Quiet5
<1>1. Moved(producer5, producer5', p, Producers) /\ producer5[p] = "post" /\ producer5'[p] = "next"
      BY DEF Ex5Inv, Ex5TypeOK, Ex5PostFull, ProducerGoes, Moved
<1>2. /\ Num(producer5', Claiming) = Num(producer5, Claiming)
      /\ Num(producer5', {"post"}) = Num(producer5, {"post"}) - 1
      BY <1>1, Moves, ThreadsAreFinite DEF Claiming
<1>3. /\ UNCHANGED <<buffer5, readIndex5, writeIndex5, empty5, readMutex5, writeMutex5, consumer5,
                     received5, value5>>
      /\ full5' = full5 + 1 /\ sent5' = [sent5 EXCEPT ![p] = @ + 1]
      BY DEF Ex5PostFull
<1>4. Ex5TypeOK'
  <2>1. sent5' \in [Producers -> Nat] /\ full5' \in Nat  BY <1>3 DEF Ex5Inv, Ex5TypeOK
  <2> QED  BY <1>3, <2>1 DEF Ex5Inv, Ex5TypeOK, Ex5PostFull, ProducerGoes, Claiming
<1>5. Stored' = Stored
  <2>1. DOMAIN producer5' = Producers /\ DOMAIN consumer5' = Consumers  BY <1>4 DEF Ex5TypeOK
  <2> QED  BY <1>2, <1>3, <2>1, StoredThen, Ex5Counts DEF Ex5Inv
<1>6. WrittenBy' = WrittenBy /\ ReadBy' = ReadBy
  <2>1. ASSUME NEW q \in Producers
        PROVE  sent5'[q] + (IF producer5'[q] = "post" THEN 1 ELSE 0)
                   = sent5[q] + (IF producer5[q] = "post" THEN 1 ELSE 0)
    <3>1. sent5[q] \in Nat /\ sent5'[q] = IF q = p THEN sent5[q] + 1 ELSE sent5[q]
          BY <1>3 DEF Ex5Inv, Ex5TypeOK
    <3> QED  BY <1>1, <3>1 DEF Moved
  <2> QED  BY <1>3, <2>1 DEF WrittenBy, ReadBy
<1>7. Ring5' /\ SentAreSomewhere5' /\ Paired5'
  <2>1. \A m \in Int : Handed5(m) => Handed5(m)'  BY <1>3 DEF Handed5
  <2>2. full5 \in Nat /\ Num(producer5, {"post"}) \in Nat /\ Num(consumer5, Admitted) \in Nat
        BY Ex5Counts DEF Ex5Inv
  <2>3. full5' + Num(producer5', {"post"}) + Num(consumer5', Admitted)
            = full5 + Num(producer5, {"post"}) + Num(consumer5, Admitted)
        BY <1>2, <1>3, <2>2
  <2> QED  BY <1>3, <1>5, <1>6, <2>1, <2>3, Ex5QuietKeeps
<1>8. WithinShares5'
  <2>1. \A q \in Producers : producer5'[q] \in Claiming =>
            producer5[q] \in Claiming /\ sent5'[q] = sent5[q]
        BY <1>1, <1>3 DEF Moved, Claiming, Ex5Inv, Ex5TypeOK
  <2> QED  BY <1>3, <1>6, <2>1 DEF Ex5Inv, WithinShares5
<1>9. Owners5'  BY <1>1, <1>3 DEF Ex5Inv, Owners5, Moved
<1>10. Values5'
  <2>1. \A q \in Producers : producer5'[q] = "advance" =>
            producer5[q] = "advance" /\ sent5'[q] = sent5[q]
        BY <1>1, <1>3 DEF Moved, Ex5Inv, Ex5TypeOK
  <2> QED  BY <1>3, <2>1 DEF Ex5Inv, Values5
<1>11. Quiet5  BY <1>3, <1>5 DEF Quiet5, Returned5
<1> QED  BY <1>4, <1>7, <1>8, <1>9, <1>10, <1>11 DEF Ex5Inv

LEMMA Ex5WaitFullKeeps ==
    ASSUME Ex5Inv, NEW c \in Consumers, Ex5WaitFull(c)  PROVE Ex5Inv' /\ Quiet5
<1>1. Moved(consumer5, consumer5', c, Consumers) /\ consumer5[c] = "next" /\ consumer5'[c] = "lock"
      BY DEF Ex5Inv, Ex5TypeOK, Ex5WaitFull, ConsumerGoes, Moved
<1>2. /\ Num(consumer5', Admitted) = Num(consumer5, Admitted) + 1
      /\ Num(consumer5', {"post"}) = Num(consumer5, {"post"})
      BY <1>1, Moves, ThreadsAreFinite DEF Admitted
<1>3. /\ UNCHANGED <<buffer5, readIndex5, writeIndex5, empty5, readMutex5, writeMutex5, producer5,
                     sent5, received5, value5>>
      /\ full5' = full5 - 1 /\ full5 > 0 /\ Len(received5[c]) < Share(c, NUM_CONSUMERS)
      BY DEF Ex5WaitFull
<1>4. Ex5TypeOK'
      BY <1>3 DEF Ex5Inv, Ex5TypeOK, Ex5WaitFull, ConsumerGoes, Admitted
<1>5. Stored' = Stored
  <2>1. DOMAIN producer5' = Producers /\ DOMAIN consumer5' = Consumers  BY <1>4 DEF Ex5TypeOK
  <2> QED  BY <1>2, <1>3, <2>1, StoredThen, Ex5Counts DEF Ex5Inv
<1>6. \A d \in Consumers : consumer5'[d] = "post" <=> consumer5[d] = "post"  BY <1>1 DEF Moved
<1>7. WrittenBy' = WrittenBy /\ ReadBy' = ReadBy  BY <1>3, <1>6 DEF WrittenBy, ReadBy
<1>8. Ring5' /\ SentAreSomewhere5' /\ Paired5'
  <2>1. \A m \in Int : Handed5(m) => Handed5(m)'  BY <1>3, <1>6 DEF Handed5
  <2>2. full5 \in Nat /\ Num(producer5, {"post"}) \in Nat /\ Num(consumer5, Admitted) \in Nat
        BY Ex5Counts DEF Ex5Inv
  <2>3. full5' + Num(producer5', {"post"}) + Num(consumer5', Admitted)
            = full5 + Num(producer5, {"post"}) + Num(consumer5, Admitted)
        BY <1>2, <1>3, <2>2
  <2> QED  BY <1>3, <1>5, <1>7, <2>1, <2>3, Ex5QuietKeeps
<1>9. WithinShares5'  BY <1>1, <1>3, <1>7 DEF Ex5Inv, WithinShares5, Moved
<1>10. Owners5'  BY <1>1, <1>3 DEF Ex5Inv, Owners5, Moved
<1>11. Values5'  BY <1>1, <1>3 DEF Ex5Inv, Values5, Moved
<1>12. Quiet5  BY <1>3, <1>5, <1>6 DEF Quiet5, Returned5
<1> QED  BY <1>4, <1>8, <1>9, <1>10, <1>11, <1>12 DEF Ex5Inv

LEMMA Ex5LockReadKeeps ==
    ASSUME Ex5Inv, NEW c \in Consumers, Ex5LockRead(c)  PROVE Ex5Inv' /\ Quiet5
<1>1. Moved(consumer5, consumer5', c, Consumers) /\ consumer5[c] = "lock" /\ consumer5'[c] = "read"
      BY DEF Ex5Inv, Ex5TypeOK, Ex5LockRead, ConsumerGoes, Moved
<1>2. /\ Num(consumer5', Admitted) = Num(consumer5, Admitted)
      /\ Num(consumer5', {"post"}) = Num(consumer5, {"post"})
      BY <1>1, Moves, ThreadsAreFinite DEF Admitted
<1>3. /\ UNCHANGED <<buffer5, readIndex5, writeIndex5, empty5, full5, writeMutex5, producer5,
                     sent5, received5, value5>>
      /\ readMutex5 = NoMessage /\ readMutex5' = c
      BY DEF Ex5LockRead
<1>4. Ex5TypeOK'
      BY <1>3 DEF Ex5Inv, Ex5TypeOK, Ex5LockRead, ConsumerGoes, Admitted
<1>5. Stored' = Stored
  <2>1. DOMAIN producer5' = Producers /\ DOMAIN consumer5' = Consumers  BY <1>4 DEF Ex5TypeOK
  <2> QED  BY <1>2, <1>3, <2>1, StoredThen, Ex5Counts DEF Ex5Inv
<1>6. \A d \in Consumers : consumer5'[d] = "post" <=> consumer5[d] = "post"  BY <1>1 DEF Moved
<1>7. WrittenBy' = WrittenBy /\ ReadBy' = ReadBy  BY <1>3, <1>6 DEF WrittenBy, ReadBy
<1>8. Ring5' /\ SentAreSomewhere5' /\ Paired5'
  <2>1. \A m \in Int : Handed5(m) => Handed5(m)'  BY <1>3, <1>6 DEF Handed5
  <2> QED  BY <1>2, <1>3, <1>5, <1>7, <2>1, Ex5QuietKeeps
<1>9. WithinShares5'  BY <1>1, <1>3, <1>7 DEF Ex5Inv, WithinShares5, Moved, Admitted
<1>10. Owners5'
  <2>1. \A d \in Consumers : consumer5[d] \notin {"read", "advance"}
        BY <1>3, ThreadsAreFinite DEF Ex5Inv, Owners5
  <2> QED  BY <1>1, <1>3, <2>1 DEF Ex5Inv, Owners5, Moved
<1>11. Values5'  BY <1>1, <1>3 DEF Ex5Inv, Values5, Moved
<1>12. Quiet5  BY <1>3, <1>5, <1>6 DEF Quiet5, Returned5
<1> QED  BY <1>4, <1>8, <1>9, <1>10, <1>11, <1>12 DEF Ex5Inv

LEMMA Ex5ReadKeeps ==
    ASSUME Ex5Inv, NEW c \in Consumers, Ex5Read(c)  PROVE Ex5Inv' /\ Quiet5
<1>1. Moved(consumer5, consumer5', c, Consumers) /\ consumer5[c] = "read" /\ consumer5'[c] = "advance"
      BY DEF Ex5Inv, Ex5TypeOK, Ex5Read, ConsumerGoes, Moved
<1>2. /\ Num(consumer5', Admitted) = Num(consumer5, Admitted)
      /\ Num(consumer5', {"post"}) = Num(consumer5, {"post"})
      BY <1>1, Moves, ThreadsAreFinite DEF Admitted
<1>3. /\ UNCHANGED <<buffer5, readIndex5, writeIndex5, empty5, full5, readMutex5, writeMutex5,
                     producer5, sent5, received5>>
      /\ value5' = [value5 EXCEPT ![c] = buffer5[readIndex5]]
      BY DEF Ex5Read
<1>4. Ex5TypeOK'
  <2>1. value5' \in [Consumers -> Messages \cup {NoMessage}]  BY <1>3 DEF Ex5Inv, Ex5TypeOK
  <2> QED  BY <1>3, <2>1 DEF Ex5Inv, Ex5TypeOK, Ex5Read, ConsumerGoes, Admitted
<1>5. Stored' = Stored
  <2>1. DOMAIN producer5' = Producers /\ DOMAIN consumer5' = Consumers  BY <1>4 DEF Ex5TypeOK
  <2> QED  BY <1>2, <1>3, <2>1, StoredThen, Ex5Counts DEF Ex5Inv
<1>6. \A d \in Consumers : consumer5'[d] = "post" <=> consumer5[d] = "post"  BY <1>1 DEF Moved
<1>7. WrittenBy' = WrittenBy /\ ReadBy' = ReadBy  BY <1>3, <1>6 DEF WrittenBy, ReadBy
<1>8. \A d \in Consumers : d # c => value5'[d] = value5[d] /\ consumer5'[d] = consumer5[d]
      BY <1>1, <1>3 DEF Moved, Ex5Inv, Ex5TypeOK
<1>9. Ring5' /\ SentAreSomewhere5' /\ Paired5'
  <2>1. \A m \in Int : Handed5(m) => Handed5(m)'
        BY <1>1, <1>3, <1>8 DEF Handed5
  <2> QED  BY <1>2, <1>3, <1>5, <1>7, <2>1, Ex5QuietKeeps
<1>10. WithinShares5'  BY <1>1, <1>3, <1>7 DEF Ex5Inv, WithinShares5, Moved, Admitted
<1>11. Owners5'  BY <1>1, <1>3 DEF Ex5Inv, Owners5, Moved
<1>12. Values5'
  <2>1. ASSUME NEW d \in Consumers
        PROVE  /\ consumer5'[d] = "advance" => value5'[d] = buffer5[readIndex5]
               /\ consumer5'[d] = "post" => value5'[d] \in Messages
    <3>1. CASE d = c  BY <1>1, <1>3, <3>1 DEF Ex5Inv, Ex5TypeOK
    <3>2. CASE d # c  BY <1>8, <3>2 DEF Ex5Inv, Values5
    <3> QED  BY <3>1, <3>2
  <2> QED  BY <1>3, <2>1 DEF Ex5Inv, Values5
<1>13. Quiet5
  <2>1. \A d \in Consumers : consumer5[d] = "post" => value5'[d] = value5[d]  BY <1>1, <1>8
  <2>2. Returned5' = Returned5  BY <1>3, <1>6, <2>1 DEF Returned5
  <2> QED  BY <1>3, <1>5, <2>2 DEF Quiet5
<1> QED  BY <1>4, <1>9, <1>10, <1>11, <1>12, <1>13 DEF Ex5Inv

LEMMA Ex5PostEmptyKeeps ==
    ASSUME Ex5Inv, NEW c \in Consumers, Ex5PostEmpty(c)  PROVE Ex5Inv' /\ Quiet5
<1>1. Moved(consumer5, consumer5', c, Consumers) /\ consumer5[c] = "post" /\ consumer5'[c] = "next"
      BY DEF Ex5Inv, Ex5TypeOK, Ex5PostEmpty, ConsumerGoes, Moved
<1>2. /\ Num(consumer5', Admitted) = Num(consumer5, Admitted)
      /\ Num(consumer5', {"post"}) = Num(consumer5, {"post"}) - 1
      BY <1>1, Moves, ThreadsAreFinite DEF Admitted
<1>3. /\ UNCHANGED <<buffer5, readIndex5, writeIndex5, full5, readMutex5, writeMutex5, producer5,
                     sent5, value5>>
      /\ empty5' = empty5 + 1
      /\ received5' = [received5 EXCEPT ![c] = Append(@, value5[c])]
      BY DEF Ex5PostEmpty
<1>4. value5[c] \in Messages /\ received5[c] \in Seq(Messages)
      BY <1>1 DEF Ex5Inv, Values5, Ex5TypeOK
<1>5. /\ received5'[c] \in Seq(Messages) /\ Len(received5'[c]) = Len(received5[c]) + 1
      /\ Len(received5[c]) \in Nat
      /\ \A i \in DOMAIN received5[c] : i \in DOMAIN received5'[c] /\ received5'[c][i] = received5[c][i]
      /\ Len(received5[c]) + 1 \in DOMAIN received5'[c]
      /\ received5'[c][Len(received5[c]) + 1] = value5[c]
  <2>1. received5'[c] = Append(received5[c], value5[c])  BY <1>3 DEF Ex5Inv, Ex5TypeOK
  <2> QED  BY <1>4, <2>1
<1>6. \A d \in Consumers : d # c => received5'[d] = received5[d] /\ consumer5'[d] = consumer5[d]
      BY <1>1, <1>3 DEF Moved, Ex5Inv, Ex5TypeOK
<1>7. Ex5TypeOK'
  <2>1. received5' \in [Consumers -> Seq(Messages)] /\ empty5' \in Nat
        BY <1>3, <1>4 DEF Ex5Inv, Ex5TypeOK
  <2> QED  BY <1>3, <2>1 DEF Ex5Inv, Ex5TypeOK, Ex5PostEmpty, ConsumerGoes, Admitted
<1>8. Stored' = Stored
  <2>1. DOMAIN producer5' = Producers /\ DOMAIN consumer5' = Consumers  BY <1>7 DEF Ex5TypeOK
  <2>2. Stored' = QUEUE_CAPACITY - empty5' - Num(producer5', Claiming) - Num(consumer5', {"post"})
        BY <2>1, StoredThen
  <2>3. /\ empty5 \in Nat /\ Num(producer5, Claiming) \in Nat /\ Num(consumer5, {"post"}) \in Nat
        /\ QUEUE_CAPACITY \in Nat
        /\ Stored = QUEUE_CAPACITY - empty5 - Num(producer5, Claiming) - Num(consumer5, {"post"})
        BY Ex5Counts DEF Ex5Inv
  <2> QED  BY <1>2, <1>3, <2>2, <2>3
<1>9. WrittenBy' = WrittenBy /\ ReadBy' = ReadBy
  <2>1. ASSUME NEW d \in Consumers
        PROVE  Len(received5'[d]) + (IF consumer5'[d] = "post" THEN 1 ELSE 0)
                   = Len(received5[d]) + (IF consumer5[d] = "post" THEN 1 ELSE 0)
    <3>1. CASE d = c
      <4> DEFINE now == Len(received5'[d])  before == Len(received5[d])
      <4>1. now = before + 1 /\ before \in Nat  BY <1>5, <3>1
      <4> HIDE DEF now, before
      <4>2. now + (IF consumer5'[d] = "post" THEN 1 ELSE 0)
                = before + (IF consumer5[d] = "post" THEN 1 ELSE 0)
            BY <1>1, <3>1, <4>1
      <4> QED  BY <4>2 DEF now, before
    <3>2. CASE d # c  BY <1>6, <3>2
    <3> QED  BY <3>1, <3>2
  <2> QED  BY <1>3, <2>1 DEF WrittenBy, ReadBy
<1>10. Ring5' /\ SentAreSomewhere5' /\ Paired5'
  <2>1. ASSUME NEW m \in Int, Handed5(m)  PROVE Handed5(m)'
    <3>1. PICK d \in Consumers : \/ \E i \in DOMAIN received5[d] : received5[d][i] = m
                                 \/ consumer5[d] = "post" /\ value5[d] = m
          BY <2>1 DEF Handed5
    <3>2. CASE d = c
      <4>1. \E i \in DOMAIN received5'[c] : received5'[c][i] = m  BY <1>5, <3>1, <3>2
      <4> QED  BY <4>1 DEF Handed5
    <3>3. CASE d # c  BY <1>3, <1>6, <3>1, <3>3 DEF Handed5
    <3> QED  BY <3>2, <3>3
  <2> QED  BY <1>2, <1>3, <1>8, <1>9, <2>1, Ex5QuietKeeps
<1>11. WithinShares5'
  <2>1. \A d \in Consumers : consumer5'[d] \in Admitted =>
            consumer5[d] \in Admitted /\ received5'[d] = received5[d]
        BY <1>1, <1>6 DEF Admitted
  <2> QED  BY <1>3, <1>9, <2>1 DEF Ex5Inv, WithinShares5
<1>12. Owners5'  BY <1>1, <1>3 DEF Ex5Inv, Owners5, Moved
<1>13. Values5'  BY <1>1, <1>3 DEF Ex5Inv, Values5, Moved
<1>14. Quiet5
  <2>1. ASSUME NEW d \in Consumers
        PROVE  (IF consumer5'[d] = "post" THEN Append(received5'[d], value5'[d]) ELSE received5'[d])
                   = IF consumer5[d] = "post" THEN Append(received5[d], value5[d]) ELSE received5[d]
    <3>1. CASE d = c
      <4>1. received5'[c] = Append(received5[c], value5[c])  BY <1>3 DEF Ex5Inv, Ex5TypeOK
      <4> QED  BY <1>1, <3>1, <4>1
    <3>2. CASE d # c  BY <1>3, <1>6, <3>2
    <3> QED  BY <3>1, <3>2
  <2>2. Returned5' = Returned5  BY <2>1 DEF Returned5
  <2> QED  BY <1>3, <1>8, <2>2 DEF Quiet5
<1> QED  BY <1>7, <1>10, <1>11, <1>12, <1>13, <1>14 DEF Ex5Inv

LEMMA Ex5AdvanceWriteKeeps ==
    ASSUME Ex5Inv, NEW p \in Producers, Ex5AdvanceWrite(p)
    PROVE  /\ Ex5Inv' /\ Stored' = Stored + 1 /\ Stored < QUEUE_CAPACITY
           /\ buffer5[Slot(readIndex5, Stored)] \in Messages
<1>1. Moved(producer5, producer5', p, Producers) /\ producer5[p] = "advance" /\ producer5'[p] = "post"
      BY DEF Ex5Inv, Ex5TypeOK, Ex5AdvanceWrite, ProducerGoes, Moved
<1>2. /\ Num(producer5', Claiming) = Num(producer5, Claiming) - 1
      /\ Num(producer5', {"post"}) = Num(producer5, {"post"}) + 1
      BY <1>1, Moves, ThreadsAreFinite DEF Claiming
<1>3. /\ UNCHANGED <<buffer5, readIndex5, empty5, full5, readMutex5, consumer5, sent5, received5,
                     value5>>
      /\ writeIndex5' = Slot(writeIndex5, 1) /\ writeMutex5' = NoMessage
      BY DEF Ex5AdvanceWrite, Slot
<1>4. /\ sent5[p] < Share(p, NUM_PRODUCERS) /\ sent5[p] \in Nat
      /\ Stored \in 0 .. QUEUE_CAPACITY /\ Stored < QUEUE_CAPACITY
      /\ writeIndex5 = Slot(readIndex5, Stored) /\ writeIndex5 \in Slots /\ readIndex5 \in Slots
      /\ QUEUE_CAPACITY \in Nat /\ 1 \in 0 .. QUEUE_CAPACITY
      /\ buffer5[writeIndex5] = Start(p) + sent5[p]
      BY <1>1, StoredBounds, CountsAssumption
      DEF Ex5Inv, Ex5TypeOK, WithinShares5, Ring5, Claiming, Values5
<1>5. Start(p) + sent5[p] \in Messages /\ sent5[p] \in Messages
  <2>1. NUM_PRODUCERS \in Nat \ {0} /\ p \in 0 .. NUM_PRODUCERS - 1
        BY CountsAssumption DEF Producers
  <2>2. First(p, NUM_PRODUCERS) + sent5[p] \in Messages /\ sent5[p] \in Messages
        BY <1>4, <2>1, InShare
  <2> QED  BY <2>2 DEF Start, First
<1>6. writeIndex5' = Slot(readIndex5, Stored + 1) /\ writeIndex5' \in Slots
  <2>1. Stored \in 0 .. QUEUE_CAPACITY - 1 /\ Stored + 1 \in 0 .. QUEUE_CAPACITY  BY <1>4
  <2> QED  BY <1>3, <1>4, <2>1, SlotIs, SlotsInARow
<1>7. Ex5TypeOK'
      BY <1>3, <1>6 DEF Ex5Inv, Ex5TypeOK, Ex5AdvanceWrite, ProducerGoes, Claiming
<1>8. Stored' = Stored + 1
  <2>1. DOMAIN producer5' = Producers /\ DOMAIN consumer5' = Consumers  BY <1>7 DEF Ex5TypeOK
  <2>2. Stored' = QUEUE_CAPACITY - empty5' - Num(producer5', Claiming) - Num(consumer5', {"post"})
        BY <2>1, StoredThen
  <2> QED  BY <1>2, <1>3, <2>2, Ex5Counts DEF Ex5Inv
<1>9. Ring5'
  <2>1. full5 + Num(producer5', {"post"}) + Num(consumer5, Admitted) = Stored + 1
    <3>1. /\ full5 \in Nat /\ Num(producer5, {"post"}) \in Nat /\ Num(consumer5, Admitted) \in Nat
          /\ full5 + Num(producer5, {"post"}) + Num(consumer5, Admitted) = Stored
          BY Ex5Counts DEF Ex5Inv, Ring5
    <3> QED  BY <1>2, <3>1
  <2>2. \A k \in 0 .. Stored : buffer5[Slot(readIndex5, k)] \in Messages
    <3> SUFFICES ASSUME NEW k \in 0 .. Stored  PROVE buffer5[Slot(readIndex5, k)] \in Messages
        OBVIOUS
    <3>1. CASE k = Stored  BY <1>4, <1>5, <3>1
    <3>2. CASE k # Stored
      <4>1. k \in 0 .. Stored - 1  BY <1>4, <3>2
      <4> QED  BY <4>1 DEF Ex5Inv, Ring5
    <3> QED  BY <3>1, <3>2
  <2>3. Stored' - 1 = Stored  BY <1>4, <1>8
  <2>4. \A k \in 0 .. Stored' - 1 : buffer5[Slot(readIndex5, k)] \in Messages
        BY <2>2, <2>3
  <2>5. writeIndex5' = Slot(readIndex5, Stored')  BY <1>6, <1>8
  <2>6. \A k : Slot(readIndex5', k) = Slot(readIndex5, k)  BY <1>3
  <2> QED  BY <1>3, <1>8, <2>1, <2>4, <2>5, <2>6 DEF Ring5
<1>10. /\ WrittenBy[p] = sent5[p] /\ WrittenBy'[p] = sent5[p] + 1 /\ ReadBy' = ReadBy
       /\ \A q \in Producers \ {p} : WrittenBy'[q] = WrittenBy[q]
       /\ WrittenBy \in [Producers -> Nat] /\ WrittenBy' \in [Producers -> Nat]
  <2>1. /\ (IF producer5'[p] = "post" THEN 1 ELSE 0) = 1
        /\ (IF producer5[p] = "post" THEN 1 ELSE 0) = 0
        /\ \A q \in Producers \ {p} : producer5'[q] = producer5[q]
        BY <1>1 DEF Moved
  <2>2. WrittenBy[p] = sent5[p]  BY <1>4, <2>1 DEF WrittenBy
  <2>3. WrittenBy'[p] = sent5[p] + 1  BY <1>3, <2>1 DEF WrittenBy
  <2>4. \A q \in Producers \ {p} : WrittenBy'[q] = WrittenBy[q]  BY <1>3, <2>1 DEF WrittenBy
  <2>5. WrittenBy \in [Producers -> Nat]  BY DEF WrittenBy, Ex5Inv, Ex5TypeOK
  <2>6. WrittenBy' \in [Producers -> Nat]  BY <1>7 DEF WrittenBy, Ex5TypeOK
  <2>7. ReadBy' = ReadBy  BY <1>3 DEF ReadBy
  <2> QED  BY <2>2, <2>3, <2>4, <2>5, <2>6, <2>7
<1>11. WithinShares5'
  <2>1. \A q \in Producers : producer5'[q] \in Claiming => producer5[q] \in Claiming
        BY <1>1 DEF Moved, Claiming
  <2>2. NUM_PRODUCERS \in Nat \ {0} /\ p \in 0 .. NUM_PRODUCERS - 1
        BY CountsAssumption DEF Producers
  <2>3. Share(p, NUM_PRODUCERS) \in Nat  BY <2>2, SharesAddUp
  <2>4. \A q \in Producers : WrittenBy'[q] <= Share(q, NUM_PRODUCERS)
        BY <1>4, <1>10, <2>3 DEF Ex5Inv, WithinShares5
  <2> QED  BY <1>3, <1>10, <2>1, <2>4 DEF Ex5Inv, WithinShares5
<1>12. Owners5'
  <2>1. \A q \in Producers : q # p => producer5[q] \notin {"write", "advance"}
        BY <1>1 DEF Ex5Inv, Owners5
  <2> QED  BY <1>1, <1>3, <2>1, ThreadsAreFinite DEF Ex5Inv, Owners5, Moved
<1>13. Values5'
  <2>1. \A q \in Producers : producer5'[q] # "advance"
        BY <1>1 DEF Ex5Inv, Owners5, Moved
  <2> QED  BY <1>3, <2>1 DEF Ex5Inv, Values5
<1>14. SentAreSomewhere5'
  <2>1. ASSUME NEW m \in Int, Found5(m)  PROVE Found5(m)'
    <3>1. Handed5(m) => Handed5(m)'  BY <1>3 DEF Handed5
    <3>2. ASSUME NEW k \in 0 .. Stored - 1, buffer5[Slot(readIndex5, k)] = m  PROVE Found5(m)'
      <4>1. k \in 0 .. Stored' - 1  BY <1>4, <1>8
      <4> QED  BY <1>3, <3>2, <4>1 DEF Found5
    <3> QED  BY <2>1, <3>1, <3>2 DEF Found5
  <2> SUFFICES ASSUME NEW q \in Producers, NEW k \in Messages, k < WrittenBy'[q]
               PROVE  Found5(Start(q) + k)'
      BY DEF SentAreSomewhere5
  <2>2. Start(q) \in Nat /\ k \in Nat
    <3>1. q \in 0 .. NUM_PRODUCERS /\ NUM_PRODUCERS \in Nat \ {0} /\ k \in Nat
          BY CountsAssumption DEF Producers, Messages
    <3> QED  BY <3>1, SharesAddUp DEF Start, First
  <2> DEFINE m == Start(q) + k
  <2>3. m \in Int  BY <2>2
  <2>4. CASE k < WrittenBy[q]
    <3>1. Found5(m)  BY <2>4 DEF Ex5Inv, SentAreSomewhere5
    <3> HIDE DEF m
    <3>2. Found5(m)'  BY <2>1, <2>3, <3>1
    <3> QED  BY <3>2 DEF m
  <2>5. CASE ~ (k < WrittenBy[q])
    <3>1. q = p /\ k = sent5[p]  BY <1>4, <1>10, <2>2, <2>5
    <3>2. buffer5'[Slot(readIndex5', Stored)] = m  BY <1>3, <1>4, <3>1
    <3>3. Stored \in 0 .. Stored' - 1  BY <1>4, <1>8
    <3> HIDE DEF m
    <3>4. Found5(m)'  BY <3>2, <3>3 DEF Found5
    <3> QED  BY <3>4 DEF m
  <2> QED  BY <2>4, <2>5
<1>15. Paired5'
  <2> DEFINE w == WrittenBy  v == WrittenBy'
  <2>1. Cardinality(Pairs(v, Producers)) = Cardinality(Pairs(w, Producers)) + 1
    <3>1. /\ w \in [Producers -> Nat] /\ v \in [Producers -> Nat] /\ w[p] \in Messages
          /\ v[p] = w[p] + 1 /\ \A q \in Producers \ {p} : v[q] = w[q]
          BY <1>5, <1>10
    <3> HIDE DEF w, v
    <3> QED  BY <3>1, OnePairMore, ThreadsAreFinite
  <2>2. Cardinality(Pairs(WrittenBy', Producers)) = Cardinality(Pairs(WrittenBy, Producers)) + 1
        BY <2>1
  <2>3. Cardinality(Pairs(ReadBy, Consumers)) \in Nat
    <3>1. IsFiniteSet(Messages)  BY CountsAssumption, FS_Interval DEF Messages
    <3>2. IsFiniteSet(Consumers \X Messages)  BY <3>1, FS_Product, ThreadsAreFinite
    <3>3. Pairs(ReadBy, Consumers) \subseteq Consumers \X Messages  BY DEF Pairs
    <3> QED  BY <3>2, <3>3, FS_Subset, FS_CardinalityType
  <2> HIDE DEF w, v
  <2>4. Pairs(WrittenBy, Producers)' = Pairs(WrittenBy', Producers)
        /\ Pairs(ReadBy, Consumers)' = Pairs(ReadBy, Consumers)
        BY <1>10 DEF Pairs
  <2> QED  BY <1>4, <1>8, <1>10, <2>2, <2>3, <2>4 DEF Ex5Inv, Paired5
<1> QED  BY <1>4, <1>5, <1>7, <1>8, <1>9, <1>11, <1>12, <1>13, <1>14, <1>15 DEF Ex5Inv

LEMMA Ex5AdvanceReadKeeps ==
    ASSUME Ex5Inv, NEW c \in Consumers, Ex5AdvanceRead(c)
    PROVE  /\ Ex5Inv' /\ Stored' = Stored - 1 /\ Stored > 0
           /\ value5[c] = buffer5[readIndex5]
<1>1. Moved(consumer5, consumer5', c, Consumers) /\ consumer5[c] = "advance" /\ consumer5'[c] = "post"
      BY DEF Ex5Inv, Ex5TypeOK, Ex5AdvanceRead, ConsumerGoes, Moved
<1>2. /\ Num(consumer5', Admitted) = Num(consumer5, Admitted) - 1
      /\ Num(consumer5', {"post"}) = Num(consumer5, {"post"}) + 1
      BY <1>1, Moves, ThreadsAreFinite DEF Admitted
<1>3. /\ UNCHANGED <<buffer5, writeIndex5, empty5, full5, writeMutex5, producer5, sent5, received5,
                     value5>>
      /\ readIndex5' = Slot(readIndex5, 1) /\ readMutex5' = NoMessage
      BY DEF Ex5AdvanceRead, Slot
<1>4. /\ Len(received5[c]) < Share(c, NUM_CONSUMERS) /\ Len(received5[c]) \in Nat
      /\ Stored \in 0 .. QUEUE_CAPACITY /\ Stored > 0
      /\ writeIndex5 = Slot(readIndex5, Stored) /\ writeIndex5 \in Slots /\ readIndex5 \in Slots
      /\ QUEUE_CAPACITY \in Nat \ {0} /\ 1 \in 0 .. QUEUE_CAPACITY
      /\ value5[c] = buffer5[readIndex5]
      BY <1>1, StoredBounds, CountsAssumption
      DEF Ex5Inv, Ex5TypeOK, WithinShares5, Ring5, Admitted, Values5
<1>5. readIndex5' \in Slots  BY <1>3, <1>4, SlotIs
<1>6. \A k \in 0 .. Stored - 1 : Slot(readIndex5', k) = Slot(readIndex5, k + 1)
  <2> SUFFICES ASSUME NEW k \in 0 .. Stored - 1  PROVE Slot(readIndex5', k) = Slot(readIndex5, k + 1)
      OBVIOUS
  <2>1. k \in 0 .. QUEUE_CAPACITY - 1  BY <1>4
  <2> QED  BY <1>3, <1>4, <2>1, SlotsInARow
<1>7. value5[c] \in Messages
  <2>1. 0 \in 0 .. Stored - 1 /\ Slot(readIndex5, 0) = readIndex5  BY <1>4, SlotsInARow
  <2> QED  BY <1>4, <2>1 DEF Ex5Inv, Ring5
<1>8. Ex5TypeOK'
      BY <1>3, <1>5 DEF Ex5Inv, Ex5TypeOK, Ex5AdvanceRead, ConsumerGoes, Admitted
<1>9. Stored' = Stored - 1
  <2>1. DOMAIN producer5' = Producers /\ DOMAIN consumer5' = Consumers  BY <1>8 DEF Ex5TypeOK
  <2>2. Stored' = QUEUE_CAPACITY - empty5' - Num(producer5', Claiming) - Num(consumer5', {"post"})
        BY <2>1, StoredThen
  <2> QED  BY <1>2, <1>3, <2>2, Ex5Counts DEF Ex5Inv
<1>10. Ring5'
  <2>1. full5 + Num(producer5, {"post"}) + Num(consumer5', Admitted) = Stored - 1
    <3>1. /\ full5 \in Nat /\ Num(producer5, {"post"}) \in Nat /\ Num(consumer5, Admitted) \in Nat
          /\ full5 + Num(producer5, {"post"}) + Num(consumer5, Admitted) = Stored
          BY Ex5Counts DEF Ex5Inv, Ring5
    <3> QED  BY <1>2, <3>1
  <2>2. \A k \in 0 .. Stored' - 1 : buffer5[Slot(readIndex5', k)] \in Messages
    <3> SUFFICES ASSUME NEW k \in 0 .. Stored' - 1  PROVE buffer5[Slot(readIndex5', k)] \in Messages
        OBVIOUS
    <3>1. k \in 0 .. Stored - 1 /\ k + 1 \in 0 .. Stored - 1  BY <1>4, <1>9
    <3> QED  BY <1>6, <3>1 DEF Ex5Inv, Ring5
  <2>3. writeIndex5 = Slot(readIndex5', Stored')
    <3>1. Stored - 1 \in 0 .. Stored - 1 /\ Stored - 1 + 1 = Stored  BY <1>4
    <3> QED  BY <1>4, <1>6, <1>9, <3>1
  <2> QED  BY <1>3, <1>9, <2>1, <2>2, <2>3 DEF Ring5
<1>11. /\ ReadBy[c] = Len(received5[c]) /\ ReadBy'[c] = Len(received5[c]) + 1
       /\ WrittenBy' = WrittenBy
       /\ \A d \in Consumers \ {c} : ReadBy'[d] = ReadBy[d]
       /\ ReadBy \in [Consumers -> Nat] /\ ReadBy' \in [Consumers -> Nat]
  <2>1. /\ (IF consumer5'[c] = "post" THEN 1 ELSE 0) = 1
        /\ (IF consumer5[c] = "post" THEN 1 ELSE 0) = 0
        /\ \A d \in Consumers \ {c} : consumer5'[d] = consumer5[d]
        BY <1>1 DEF Moved
  <2>2. ReadBy[c] = Len(received5[c])
    <3>1. ReadBy[c] = Len(received5[c]) + (IF consumer5[c] = "post" THEN 1 ELSE 0)  BY DEF ReadBy
    <3>2. ReadBy[c] = Len(received5[c]) + 0  BY <2>1, <3>1
    <3> QED  BY <1>4, <3>2
  <2>3. ReadBy'[c] = Len(received5[c]) + 1  BY <1>3, <2>1 DEF ReadBy
  <2>4. \A d \in Consumers \ {c} : ReadBy'[d] = ReadBy[d]  BY <1>3, <2>1 DEF ReadBy
  <2>5. ReadBy \in [Consumers -> Nat]
    <3>1. \A d \in Consumers : Len(received5[d]) \in Nat  BY DEF Ex5Inv, Ex5TypeOK
    <3>2. \A n \in Nat : \A place : n + (IF place = "post" THEN 1 ELSE 0) \in Nat  OBVIOUS
    <3>3. \A d \in Consumers : Len(received5[d]) + (IF consumer5[d] = "post" THEN 1 ELSE 0) \in Nat
          BY <3>1, <3>2
    <3> QED  BY <3>3 DEF ReadBy
  <2>6. ReadBy' \in [Consumers -> Nat]
    <3>1. \A d \in Consumers : Len(received5'[d]) \in Nat  BY <1>8 DEF Ex5TypeOK
    <3>2. \A n \in Nat : \A place : n + (IF place = "post" THEN 1 ELSE 0) \in Nat  OBVIOUS
    <3>3. \A d \in Consumers : Len(received5'[d]) + (IF consumer5'[d] = "post" THEN 1 ELSE 0) \in Nat
          BY <3>1, <3>2
    <3> QED  BY <3>3 DEF ReadBy
  <2>7. WrittenBy' = WrittenBy  BY <1>3 DEF WrittenBy
  <2> QED  BY <2>2, <2>3, <2>4, <2>5, <2>6, <2>7
<1>12. NUM_CONSUMERS \in Nat \ {0} /\ c \in 0 .. NUM_CONSUMERS - 1
      BY CountsAssumption DEF Consumers
<1>13. WithinShares5'
  <2>1. \A d \in Consumers : consumer5'[d] \in Admitted => consumer5[d] \in Admitted
        BY <1>1 DEF Moved, Admitted
  <2>2. Share(c, NUM_CONSUMERS) \in Nat  BY <1>12, SharesAddUp
  <2>3. \A d \in Consumers : ReadBy'[d] <= Share(d, NUM_CONSUMERS)
        BY <1>4, <1>11, <2>2 DEF Ex5Inv, WithinShares5
  <2> QED  BY <1>3, <1>11, <2>1, <2>3 DEF Ex5Inv, WithinShares5
<1>14. \A d \in Consumers : d # c => consumer5[d] \notin {"read", "advance"}
      BY <1>1 DEF Ex5Inv, Owners5
<1>15. Owners5'  BY <1>1, <1>3, <1>14, ThreadsAreFinite DEF Ex5Inv, Owners5, Moved
<1>16. Values5'
  <2>1. ASSUME NEW d \in Consumers
        PROVE consumer5'[d] # "advance" /\ (consumer5'[d] = "post" => value5[d] \in Messages)
    <3>1. CASE d = c  BY <1>1, <1>7, <3>1
    <3>2. CASE d # c  BY <1>1, <1>14, <3>2 DEF Moved, Ex5Inv, Values5
    <3> QED  BY <3>1, <3>2
  <2> QED  BY <1>3, <2>1 DEF Ex5Inv, Values5
<1>17. SentAreSomewhere5'
  <2>1. ASSUME NEW m \in Int, Found5(m)  PROVE Found5(m)'
    <3>1. Handed5(m) => Handed5(m)'
          BY <1>1, <1>3 DEF Handed5, Moved
    <3>2. ASSUME NEW k \in 0 .. Stored - 1, buffer5[Slot(readIndex5, k)] = m  PROVE Found5(m)'
      <4>1. CASE k = 0
        <5>1. value5[c] = m  BY <1>4, <3>2, <4>1, SlotsInARow
        <5>2. Handed5(m)'  BY <1>1, <1>3, <5>1 DEF Handed5
        <5> QED  BY <5>2 DEF Found5
      <4>2. CASE k # 0
        <5>1. k - 1 \in 0 .. Stored - 1 /\ k - 1 + 1 = k /\ k - 1 \in 0 .. Stored' - 1
              BY <1>4, <1>9, <4>2
        <5>2. buffer5'[Slot(readIndex5', k - 1)] = m  BY <1>3, <1>6, <3>2, <5>1
        <5> QED  BY <5>1, <5>2 DEF Found5
      <4> QED  BY <4>1, <4>2
    <3> QED  BY <2>1, <3>1, <3>2 DEF Found5
  <2> SUFFICES ASSUME NEW q \in Producers, NEW k \in Messages, k < WrittenBy[q]
               PROVE  Found5(Start(q) + k)'
      BY <1>11 DEF SentAreSomewhere5
  <2> DEFINE m == Start(q) + k
  <2>2. m \in Int
    <3>1. q \in 0 .. NUM_PRODUCERS /\ NUM_PRODUCERS \in Nat \ {0} /\ k \in Nat
          BY CountsAssumption DEF Producers, Messages
    <3> QED  BY <3>1, SharesAddUp DEF Start, First
  <2>3. Found5(m)  BY DEF Ex5Inv, SentAreSomewhere5
  <2> HIDE DEF m
  <2>4. Found5(m)'  BY <2>1, <2>2, <2>3
  <2> QED  BY <2>4 DEF m
<1>18. Paired5'
  <2> DEFINE w == ReadBy  v == ReadBy'
  <2>1. Cardinality(Pairs(v, Consumers)) = Cardinality(Pairs(w, Consumers)) + 1
    <3>1. Len(received5[c]) \in Messages  BY <1>4, <1>12, InShare
    <3>2. /\ w \in [Consumers -> Nat] /\ v \in [Consumers -> Nat] /\ w[c] \in Messages
          /\ v[c] = w[c] + 1 /\ \A d \in Consumers \ {c} : v[d] = w[d]
          BY <1>11, <3>1
    <3> HIDE DEF w, v
    <3> QED  BY <3>2, OnePairMore, ThreadsAreFinite
  <2>2. Cardinality(Pairs(ReadBy', Consumers)) = Cardinality(Pairs(ReadBy, Consumers)) + 1
        BY <2>1
  <2>3. Cardinality(Pairs(ReadBy, Consumers)) \in Nat
    <3>1. IsFiniteSet(Messages)  BY CountsAssumption, FS_Interval DEF Messages
    <3>2. IsFiniteSet(Consumers \X Messages)  BY <3>1, FS_Product, ThreadsAreFinite
    <3>3. Pairs(ReadBy, Consumers) \subseteq Consumers \X Messages  BY DEF Pairs
    <3> QED  BY <3>2, <3>3, FS_Subset, FS_CardinalityType
  <2> HIDE DEF w, v
  <2>4. Pairs(ReadBy, Consumers)' = Pairs(ReadBy', Consumers)
        /\ Pairs(WrittenBy, Producers)' = Pairs(WrittenBy, Producers)
        BY <1>11 DEF Pairs
  <2> QED  BY <1>4, <1>9, <1>11, <2>2, <2>3, <2>4 DEF Ex5Inv, Paired5
<1> QED  BY <1>4, <1>8, <1>9, <1>10, <1>13, <1>15, <1>16, <1>17, <1>18 DEF Ex5Inv

LEMMA Ex5Starts == Ex5Init => Ex5Inv
<1> SUFFICES ASSUME Ex5Init  PROVE Ex5Inv  OBVIOUS
<1>1. /\ DOMAIN consumer5 = Consumers /\ \A c \in Consumers : consumer5[c] = "next"
      /\ DOMAIN producer5 = Producers /\ \A p \in Producers : producer5[p] = "next"
      BY DEF Ex5Init
<1>2. /\ Num(producer5, Claiming) = 0 /\ Num(producer5, {"post"}) = 0
      /\ Num(consumer5, Admitted) = 0 /\ Num(consumer5, {"post"}) = 0
      BY <1>1, NumBounds, ThreadsAreFinite DEF Claiming, Admitted
<1>3. 0 \in Slots  BY CountsAssumption DEF Slots
<1>4. Ex5TypeOK
  <2>1. <<>> \in Seq(Messages)  OBVIOUS
  <2> QED  BY <1>1, <1>3, <2>1, CountsAssumption DEF Ex5Init, Ex5TypeOK
<1>5. Stored = 0  BY <1>2, <1>4, Ex5Counts DEF Ex5Init
<1>6. /\ \A p \in Producers : WrittenBy[p] = 0 /\ Share(p, NUM_PRODUCERS) \in Nat
      /\ \A c \in Consumers : ReadBy[c] = 0 /\ Share(c, NUM_CONSUMERS) \in Nat
  <2>1. \A c \in Consumers : Len(received5[c]) = 0  BY DEF Ex5Init
  <2> QED  BY <1>1, <2>1, SharesAddUp, CountsAssumption
           DEF Ex5Init, WrittenBy, ReadBy, Producers, Consumers
<1>7. WithinShares5  BY <1>1, <1>6 DEF WithinShares5, Claiming, Admitted
<1>8. Owners5  BY <1>1, ThreadsAreFinite DEF Ex5Init, Owners5
<1>9. Ring5  BY <1>2, <1>3, <1>5, SlotsInARow DEF Ex5Init, Ring5
<1>10. Values5  BY <1>1 DEF Values5
<1>11. \A m \in Messages : m \in Nat  BY CountsAssumption DEF Messages
<1>12. SentAreSomewhere5  BY <1>6, <1>11 DEF SentAreSomewhere5
<1>13. Paired5
  <2>1. Pairs(WrittenBy, Producers) = {} /\ Pairs(ReadBy, Consumers) = {}
        BY <1>6, <1>11 DEF Pairs
  <2> QED  BY <1>5, <2>1, FS_EmptySet DEF Paired5
<1> QED  BY <1>4, <1>7, <1>8, <1>9, <1>10, <1>12, <1>13 DEF Ex5Inv

LEMMA Ex5Keeps == Ex5Inv /\ [EX5]_ex5Vars => Ex5Inv'
<1>1. ASSUME Ex5Inv, UNCHANGED ex5Vars  PROVE Ex5Inv'
  <2>1. UNCHANGED <<buffer5, readIndex5, writeIndex5, empty5, full5, readMutex5, writeMutex5,
                    producer5, consumer5, sent5, received5, value5>>
        BY <1>1 DEF ex5Vars
  <2>2. Stored' = Stored /\ WrittenBy' = WrittenBy /\ ReadBy' = ReadBy
        BY <2>1 DEF Stored, WrittenBy, ReadBy
  <2>3. Ring5' /\ SentAreSomewhere5' /\ Paired5'
    <3>1. \A m \in Int : Handed5(m) => Handed5(m)'  BY <2>1 DEF Handed5
    <3> QED  BY <1>1, <2>1, <2>2, <3>1, Ex5QuietKeeps
  <2> QED  BY <1>1, <2>1, <2>2, <2>3 DEF Ex5Inv, Ex5TypeOK, WithinShares5, Owners5, Values5
<1> QED  BY <1>1, Ex5WaitEmptyKeeps, Ex5LockWriteKeeps, Ex5WriteKeeps, Ex5AdvanceWriteKeeps,
            Ex5PostFullKeeps, Ex5WaitFullKeeps, Ex5LockReadKeeps, Ex5ReadKeeps,
            Ex5AdvanceReadKeeps, Ex5PostEmptyKeeps
         DEF EX5, Ex5Producer, Ex5Consumer

LEMMA Ex5Separates == Ex5Inv => Ex5SlotsApart
<1> SUFFICES ASSUME Ex5Inv, NEW p \in Producers, NEW c \in Consumers,
                    producer5[p] \in {"write", "advance"}, consumer5[c] \in {"read", "advance"}
             PROVE  writeIndex5 # readIndex5
    BY DEF Ex5SlotsApart
<1>1. Stored \in 0 .. QUEUE_CAPACITY /\ Stored < QUEUE_CAPACITY /\ Stored > 0
      BY StoredBounds DEF Claiming, Admitted
<1>2. Stored \in 0 .. QUEUE_CAPACITY - 1 /\ 0 \in 0 .. QUEUE_CAPACITY - 1 /\ Stored # 0
      BY <1>1, CountsAssumption
<1>3. readIndex5 \in Slots /\ writeIndex5 = Slot(readIndex5, Stored)
      BY DEF Ex5Inv, Ex5TypeOK, Ring5
<1> QED  BY <1>2, <1>3, SlotsInARow

LEMMA Ex5Receives == Ex5Inv => Ex5AllReceived
<1> SUFFICES ASSUME Ex5Inv, Ex5Joined
             PROVE  Messages = UNION {{received5[c][i] : i \in DOMAIN received5[c]} : c \in Consumers}
    BY DEF Ex5AllReceived
<1>1. /\ NUM_PRODUCERS \in Nat \ {0} /\ Producers = 0 .. NUM_PRODUCERS - 1
      /\ NUM_CONSUMERS \in Nat \ {0} /\ Consumers = 0 .. NUM_CONSUMERS - 1
      /\ MESSAGE_COUNT \in Nat
      BY CountsAssumption DEF Producers, Consumers
<1>2. \A p \in Producers : WrittenBy[p] = Share(p, NUM_PRODUCERS) /\ producer5[p] = "next"
  <2> SUFFICES ASSUME NEW p \in Producers
               PROVE  WrittenBy[p] = Share(p, NUM_PRODUCERS) /\ producer5[p] = "next"
      OBVIOUS
  <2>1. producer5[p] = "next" /\ sent5[p] = Share(p, NUM_PRODUCERS)  BY DEF Ex5Joined
  <2>2. Share(p, NUM_PRODUCERS) \in Nat  BY <1>1, SharesAddUp
  <2> QED  BY <2>1, <2>2 DEF WrittenBy
<1>3. \A c \in Consumers : ReadBy[c] = Share(c, NUM_CONSUMERS) /\ consumer5[c] = "next"
  <2> SUFFICES ASSUME NEW c \in Consumers
               PROVE  ReadBy[c] = Share(c, NUM_CONSUMERS) /\ consumer5[c] = "next"
      OBVIOUS
  <2>1. consumer5[c] = "next" /\ Len(received5[c]) = Share(c, NUM_CONSUMERS)  BY DEF Ex5Joined
  <2>2. Share(c, NUM_CONSUMERS) \in Nat  BY <1>1, SharesAddUp
  <2>3. ReadBy[c] = Len(received5[c]) + 0  BY <2>1 DEF ReadBy
  <2> QED  BY <2>1, <2>2, <2>3
<1>4. Stored = 0
  <2>1. Pairs(WrittenBy, Producers) = Shared(NUM_PRODUCERS)  BY <1>1, <1>2 DEF Pairs, Shared
  <2>2. Pairs(ReadBy, Consumers) = Shared(NUM_CONSUMERS)  BY <1>1, <1>3 DEF Pairs, Shared
  <2>3. Cardinality(Pairs(WrittenBy, Producers)) = MESSAGE_COUNT  BY <1>1, <2>1, SharesAreAll
  <2>4. Cardinality(Pairs(ReadBy, Consumers)) = MESSAGE_COUNT  BY <1>1, <2>2, SharesAreAll
  <2>5. Stored \in Int  BY Ex5Counts DEF Ex5Inv
  <2> QED  BY <1>1, <2>3, <2>4, <2>5 DEF Ex5Inv, Paired5
<1>5. ASSUME NEW m \in Messages
      PROVE  \E c \in Consumers : \E i \in DOMAIN received5[c] : received5[c][i] = m
  <2>1. PICK p \in Producers : /\ First(p, NUM_PRODUCERS) <= m
                               /\ m < First(p, NUM_PRODUCERS) + Share(p, NUM_PRODUCERS)
        BY <1>1, EachInAShare
  <2>2. m \in Nat /\ p \in 0 .. NUM_PRODUCERS /\ p \in 0 .. NUM_PRODUCERS - 1
        BY <1>1 DEF Messages
  <2>3. First(p, NUM_PRODUCERS) \in Nat /\ Share(p, NUM_PRODUCERS) \in Nat
        BY <1>1, <2>2, SharesAddUp
  <2> DEFINE k == m - First(p, NUM_PRODUCERS)
  <2>4. k \in Nat /\ k < Share(p, NUM_PRODUCERS) /\ First(p, NUM_PRODUCERS) + k = m
        BY <2>1, <2>2, <2>3
  <2>5. k \in Messages  BY <1>1, <2>2, <2>4, InShare
  <2>6. Start(p) + k = m  BY <2>4 DEF Start, First
  <2>7. Found5(Start(p) + k)  BY <1>2, <2>4, <2>5 DEF Ex5Inv, SentAreSomewhere5
  <2>8. Found5(m)  BY <2>6, <2>7
  <2>9. Handed5(m)  BY <1>4, <2>8 DEF Found5
  <2> QED  BY <1>3, <2>9 DEF Handed5
<1>6. ASSUME NEW c \in Consumers, NEW i \in DOMAIN received5[c]  PROVE received5[c][i] \in Messages
  <2>1. received5[c] \in Seq(Messages)  BY DEF Ex5Inv, Ex5TypeOK
  <2> QED  BY <2>1
<1> QED  BY <1>5, <1>6

-----------------------------------------------------------------------------
(* EX5: the ring is a queue. *)

LEMMA AppendIs ==
    ASSUME NEW S, NEW s \in Seq(S), NEW e \in S
    PROVE  Append(s, e) = [i \in 1 .. Len(s) + 1 |-> IF i = Len(s) + 1 THEN e ELSE s[i]]
<1> DEFINE t == Append(s, e)
<1>1. /\ t \in Seq(S) /\ Len(t) = Len(s) + 1 /\ t[Len(s) + 1] = e /\ Len(s) \in Nat
      /\ \A i \in 1 .. Len(s) : t[i] = s[i]
      BY Appended
<1> HIDE DEF t
<1>2. t = [i \in 1 .. Len(t) |-> t[i]]  BY <1>1
<1>3. \A i \in 1 .. Len(s) + 1 : t[i] = IF i = Len(s) + 1 THEN e ELSE s[i]  BY <1>1
<1>4. t = [i \in 1 .. Len(s) + 1 |-> IF i = Len(s) + 1 THEN e ELSE s[i]]  BY <1>1, <1>2, <1>3
<1> QED  BY <1>4 DEF t

LEMMA TailIs ==
    ASSUME NEW S, NEW s \in Seq(S), s # <<>>
    PROVE  Tail(s) = [i \in 1 .. Len(s) - 1 |-> s[i + 1]]
<1> DEFINE t == Tail(s)
<1>1. t \in Seq(S) /\ Len(t) = Len(s) - 1 /\ \A i \in 1 .. Len(s) - 1 : t[i] = s[i + 1]
      BY Popped
<1> HIDE DEF t
<1>2. t = [i \in 1 .. Len(t) |-> t[i]]  BY <1>1
<1>3. t = [i \in 1 .. Len(s) - 1 |-> s[i + 1]]  BY <1>1, <1>2
<1> QED  BY <1>3 DEF t

LEMMA ElementsInARow ==
    ASSUME Ex5Inv
    PROVE  Elements5 = [i \in 1 .. Stored |-> buffer5[Slot(readIndex5, i - 1)]]
<1>1. Stored \in 0 .. QUEUE_CAPACITY /\ QUEUE_CAPACITY \in Nat /\ readIndex5 \in Int
      BY StoredBounds, CountsAssumption DEF Ex5Inv, Ex5TypeOK, Slots
<1>2. \A i \in 1 .. Stored : readIndex5 + i - 1 = readIndex5 + (i - 1)  BY <1>1
<1> QED  BY <1>2 DEF Elements5, Slot

LEMMA ElementsThen ==
    ASSUME readIndex5' \in Int, Stored' \in Int
    PROVE  Elements5' = [i \in 1 .. Stored' |-> buffer5'[Slot(readIndex5', i - 1)]]
<1>1. \A i \in 1 .. Stored' : readIndex5' + i - 1 = readIndex5' + (i - 1)  OBVIOUS
<1> QED  BY <1>1 DEF Elements5, Slot

LEMMA Ex5StartsAQueue == Ex5Init => Queue!Init
<1> SUFFICES ASSUME Ex5Init  PROVE Queue!Init  OBVIOUS
<1>1. Ex5Inv  BY Ex5Starts
<1>2. DOMAIN producer5 = Producers /\ (\A p \in Producers : producer5[p] = "next")
      /\ DOMAIN consumer5 = Consumers /\ (\A c \in Consumers : consumer5[c] = "next")
      BY DEF Ex5Init
<1>3. Num(producer5, Claiming) = 0 /\ Num(consumer5, {"post"}) = 0
      BY <1>2, NumBounds, ThreadsAreFinite DEF Claiming
<1>4. Stored = 0  BY <1>1, <1>3, Ex5Counts DEF Ex5Init, Ex5Inv
<1>5. Elements5 = <<>>  BY <1>4 DEF Elements5
<1>6. Returned5 = [c \in Consumers |-> <<>>]  BY <1>2 DEF Ex5Init, Returned5
<1> QED  BY <1>5, <1>6 DEF Queue!Init, Elements5, Returned5

\* The step forward of writeIndex5 is the Put.
LEMMA Ex5Puts ==
    ASSUME Ex5Inv, NEW p \in Producers, Ex5AdvanceWrite(p)  PROVE Queue!Put
<1>1. /\ Ex5Inv' /\ Stored' = Stored + 1 /\ Stored < QUEUE_CAPACITY
      /\ buffer5[Slot(readIndex5, Stored)] \in Messages
      BY Ex5AdvanceWriteKeeps
<1>2. /\ Stored \in 0 .. QUEUE_CAPACITY /\ readIndex5 \in Int
      BY StoredBounds, CountsAssumption DEF Ex5Inv, Ex5TypeOK, Slots
<1>3. UNCHANGED <<buffer5, readIndex5, consumer5, received5, value5>>  BY DEF Ex5AdvanceWrite
<1> DEFINE e == buffer5[Slot(readIndex5, Stored)]
           held == [i \in 1 .. Stored |-> buffer5[Slot(readIndex5, i - 1)]]
<1>4. Elements5 = held  BY ElementsInARow
<1>5. Elements5' = [i \in 1 .. Stored + 1 |-> buffer5[Slot(readIndex5, i - 1)]]
      BY <1>1, <1>2, <1>3, ElementsThen
<1>6. held \in Seq(Messages) /\ Len(held) = Stored
  <2>1. \A i \in 1 .. Stored : buffer5[Slot(readIndex5, i - 1)] \in Messages
    <3> SUFFICES ASSUME NEW i \in 1 .. Stored
                 PROVE  buffer5[Slot(readIndex5, i - 1)] \in Messages
        OBVIOUS
    <3>1. i - 1 \in 0 .. Stored - 1  BY <1>2
    <3> QED  BY <3>1 DEF Ex5Inv, Ring5
  <2> QED  BY <1>2, <2>1
<1>7. Append(held, e) = [i \in 1 .. Stored + 1 |-> buffer5[Slot(readIndex5, i - 1)]]
  <2>1. Append(held, e) = [i \in 1 .. Len(held) + 1 |-> IF i = Len(held) + 1 THEN e ELSE held[i]]
    <3>1. e \in Messages  BY <1>1
    <3> HIDE DEF held, e
    <3> QED  BY <1>6, <3>1, AppendIs
  <2>2. \A i \in 1 .. Stored + 1 :
            (IF i = Stored + 1 THEN e ELSE held[i]) = buffer5[Slot(readIndex5, i - 1)]
    <3> SUFFICES ASSUME NEW i \in 1 .. Stored + 1
                 PROVE  (IF i = Stored + 1 THEN e ELSE held[i]) = buffer5[Slot(readIndex5, i - 1)]
        OBVIOUS
    <3>1. CASE i = Stored + 1
      <4>1. i - 1 = Stored  BY <1>2, <3>1
      <4> QED  BY <3>1, <4>1
    <3>2. CASE i # Stored + 1
      <4>1. i \in 1 .. Stored  BY <1>2, <3>2
      <4> QED  BY <3>2, <4>1
    <3> QED  BY <3>1, <3>2
  <2> HIDE DEF held, e
  <2> QED  BY <1>6, <2>1, <2>2
<1> HIDE DEF held
<1>8. Elements5' = Append(Elements5, e) /\ Len(Elements5) < QUEUE_CAPACITY /\ e \in Messages
      BY <1>1, <1>4, <1>5, <1>6, <1>7
<1>9. Returned5' = Returned5  BY <1>3 DEF Returned5
<1> HIDE DEF e
<1>10. Len(Elements5) < QUEUE_CAPACITY /\ (\E x \in Messages : Elements5' = Append(Elements5, x))
       /\ Returned5' = Returned5
       BY <1>8, <1>9
<1> QED  BY <1>10 DEF Queue!Put, Elements5, Returned5

\* The step forward of readIndex5 is the Get.
LEMMA Ex5GetsOne ==
    ASSUME Ex5Inv, NEW c \in Consumers, Ex5AdvanceRead(c)  PROVE Queue!Get(c)
<1>1. /\ Ex5Inv' /\ Stored' = Stored - 1 /\ Stored > 0 /\ value5[c] = buffer5[readIndex5]
      BY Ex5AdvanceReadKeeps
<1>2. /\ Stored \in 0 .. QUEUE_CAPACITY /\ readIndex5 \in Int /\ readIndex5' \in Int
      /\ readIndex5 \in Slots /\ QUEUE_CAPACITY \in Nat
      BY <1>1, StoredBounds, CountsAssumption DEF Ex5Inv, Ex5TypeOK, Slots
<1>3. /\ UNCHANGED <<buffer5, received5, value5>> /\ readIndex5' = Slot(readIndex5, 1)
      /\ Moved(consumer5, consumer5', c, Consumers) /\ consumer5[c] = "advance"
      /\ consumer5'[c] = "post"
      BY DEF Ex5AdvanceRead, Slot, Ex5Inv, Ex5TypeOK, ConsumerGoes, Moved
<1> DEFINE held == [i \in 1 .. Stored |-> buffer5[Slot(readIndex5, i - 1)]]
<1>4. Elements5 = held  BY ElementsInARow
<1>5. Elements5' = [i \in 1 .. Stored - 1 |-> buffer5[Slot(readIndex5', i - 1)]]
      BY <1>1, <1>2, <1>3, ElementsThen
<1>6. held \in Seq(Messages) /\ Len(held) = Stored
  <2>1. \A i \in 1 .. Stored : buffer5[Slot(readIndex5, i - 1)] \in Messages
    <3> SUFFICES ASSUME NEW i \in 1 .. Stored
                 PROVE  buffer5[Slot(readIndex5, i - 1)] \in Messages
        OBVIOUS
    <3>1. i - 1 \in 0 .. Stored - 1  BY <1>2
    <3> QED  BY <3>1 DEF Ex5Inv, Ring5
  <2> QED  BY <1>2, <2>1
<1>7. \A i \in 1 .. Stored - 1 : buffer5[Slot(readIndex5', i - 1)] = held[i + 1]
  <2> SUFFICES ASSUME NEW i \in 1 .. Stored - 1
               PROVE  buffer5[Slot(readIndex5', i - 1)] = held[i + 1]
      OBVIOUS
  <2>1. i - 1 \in 0 .. QUEUE_CAPACITY - 1 /\ i - 1 + 1 = i /\ i + 1 \in 1 .. Stored /\ i + 1 - 1 = i
        BY <1>2
  <2>2. Slot(readIndex5', i - 1) = Slot(readIndex5, i)  BY <1>2, <1>3, <2>1, SlotsInARow
  <2> QED  BY <2>1, <2>2
<1>8. held # <<>> /\ Head(held) = value5[c]
  <2>1. 1 \in 1 .. Stored /\ Head(held) = held[1]  BY <1>1, <1>2, <1>6
  <2>2. Slot(readIndex5, 1 - 1) = readIndex5
    <3>1. 1 - 1 = 0  OBVIOUS
    <3> QED  BY <1>2, <3>1, SlotsInARow
  <2>3. held[1] = buffer5[readIndex5]  BY <2>1, <2>2
  <2>4. held # <<>>
    <3> HIDE DEF held
    <3> QED  BY <1>1, <1>6
  <2> QED  BY <1>1, <2>1, <2>3, <2>4
<1> HIDE DEF held
<1>9. Elements5' = Tail(held)
  <2>1. Tail(held) = [i \in 1 .. Len(held) - 1 |-> held[i + 1]]  BY <1>6, <1>8, TailIs
  <2> QED  BY <1>5, <1>6, <1>7, <2>1
<1>10. Returned5' = [Returned5 EXCEPT ![c] = Append(@, Head(held))]
  <2>1. Returned5 = [d \in Consumers |-> Returned5[d]] /\ Returned5[c] = received5[c]
        BY <1>3 DEF Returned5
  <2>2. ASSUME NEW d \in Consumers
        PROVE  Returned5'[d] = IF d = c THEN Append(received5[c], value5[c]) ELSE Returned5[d]
        BY <1>3 DEF Returned5, Moved
  <2>3. Returned5' = [d \in Consumers |-> Returned5'[d]]  BY DEF Returned5
  <2> QED  BY <1>8, <2>1, <2>2, <2>3
<1>11. Elements5 # <<>> /\ Elements5' = Tail(Elements5)
       /\ Returned5' = [Returned5 EXCEPT ![c] = Append(@, Head(Elements5))]
       BY <1>4, <1>8, <1>9, <1>10
<1> QED  BY <1>11 DEF Queue!Get, Elements5, Returned5

LEMMA Ex5QuietIsNothing ==
    ASSUME Ex5Inv, Quiet5  PROVE Elements5' = Elements5 /\ Returned5' = Returned5
<1>1. /\ Stored \in 0 .. QUEUE_CAPACITY /\ readIndex5 \in Int /\ QUEUE_CAPACITY \in Nat
      /\ Stored' = Stored /\ readIndex5' = readIndex5
      BY StoredBounds, CountsAssumption DEF Ex5Inv, Ex5TypeOK, Slots, Quiet5
<1>2. ASSUME NEW i \in 1 .. Stored
      PROVE  buffer5'[Slot(readIndex5, i - 1)] = buffer5[Slot(readIndex5, i - 1)]
  <2>1. i - 1 \in 0 .. Stored - 1  BY <1>1
  <2> QED  BY <2>1 DEF Quiet5
<1>3. Elements5' = [i \in 1 .. Stored |-> buffer5'[Slot(readIndex5, i - 1)]]
      BY <1>1, ElementsThen
<1> QED  BY <1>2, <1>3, ElementsInARow DEF Quiet5

LEMMA Ex5Queues ==
    Ex5Inv /\ [EX5]_ex5Vars => Queue!Next \/ (Elements5' = Elements5 /\ Returned5' = Returned5)
<1>1. ASSUME UNCHANGED ex5Vars  PROVE Elements5' = Elements5 /\ Returned5' = Returned5
  <2>1. UNCHANGED <<buffer5, readIndex5, empty5, producer5, consumer5, received5, value5>>
        BY <1>1 DEF ex5Vars
  <2>2. Stored' = Stored  BY <2>1 DEF Stored
  <2> QED  BY <2>1, <2>2 DEF Elements5, Returned5
<1>2. ASSUME Ex5Inv, NEW p \in Producers, Ex5AdvanceWrite(p)  PROVE Queue!Next
      BY <1>2, Ex5Puts DEF Queue!Next
<1>3. ASSUME Ex5Inv, NEW c \in Consumers, Ex5AdvanceRead(c)  PROVE Queue!Next
      BY <1>3, Ex5GetsOne DEF Queue!Next
<1>4. ASSUME Ex5Inv, NEW p \in Producers,
             Ex5WaitEmpty(p) \/ Ex5LockWrite(p) \/ Ex5Write(p) \/ Ex5PostFull(p)
      PROVE  Quiet5
      BY <1>4, Ex5WaitEmptyKeeps, Ex5LockWriteKeeps, Ex5WriteKeeps, Ex5PostFullKeeps
<1>5. ASSUME Ex5Inv, NEW c \in Consumers,
             Ex5WaitFull(c) \/ Ex5LockRead(c) \/ Ex5Read(c) \/ Ex5PostEmpty(c)
      PROVE  Quiet5
      BY <1>5, Ex5WaitFullKeeps, Ex5LockReadKeeps, Ex5ReadKeeps, Ex5PostEmptyKeeps
<1> QED  BY <1>1, <1>2, <1>3, <1>4, <1>5, Ex5QuietIsNothing DEF EX5, Ex5Producer, Ex5Consumer

-----------------------------------------------------------------------------
(* main. *)

ExercisesInv == Ex2Inv /\ Ex3Inv /\ Ex4Inv /\ Ex5Inv /\ Ex6Inv

\* A step is one of an exercise's threads and leaves the other exercises alone.
LEMMA ExercisesAreApart ==
    [Next]_vars => /\ [EX2]_ex2Vars /\ [EX3]_ex3Vars /\ [EX4]_ex4Vars
                   /\ [EX5]_ex5Vars /\ [EX6]_ex6Vars
<1>1. EX1 => UNCHANGED <<ex2Vars, ex3Vars, ex4Vars, ex5Vars, ex6Vars>>  BY DEF EX1
<1>2. EX2 => UNCHANGED <<ex3Vars, ex4Vars, ex5Vars, ex6Vars>>  BY DEF EX2
<1>3. EX3 => UNCHANGED <<ex2Vars, ex4Vars, ex5Vars, ex6Vars>>  BY DEF EX3
<1>4. EX4 => UNCHANGED <<ex2Vars, ex3Vars, ex5Vars, ex6Vars>>  BY DEF EX4
<1>5. EX5 => UNCHANGED <<ex2Vars, ex3Vars, ex4Vars, ex6Vars>>  BY DEF EX5
<1>6. EX6 => UNCHANGED <<ex2Vars, ex3Vars, ex4Vars, ex5Vars>>  BY DEF EX6
<1>7. ActiveEx \/ Terminated \/ UNCHANGED vars
          => UNCHANGED <<ex2Vars, ex3Vars, ex4Vars, ex5Vars, ex6Vars>>
      BY DEF ActiveEx, Terminated, vars
<1> QED  BY <1>1, <1>2, <1>3, <1>4, <1>5, <1>6, <1>7 DEF Next

LEMMA ExercisesStart == Init => ExercisesInv
BY Ex2Starts, Ex3Starts, Ex4Starts, Ex5Starts, Ex6Starts DEF Init, ExercisesInv

LEMMA ExercisesKeep == ExercisesInv /\ [Next]_vars => ExercisesInv'
BY ExercisesAreApart, Ex2Keeps, Ex3Keeps, Ex4Keeps, Ex5Keeps, Ex6Keeps DEF ExercisesInv

\* Each exercise keeps its inductive invariant while main runs them one after the other.
THEOREM ExercisesInvariance == Spec => []ExercisesInv
<1>1. Init => ExercisesInv  BY ExercisesStart
<1>2. ExercisesInv /\ [Next]_vars => ExercisesInv'  BY ExercisesKeep
<1> QED  BY <1>1, <1>2, PTL DEF Spec

LEMMA ExercisesPromise == ExercisesInv => MessagesAreConsumed /\ BuffersAreRespected
BY Ex2Leaves, Ex3Leaves, Ex4IsFifo, Ex5Separates, Ex5Receives, Ex6Gets
DEF ExercisesInv, MessagesAreConsumed, BuffersAreRespected

\* No message is left behind, and the rings are read in order and never under a writer's
\* hands (EX2 to EX6), for any numbers of messages, slots, producers and consumers.
THEOREM ExercisesPromises == Spec => [](MessagesAreConsumed /\ BuffersAreRespected)
<1>1. ExercisesInv => MessagesAreConsumed /\ BuffersAreRespected  BY ExercisesPromise
<1> QED  BY <1>1, ExercisesInvariance, PTL

LEMMA ExercisesQueue ==
    ExercisesInv /\ [Next]_vars => Queue!Next \/ (Elements5' = Elements5 /\ Returned5' = Returned5)
BY ExercisesAreApart, Ex5Queues DEF ExercisesInv

\* FSQEnqueue and FSQDequeue of EX5 implement a bounded first-in first-out queue.
THEOREM RingIsAQueue == Spec => Ex5ImplementsQueue
<1>1. Init => Queue!Init  BY Ex5StartsAQueue DEF Init
<1>2. ExercisesInv /\ [Next]_vars => Queue!Next \/ (Elements5' = Elements5 /\ Returned5' = Returned5)
      BY ExercisesQueue
<1>3. ExercisesInv /\ [Next]_vars => [Queue!Next]_<<Elements5, Returned5>>  BY <1>2
<1> QED  BY <1>1, <1>3, ExercisesInvariance, PTL
         DEF Spec, Ex5ImplementsQueue, Queue!Spec, Elements5, Returned5

=============================================================================
