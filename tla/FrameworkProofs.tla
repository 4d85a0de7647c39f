-------------------------- MODULE FrameworkProofs ---------------------------
(***************************************************************************)
(* The theorems about the framework: its waitable queue, and the parts of  *)
(* Framework (dispatcher, reactor, loader of libraries, logger).           *)
(***************************************************************************)
EXTENDS WaitableQueue, FiniteSetTheorems, SequenceTheorems, TLAPS, Framework

-----------------------------------------------------------------------------
(***************************************************************************)
(* No wakeup is lost, for any number of producers and consumers, timed and *)
(* untimed, and any number of elements.                                    *)
(***************************************************************************)

\* What a set of threads loses or gains by one thread.
LEMMA Sizes ==
    ASSUME NEW S \in SUBSET Threads, NEW c \in Threads
    PROVE  /\ Cardinality(S) \in Nat
           /\ Cardinality(S \cup {c}) \in Nat /\ Cardinality(S \cup {c}) >= Cardinality(S)
           /\ c \notin S => Cardinality(S \cup {c}) = Cardinality(S) + 1
           /\ Cardinality(S \ {c}) \in Nat /\ Cardinality(S \ {c}) >= Cardinality(S) - 1
<1>1. IsFiniteSet(S)  BY FS_Subset, ThreadsAssumption
<1>2. /\ IsFiniteSet(S \cup {c}) /\ IsFiniteSet(S \ {c})
      /\ Cardinality(S \cup {c}) = IF c \in S THEN Cardinality(S) ELSE Cardinality(S) + 1
      /\ Cardinality(S \ {c}) = IF c \in S THEN Cardinality(S) - 1 ELSE Cardinality(S)
      BY <1>1, FS_AddElement, FS_RemoveElement
<1>3. /\ Cardinality(S) \in Nat
      /\ Cardinality(S \cup {c}) \in Nat /\ Cardinality(S \ {c}) \in Nat
      BY <1>1, <1>2, FS_CardinalityType
<1>4. QED  BY <1>2, <1>3

IndInv == TypeOK /\ NoLostWakeup

LEMMA Subsets == Awake \in SUBSET Threads /\ Notifying \in SUBSET Threads
BY DEF Awake, Notifying

\* The invariant holds in every reachable state.
THEOREM Invariance == Spec => []IndInv
<1>1. Init => IndInv
  <2>1. SUFFICES ASSUME Init PROVE IndInv  OBVIOUS
  <2>2. TypeOK  BY <2>1 DEF Init, TypeOK
  <2>3. Asleep = {}  BY <2>1 DEF Init, Asleep
  <2>4. QED  BY <2>2, <2>3 DEF IndInv, NoLostWakeup
<1>2. IndInv /\ [Next]_vars => IndInv'
  <2>1. SUFFICES ASSUME IndInv, Next PROVE IndInv'
    <3>1. IndInv /\ UNCHANGED vars => IndInv'
          BY DEF IndInv, vars, TypeOK, NoLostWakeup, Asleep, Awake, Notifying
    <3>2. QED  BY <3>1
  <2>2. PICK c \in Threads : \/ Push(c) \/ Pop(c) \/ CallStep(c)
                             \/ LockTimeout(c) \/ WakeSpuriously(c) \/ Deadline(c)
        BY <2>1 DEF Next
  <2>3. /\ size \in Nat /\ Cardinality(Awake) \in Nat /\ Cardinality(Notifying) \in Nat
        /\ at \in [Threads -> {"idle", "notify", "calling", "asleep", "awake", "expired"}]
        BY <2>1, <2>2, Subsets, Sizes DEF IndInv, TypeOK
  <2>4. TypeOK'
        BY <2>1, <2>2 DEF IndInv, TypeOK, Push, Pop, CallStep, NotifyOne, Take, Sleep, GiveUp,
           LockTimeout, WakeSpuriously, Deadline, Goto, Asleep
  <2>5. NoLostWakeup'
    <3>1. CASE Push(c)
      <4>1. /\ Asleep' = Asleep /\ Awake' = Awake
            /\ Notifying' = Notifying \cup {c} /\ c \notin Notifying /\ size' = size + 1
            BY <2>3, <3>1 DEF Push, Goto, Asleep, Awake, Notifying
      <4>2. Cardinality(Notifying') = Cardinality(Notifying) + 1  BY <4>1, Subsets, Sizes
      <4>3. QED  BY <2>1, <2>3, <4>1, <4>2 DEF IndInv, NoLostWakeup
    <3>2. CASE NotifyOne(c) /\ Asleep = {}
      <4>1. Asleep' = {}  BY <2>3, <3>2 DEF NotifyOne, Goto, Asleep
      <4>2. QED  BY <4>1 DEF NoLostWakeup
    <3>3. CASE NotifyOne(c) /\ Asleep # {}
      <4>1. PICK d \in Asleep : at' = [at EXCEPT ![c] = "idle", ![d] = "awake"]
            BY <3>3 DEF NotifyOne
      <4>2. /\ d \in Threads /\ at[d] = "asleep" /\ at[c] = "notify" /\ size' = size
            BY <3>3, <4>1 DEF Asleep, NotifyOne
      <4>3. /\ Awake' = Awake \cup {d} /\ d \notin Awake /\ Notifying' = Notifying \ {c}
            BY <2>3, <4>1, <4>2 DEF Awake, Notifying
      <4>4. /\ Cardinality(Awake') = Cardinality(Awake) + 1
            /\ Cardinality(Notifying') >= Cardinality(Notifying) - 1
            /\ Cardinality(Notifying') \in Nat
            BY <4>2, <4>3, Subsets, Sizes
      <4>5. QED  BY <2>1, <2>3, <3>3, <4>2, <4>4 DEF IndInv, NoLostWakeup
    <3>4. CASE Pop(c) \/ LockTimeout(c)
      <4>1. Asleep' = Asleep /\ Awake' = Awake /\ Notifying' = Notifying /\ size' = size
            BY <2>3, <3>4 DEF Pop, LockTimeout, Goto, Asleep, Awake, Notifying
      <4>2. QED  BY <2>1, <4>1 DEF IndInv, NoLostWakeup
    <3>5. CASE Take(c)
      <4>1. /\ Asleep' = Asleep /\ Awake' = Awake \ {c} /\ Notifying' = Notifying
            /\ size' = size - 1
            BY <2>3, <3>5 DEF Take, Goto, Asleep, Awake, Notifying
      <4>2. Cardinality(Awake') >= Cardinality(Awake) - 1 /\ Cardinality(Awake') \in Nat
            BY <4>1, Subsets, Sizes
      <4>3. QED  BY <2>1, <2>3, <4>1, <4>2 DEF IndInv, NoLostWakeup
    <3>6. CASE Sleep(c) \/ GiveUp(c)
      <4>1. Awake' \in SUBSET Threads /\ Notifying' \in SUBSET Threads /\ size' = 0
            BY <3>6 DEF Sleep, GiveUp, Awake, Notifying
      <4>2. Cardinality(Awake') \in Nat /\ Cardinality(Notifying') \in Nat
            BY <4>1, Sizes
      <4>3. QED  BY <4>1, <4>2 DEF NoLostWakeup
    <3>7. CASE WakeSpuriously(c) \/ Deadline(c)
      <4>1. /\ Asleep' \subseteq Asleep /\ Awake' = Awake \cup {c} /\ Notifying' = Notifying
            /\ size' = size
            BY <2>3, <3>7 DEF WakeSpuriously, Deadline, Goto, Asleep, Awake, Notifying
      <4>2. Cardinality(Awake') >= Cardinality(Awake) /\ Cardinality(Awake') \in Nat
            BY <4>1, Subsets, Sizes
      <4>3. QED  BY <2>1, <2>3, <4>1, <4>2 DEF IndInv, NoLostWakeup
    <3>8. QED  BY <2>2, <3>1, <3>2, <3>3, <3>4, <3>5, <3>6, <3>7 DEF CallStep
  <2>6. QED  BY <2>4, <2>5 DEF IndInv
<1>3. QED  BY <1>1, <1>2, PTL DEF Spec

\* While a consumer sleeps, each element has a notification or an awake consumer.
THEOREM WakeupsAreKept == Spec => []NoLostWakeup
<1>1. IndInv => NoLostWakeup  BY DEF IndInv
<1>2. QED  BY <1>1, Invariance, PTL

-----------------------------------------------------------------------------
(***************************************************************************)
(* Dispatchers and callbacks agree on who is subscribed, for any number of *)
(* both and loops in one another to any depth.                             *)
(***************************************************************************)

Loops == [kind : {"notify", "death"}, of : DISPATCHERS, left : SUBSET CALLBACKS]

DispTypeOK ==
    /\ dispatchers \subseteq DISPATCHERS /\ callbacks \subseteq CALLBACKS
    /\ m_callbacks \in [DISPATCHERS -> SUBSET CALLBACKS]
    /\ m_dispatcher \in [CALLBACKS -> DISPATCHERS \cup {NO_DISPATCHER}]
    /\ loops \in Seq(Loops) /\ strays \subseteq CALLBACKS

DeathLoops == {i \in DOMAIN loops : loops[i].kind = "death"}

\* A destructor under way has yet to tell whoever points to its dispatcher, and tells only
\* those that point to nothing else, strays apart; no dispatcher dies twice; the dead point
\* nowhere.
DeathsInOrder ==
    /\ \A i \in DeathLoops : loops[i].of \in dispatchers
    /\ \A i, j \in DeathLoops : loops[i].of = loops[j].of => i = j
    /\ \A i \in DeathLoops : \A c \in CALLBACKS \ strays :
         /\ m_dispatcher[c] = loops[i].of => c \in loops[i].left
         /\ c \in loops[i].left => m_dispatcher[c] \in {NO_DISPATCHER, loops[i].of}
    /\ \A c \in CALLBACKS \ callbacks : m_dispatcher[c] = NO_DISPATCHER

DispIndInv == DispTypeOK /\ DeathsInOrder /\ SubscriptionsAgree

LEMMA DyingAre == Dying = {loops[i].of : i \in DeathLoops}
BY DEF Dying, DeathLoops

\* What a step leaves of the loops when it removes the innermost.
LEMMA LoopsLeft ==
    ASSUME loops \in Seq(Loops), loops # <<>>
    PROVE  /\ Len(loops) \in Nat \ {0} /\ DOMAIN loops = 1 .. Len(loops)
           /\ SubSeq(loops, 1, Len(loops) - 1) \in Seq(Loops)
           /\ DOMAIN SubSeq(loops, 1, Len(loops) - 1) = 1 .. Len(loops) - 1
           /\ \A i \in 1 .. Len(loops) - 1 : SubSeq(loops, 1, Len(loops) - 1)[i] = loops[i]
OBVIOUS

\* The invariant holds in every reachable state.
THEOREM DispInvariance == DispSpec => []DispIndInv
<1>1. DispInit => DispIndInv
      BY NobodyAssumption DEF DispInit, DispIndInv, DispTypeOK, DeathsInOrder, SubscriptionsAgree, DeathLoops, Dying
<1>2. DispIndInv /\ [DispNext]_dispVars => DispIndInv'
  <2>1. SUFFICES ASSUME DispIndInv, DispNext PROVE DispIndInv'
    <3>1. DispIndInv /\ UNCHANGED dispVars => DispIndInv'
          BY DEF DispIndInv, dispVars, DispTypeOK, DeathsInOrder, SubscriptionsAgree, DeathLoops, Dying
    <3>2. QED  BY <3>1
  <2> USE NobodyAssumption
  <2>2. CASE \E d \in DISPATCHERS, c \in CALLBACKS : Subscribe(d, c)
    <3>1. PICK d \in DISPATCHERS, c \in CALLBACKS : Subscribe(d, c)  BY <2>2
    <3>2. DispTypeOK'  BY <2>1, <3>1 DEF DispIndInv, DispTypeOK, Subscribe
    <3>3. DeathLoops' = DeathLoops /\ Dying' = Dying  BY <3>1 DEF Subscribe, DeathLoops, Dying
    <3>4. /\ strays \subseteq strays'
          /\ c \notin strays' => /\ \A i \in DeathLoops : loops[i].of # d /\ c \notin loops[i].left
                                /\ m_dispatcher[c] \in {d, NO_DISPATCHER}
          BY <3>1, DyingAre DEF Subscribe, Strays, HearsOfDeath, DeathLoops
    <3>a. /\ m_dispatcher'[c] = d /\ \A b \in CALLBACKS : b # c => m_dispatcher'[b] = m_dispatcher[b]
          /\ m_callbacks'[d] = m_callbacks[d] \cup {c}
          /\ \A e \in DISPATCHERS : e # d => m_callbacks'[e] = m_callbacks[e]
          /\ c \in callbacks /\ d \in dispatchers
          /\ UNCHANGED <<dispatchers, callbacks, loops>>
          BY <2>1, <3>1 DEF DispIndInv, DispTypeOK, Subscribe
    <3>5. DeathsInOrder'
          BY <2>1, <3>3, <3>4, <3>a DEF DispIndInv, DeathsInOrder
    <3>b. dispatchers \subseteq DISPATCHERS /\ callbacks \subseteq CALLBACKS
          BY <2>1 DEF DispIndInv, DispTypeOK
    <3>6. SubscriptionsAgree'
          BY <2>1, <3>3, <3>4, <3>a, <3>b DEF DispIndInv, SubscriptionsAgree
    <3>7. QED  BY <3>2, <3>5, <3>6 DEF DispIndInv
  <2>3. CASE \E d \in DISPATCHERS, c \in CALLBACKS : Unsubscribe(d, c)
    <3>1. PICK d \in DISPATCHERS, c \in CALLBACKS : Unsubscribe(d, c)  BY <2>3
    <3>2. DispTypeOK'  BY <2>1, <3>1 DEF DispIndInv, DispTypeOK, Unsubscribe
    <3>3. DeathLoops' = DeathLoops /\ Dying' = Dying  BY <3>1 DEF Unsubscribe, DeathLoops, Dying
    <3>4. \A i \in DeathLoops : loops[i].of \in DISPATCHERS
          BY <2>1 DEF DispIndInv, DispTypeOK, DeathsInOrder
    <3>a. /\ m_dispatcher'[c] = NO_DISPATCHER
          /\ \A b \in CALLBACKS : b # c => m_dispatcher'[b] = m_dispatcher[b]
          /\ m_callbacks'[d] = m_callbacks[d] \ {c}
          /\ \A e \in DISPATCHERS : e # d => m_callbacks'[e] = m_callbacks[e]
          /\ strays \subseteq strays'
          /\ c \notin strays' => m_dispatcher[c] \in {d, NO_DISPATCHER}
          /\ UNCHANGED <<dispatchers, callbacks, loops>>
          BY <2>1, <3>1 DEF DispIndInv, DispTypeOK, Unsubscribe
    <3>5. DeathsInOrder'
          BY <2>1, <3>3, <3>4, <3>a DEF DispIndInv, DeathsInOrder
    <3>b. dispatchers \subseteq DISPATCHERS /\ callbacks \subseteq CALLBACKS
          BY <2>1 DEF DispIndInv, DispTypeOK
    <3>6. SubscriptionsAgree'
          BY <2>1, <3>3, <3>a, <3>b DEF DispIndInv, SubscriptionsAgree
    <3>7. QED  BY <3>2, <3>5, <3>6 DEF DispIndInv
  <2>4. CASE \E c \in CALLBACKS : DestroyCallback(c)
    <3>1. PICK c \in CALLBACKS : DestroyCallback(c)  BY <2>4
    <3>2. DispTypeOK'  BY <2>1, <3>1 DEF DispIndInv, DispTypeOK, DestroyCallback
    <3>3. DeathLoops' = DeathLoops /\ Dying' = Dying  BY <3>1 DEF DestroyCallback, DeathLoops, Dying
    <3>4. \A i \in DeathLoops : loops[i].of \in DISPATCHERS
          BY <2>1 DEF DispIndInv, DispTypeOK, DeathsInOrder
    <3>5. DeathsInOrder'
          BY <2>1, <3>1, <3>3, <3>4 DEF DispIndInv, DispTypeOK, DeathsInOrder, DestroyCallback
    <3>6. SubscriptionsAgree'
          BY <2>1, <3>1, <3>3 DEF DispIndInv, DispTypeOK, SubscriptionsAgree, DestroyCallback
    <3>7. QED  BY <3>2, <3>5, <3>6 DEF DispIndInv
  <2>5. CASE \E d \in DISPATCHERS : NotifyAll(d) \/ DestroyDispatcher(d)
    <3>1. PICK d \in DISPATCHERS, kind \in {"notify", "death"} :
            Loop(kind, d) /\ (kind = "death" => d \notin Dying)
          BY <2>5 DEF NotifyAll, DestroyDispatcher
    <3> DEFINE n == Len(loops) + 1
               new == [kind |-> kind, of |-> d, left |-> m_callbacks[d]]
    <3>2. new \in Loops  BY <2>1 DEF DispIndInv, DispTypeOK, Loops
    <3>3. /\ n \in Nat \ {0} /\ n \notin DOMAIN loops /\ DOMAIN loops' = DOMAIN loops \cup {n}
          /\ loops'[n] = new /\ \A i \in DOMAIN loops : loops'[i] = loops[i]
          BY <2>1, <3>1, <3>2 DEF DispIndInv, DispTypeOK, Loop
    <3>4. DispTypeOK'  BY <2>1, <3>1, <3>2 DEF DispIndInv, DispTypeOK, Loop
    <3>5. DeathLoops' = IF kind = "death" THEN DeathLoops \cup {n} ELSE DeathLoops
          BY <3>3 DEF DeathLoops
    <3>6. \A i \in DeathLoops :
            loops'[i] = loops[i] /\ i # n /\ (kind = "death" => loops[i].of # d)
          BY <3>1, <3>3, DyingAre DEF DeathLoops
    <3>7. d \in dispatchers /\ (kind = "death" => d \notin Dying)
          BY <3>1 DEF Loop
    <3>8. d \notin Dying => \A c \in CALLBACKS \ strays : c \in m_callbacks[d] <=> m_dispatcher[c] = d
          BY <2>1, <3>7 DEF DispIndInv, DispTypeOK, SubscriptionsAgree, DeathsInOrder
    <3>. HIDE DEF n, new
    <3>9. DeathsInOrder'
      <4>1. UNCHANGED <<dispatchers, callbacks, m_dispatcher, strays>>  BY <3>1 DEF Loop
      <4>a. DeathsInOrder  BY <2>1 DEF DispIndInv
      <4>2. CASE kind = "notify"
        <5>1. DeathLoops' = DeathLoops  BY <3>5, <4>2
        <5>2. \A i \in DeathLoops : loops'[i] = loops[i]  BY <3>6
        <5>3. QED  BY <4>1, <4>a, <5>1, <5>2 DEF DeathsInOrder
      <4>3. CASE kind = "death"
        <5>0. DeathLoops' = DeathLoops \cup {n}  BY <3>5, <4>3
        <5>a. loops'[n].of = d /\ loops'[n].left = m_callbacks[d]  BY <3>3 DEF new
        <5>b. \A i \in DeathLoops : loops'[i] = loops[i] /\ loops[i].of # d  BY <3>6, <4>3
        <5>1. \A i \in DeathLoops' : loops'[i].of \in dispatchers'
              BY <3>7, <4>1, <4>a, <5>0, <5>a, <5>b DEF DeathsInOrder
        <5>2. ASSUME NEW i \in DeathLoops', NEW j \in DeathLoops', loops'[i].of = loops'[j].of
              PROVE  i = j
          <6>1. CASE i = n /\ j = n  BY <6>1
          <6>2. CASE i = n /\ j # n  BY <5>0, <5>2, <5>a, <5>b, <6>2
          <6>3. CASE i # n /\ j = n  BY <5>0, <5>2, <5>a, <5>b, <6>3
          <6>4. CASE i # n /\ j # n  BY <4>a, <5>0, <5>2, <5>b, <6>4 DEF DeathsInOrder
          <6>5. QED  BY <6>1, <6>2, <6>3, <6>4
        <5>3. ASSUME NEW i \in DeathLoops', NEW c \in CALLBACKS \ strays
              PROVE  /\ m_dispatcher[c] = loops'[i].of => c \in loops'[i].left
                     /\ c \in loops'[i].left => m_dispatcher[c] \in {NO_DISPATCHER, loops'[i].of}
          <6>1. CASE i = n  BY <3>7, <3>8, <4>3, <5>a, <6>1
          <6>2. CASE i # n
            <7>1. i \in DeathLoops /\ loops'[i] = loops[i]  BY <5>0, <5>b, <6>2
            <7>2. /\ m_dispatcher[c] = loops[i].of => c \in loops[i].left
                  /\ c \in loops[i].left => m_dispatcher[c] \in {NO_DISPATCHER, loops[i].of}
                  BY <4>a, <7>1 DEF DeathsInOrder
            <7>3. QED  BY <7>1, <7>2
          <6>3. QED  BY <6>1, <6>2
        <5>4. QED  BY <4>1, <4>a, <5>1, <5>2, <5>3 DEF DeathsInOrder
      <4>4. QED  BY <4>2, <4>3
    <3>10. Dying \subseteq Dying'
      <4>1. Dying' = {loops'[i].of : i \in DeathLoops'}  BY DEF Dying, DeathLoops
      <4>2. \A i \in DeathLoops : i \in DeathLoops' /\ loops'[i] = loops[i]  BY <3>5, <3>6
      <4>3. QED  BY <4>1, <4>2, DyingAre
    <3>11. SubscriptionsAgree'  BY <2>1, <3>1, <3>10 DEF DispIndInv, SubscriptionsAgree, Loop
    <3>12. QED  BY <3>4, <3>9, <3>11 DEF DispIndInv
  <2>6. CASE NotifyNext
    <3> DEFINE n == Len(loops)
    <3>1. PICK c \in Innermost.left :
            /\ loops' = [loops EXCEPT ![n].left = @ \ {c}]
            /\ IF Innermost.kind = "death" THEN NotifyDeath(c) ELSE UNCHANGED m_dispatcher
          BY <2>6 DEF NotifyNext
    <3>2. /\ loops # <<>> /\ UNCHANGED <<dispatchers, callbacks, m_callbacks, strays>>
          /\ n \in DOMAIN loops /\ loops[n] \in Loops /\ c \in CALLBACKS /\ c \in loops[n].left
      <4>1. /\ loops # <<>> /\ UNCHANGED <<dispatchers, callbacks, m_callbacks, strays>>
            /\ c \in loops[n].left
            BY <2>6, <3>1 DEF NotifyNext, Innermost
      <4>2. n \in DOMAIN loops /\ loops[n] \in Loops
            BY <2>1, <4>1 DEF DispIndInv, DispTypeOK
      <4>3. QED  BY <4>1, <4>2 DEF Loops
    <3>3. /\ DOMAIN loops' = DOMAIN loops
          /\ \A i \in DOMAIN loops : loops'[i].kind = loops[i].kind /\ loops'[i].of = loops[i].of
          /\ \A i \in DOMAIN loops : i # n => loops'[i] = loops[i]
          /\ loops'[n].left = loops[n].left \ {c}
          BY <2>1, <3>1, <3>2 DEF DispIndInv, DispTypeOK, Loops
    <3>4. DeathLoops' = DeathLoops /\ Dying' = Dying  BY <3>3 DEF DeathLoops, Dying
    <3>5. DispTypeOK'
      <4> DEFINE loop == [loops[n] EXCEPT !.left = @ \ {c}]
      <4>0. loop \in Loops  BY <3>2 DEF Loops
      <4>1. loops' \in Seq(Loops)
        <5>1. loops' = [loops EXCEPT ![n] = loop]  BY <3>1, Zenon
        <5> HIDE DEF loop
        <5>2. QED  BY <2>1, <3>2, <4>0, <5>1 DEF DispIndInv, DispTypeOK
      <4>2. QED  BY <2>1, <3>1, <3>2, <4>1 DEF DispIndInv, DispTypeOK, NotifyDeath
    <3>6. CASE Innermost.kind = "notify"
      <4>1. n \notin DeathLoops /\ m_dispatcher' = m_dispatcher
            BY <3>1, <3>6 DEF DeathLoops, Innermost
      <4>2. \A i \in DeathLoops : loops'[i] = loops[i]  BY <3>3, <4>1 DEF DeathLoops
      <4>3. DeathsInOrder'  BY <2>1, <3>2, <3>4, <4>1, <4>2 DEF DispIndInv, DeathsInOrder
      <4>4. SubscriptionsAgree'  BY <2>1, <3>2, <3>4, <4>1 DEF DispIndInv, SubscriptionsAgree
      <4>5. QED  BY <3>5, <4>3, <4>4 DEF DispIndInv
    <3>7. CASE Innermost.kind = "death"
      <4>1. n \in DeathLoops /\ m_dispatcher' = [m_dispatcher EXCEPT ![c] = NO_DISPATCHER]
            BY <3>1, <3>2, <3>7 DEF DeathLoops, Innermost, NotifyDeath
      <4>2. /\ c \notin strays => m_dispatcher[c] \in {NO_DISPATCHER, loops[n].of}
            /\ loops[n].of \in Dying
            BY <2>1, <3>2, <4>1, DyingAre DEF DispIndInv, DeathsInOrder
      <4>3. /\ m_dispatcher'[c] = NO_DISPATCHER
            /\ \A b \in CALLBACKS : b # c => m_dispatcher'[b] = m_dispatcher[b]
            BY <2>1, <3>2, <4>1 DEF DispIndInv, DispTypeOK
      <4>4. \A i \in DeathLoops :
              /\ loops'[i].of = loops[i].of /\ loops[i].of # NO_DISPATCHER
              /\ loops'[i].left \subseteq loops[i].left
              /\ \A b \in loops[i].left : b # c => b \in loops'[i].left
        <5> SUFFICES ASSUME NEW i \in DeathLoops
                     PROVE  /\ loops'[i].of = loops[i].of /\ loops[i].of # NO_DISPATCHER
                            /\ loops'[i].left \subseteq loops[i].left
                            /\ \A b \in loops[i].left : b # c => b \in loops'[i].left
            OBVIOUS
        <5>1. i \in DOMAIN loops /\ loops[i] \in Loops  BY <2>1 DEF DispIndInv, DispTypeOK, DeathLoops
        <5>2. loops'[i].of = loops[i].of /\ loops[i].of # NO_DISPATCHER  BY <3>3, <5>1 DEF Loops
        <5>3. CASE i = n  BY <3>3, <5>2, <5>3
        <5>4. CASE i # n  BY <3>3, <5>1, <5>2, <5>4
        <5>5. QED  BY <5>3, <5>4
      <4>5. DeathsInOrder'
            BY <2>1, <3>2, <3>4, <4>3, <4>4 DEF DispIndInv, DeathsInOrder
      <4>6. SubscriptionsAgree'
        <5>1. dispatchers \subseteq DISPATCHERS /\ NO_DISPATCHER \notin dispatchers /\ callbacks \subseteq CALLBACKS
              /\ \A d \in dispatchers : m_callbacks[d] \subseteq CALLBACKS
              BY <2>1 DEF DispIndInv, DispTypeOK
        <5>2. \A d \in dispatchers \ Dying : c \notin m_callbacks[d] \ strays
              BY <2>1, <4>2, <5>1 DEF DispIndInv, SubscriptionsAgree
        <5>3. QED  BY <2>1, <3>2, <3>4, <4>3, <5>1, <5>2 DEF DispIndInv, SubscriptionsAgree
      <4>7. QED  BY <3>5, <4>5, <4>6 DEF DispIndInv
    <3>8. QED  BY <2>1, <3>2, <3>6, <3>7 DEF Innermost, Loops
  <2>7. CASE LoopEnds
    <3> DEFINE n == Len(loops)
    <3>1. /\ n \in Nat \ {0} /\ DOMAIN loops = 1 .. n /\ loops[n] \in Loops
          /\ loops' \in Seq(Loops) /\ DOMAIN loops' = 1 .. n - 1
          /\ \A i \in 1 .. n - 1 : loops'[i] = loops[i]
          BY <2>1, <2>7, LoopsLeft DEF DispIndInv, DispTypeOK, LoopEnds
    <3>2. /\ loops[n].left = {} /\ UNCHANGED <<callbacks, m_dispatcher, strays>>
          BY <2>7 DEF LoopEnds, Innermost
    <3>3. DeathLoops' = DeathLoops \ {n} /\ \A i \in DeathLoops' : loops'[i] = loops[i]
          BY <3>1 DEF DeathLoops
    <3>4. CASE Innermost.kind = "notify"
      <4>1. n \notin DeathLoops /\ UNCHANGED <<dispatchers, m_callbacks>>
            BY <2>7, <3>4 DEF DeathLoops, Innermost, LoopEnds
      <4>2. DeathLoops' = DeathLoops /\ Dying' = Dying
        <5>1. DeathLoops' = DeathLoops  BY <3>3, <4>1
        <5>2. QED  BY <3>1, <3>3, <5>1 DEF Dying, DeathLoops
      <4>3. DispTypeOK'  BY <2>1, <3>1, <3>2, <4>1 DEF DispIndInv, DispTypeOK
      <4>4. DeathsInOrder'  BY <2>1, <3>2, <3>3, <4>1, <4>2 DEF DispIndInv, DeathsInOrder
      <4>5. SubscriptionsAgree'  BY <2>1, <3>2, <4>1, <4>2 DEF DispIndInv, SubscriptionsAgree
      <4>6. QED  BY <4>3, <4>4, <4>5 DEF DispIndInv
    <3>5. CASE Innermost.kind = "death"
      <4> DEFINE d == loops[n].of
      <4>1. /\ n \in DeathLoops /\ d \in DISPATCHERS /\ dispatchers' = dispatchers \ {d}
            /\ m_callbacks' = [m_callbacks EXCEPT ![d] = {}]
            BY <2>7, <3>1, <3>5 DEF DeathLoops, Innermost, LoopEnds, Loops
      <4>2. \A c \in CALLBACKS \ strays : m_dispatcher[c] # d
            BY <2>1, <3>2, <4>1 DEF DispIndInv, DeathsInOrder
      <4>3. \A i \in DeathLoops' : i \in DeathLoops /\ loops[i].of # d
            BY <2>1, <3>3, <4>1 DEF DispIndInv, DeathsInOrder
      <4>4. DispTypeOK'  BY <2>1, <3>1, <3>2, <4>1 DEF DispIndInv, DispTypeOK
      <4>5. DeathsInOrder'
        <5> HIDE DEF d
        <5>1. QED  BY <2>1, <3>2, <3>3, <4>1, <4>3 DEF DispIndInv, DeathsInOrder
      <4>6. dispatchers' \ Dying' = dispatchers \ Dying
        <5>1. Dying \subseteq Dying' \cup {d}
          <6>1. \A i \in DeathLoops : i # n => i \in DeathLoops' /\ loops'[i].of = loops[i].of
                BY <3>3
          <6>2. QED  BY <6>1, DyingAre DEF Dying, DeathLoops
        <5>2. Dying' \subseteq Dying /\ d \in Dying
              BY <3>1, <3>3, <4>1, DyingAre DEF Dying, DeathLoops
        <5>3. QED  BY <4>1, <5>1, <5>2
      <4>7. SubscriptionsAgree'
        <5>1. /\ \A e \in dispatchers' : m_callbacks'[e] = m_callbacks[e] /\ e \in dispatchers
              /\ callbacks \subseteq CALLBACKS
              BY <2>1, <4>1 DEF DispIndInv, DispTypeOK
        <5>2. \A c \in callbacks \ strays :
                m_dispatcher[c] # NO_DISPATCHER => m_dispatcher[c] \in dispatchers'
              BY <2>1, <4>1, <4>2, <5>1 DEF DispIndInv, SubscriptionsAgree
        <5>3. QED  BY <2>1, <3>2, <4>6, <5>1, <5>2 DEF DispIndInv, SubscriptionsAgree
      <4>8. QED  BY <4>4, <4>5, <4>7 DEF DispIndInv
    <3>6. QED  BY <3>1, <3>4, <3>5 DEF Innermost, Loops
  <2>8. QED  BY <2>1, <2>2, <2>3, <2>4, <2>5, <2>6, <2>7 DEF DispNext
<1>3. QED  BY <1>1, <1>2, PTL DEF DispSpec

\* A dispatcher that is not being destroyed and its callbacks point to one another, but for
\* those that have been subscribed to two at once.
THEOREM SubscriptionsAlwaysAgree == DispSpec => []SubscriptionsAgree
<1>1. DispIndInv => SubscriptionsAgree  BY DEF DispIndInv
<1>2. QED  BY <1>1, DispInvariance, PTL

-----------------------------------------------------------------------------
(***************************************************************************)
(* The parts of Framework are separate: a theorem about one of them is     *)
(* proved from its own steps.                                              *)
(***************************************************************************)

\* A step of the framework is one of the part at work, and the others rest.
LEMMA PartSteps ==
    ASSUME [FrameworkNext]_fwVars
    PROVE  /\ UNCHANGED part
           /\ (part = "Reactor" /\ ReactorNext) \/ UNCHANGED reactorVars
           /\ (part = "DirMonitor" /\ DirMonitorNext) \/ UNCHANGED dmVars
           /\ (part = "Logger" /\ LoggerNext) \/ UNCHANGED logVars
<1>1. CASE UNCHANGED fwVars  BY <1>1 DEF fwVars
<1>2. CASE FrameworkNext  BY <1>2 DEF FrameworkNext, In
<1>3. QED  BY <1>1, <1>2

-----------------------------------------------------------------------------
(***************************************************************************)
(* The reactor calls no handler older than its last Listen, and none once  *)
(* stopped, for any handles, orders of ready pairs and nested calls of Run.*)
(***************************************************************************)

\* A call of Run: what it listens to, the ready pairs of the batch it has not served yet,
\* the handler it is in.
Calls == [copy : [HANDLES -> Nat], ready : Seq(HANDLES), handler : Nat]

ReactorTypeOK ==
    /\ m_handlers \in [HANDLES -> Nat] /\ added \in Nat /\ m_isRunning \in BOOLEAN
    /\ runs \in Seq(Calls)

\* What is left of the batch of the innermost run is current, unless the reactor was
\* stopped: then it is not served.  The runs around it are each in a handler.
BatchIsCurrent ==
    /\ \A i \in 1 .. Len(runs) : i < Len(runs) => runs[i].handler # 0
    /\ runs # <<>> =>
         LET run == runs[Len(runs)] IN
         /\ run.handler = 0 => m_isRunning
         /\ m_isRunning => \A i \in 1 .. Len(run.ready) : run.copy[run.ready[i]] \notin retired

ReactorInv == ReactorTypeOK /\ BatchIsCurrent

\* An order of the ready pairs is a sequence of pairs.
LEMMA OrdersAreSequences ==
    ASSUME NEW ready \in SUBSET HANDLES, NEW order \in SetToSeqs(ready)
    PROVE  order \in Seq(HANDLES) /\ \A i \in 1 .. Len(order) : order[i] \in ready
<1>1. Cardinality(ready) \in Nat  BY HandlesAssumption, FS_Subset, FS_CardinalityType
<1>2. order \in [1 .. Cardinality(ready) -> ready]  BY DEF SetToSeqs
<1>3. QED  BY <1>1, <1>2

\* What a step that writes one call of Run (Listen's new batch, the call of the next
\* handler, its return) leaves of the others.
LEMMA RunChanges ==
    ASSUME runs \in Seq(Calls), NEW n \in 1 .. Len(runs), NEW run \in Calls,
           runs' = [runs EXCEPT ![n] = run]
    PROVE  /\ runs' \in Seq(Calls) /\ Len(runs') = Len(runs) /\ runs'[n] = run
           /\ \A i \in 1 .. Len(runs) : i # n => runs'[i] = runs[i]
OBVIOUS

\* A call whose handler has returned keeps its batch.
LEMMA HandlerReset ==
    ASSUME NEW run \in Calls
    PROVE  [run EXCEPT !.handler = 0] = [copy |-> run.copy, ready |-> run.ready, handler |-> 0]
BY DEF Calls

\* The same of a call on the stack of calls of Run.
LEMMA HandlerCleared ==
    ASSUME runs \in Seq(Calls), NEW n \in 1 .. Len(runs)
    PROVE  LET run == [copy |-> runs[n].copy, ready |-> runs[n].ready, handler |-> 0] IN
           run \in Calls /\ [runs EXCEPT ![n].handler = 0] = [runs EXCEPT ![n] = run]
<1>1. runs[n] \in Calls  OBVIOUS
<1>2. [runs[n] EXCEPT !.handler = 0] = [copy |-> runs[n].copy, ready |-> runs[n].ready, handler |-> 0]
      BY <1>1, HandlerReset, Zenon
<1>3. [runs EXCEPT ![n].handler = 0] = [runs EXCEPT ![n] = [runs[n] EXCEPT !.handler = 0]]
      OBVIOUS
<1>4. QED  BY <1>1, <1>2, <1>3 DEF Calls

\* The invariant holds in every reachable state.
THEOREM ReactorInvariance == FrameworkSpec => []ReactorInv
<1>1. FrameworkInit => ReactorInv
  <2>1. SUFFICES ASSUME ReactorInit PROVE ReactorInv  BY DEF FrameworkInit
  <2>2. ReactorTypeOK
    <3>1. <<>> \in Seq(Calls)  OBVIOUS
    <3>2. QED  BY <2>1, <3>1 DEF ReactorInit, ReactorTypeOK
  <2>3. runs = <<>> /\ Len(runs) = 0  BY <2>1 DEF ReactorInit
  <2>4. QED  BY <2>2, <2>3 DEF ReactorInv, BatchIsCurrent
<1>2. ReactorInv /\ [FrameworkNext]_fwVars => ReactorInv'
  <2>1. SUFFICES ASSUME ReactorInv, ReactorNext PROVE ReactorInv'
    <3>1. ReactorInv /\ UNCHANGED reactorVars => ReactorInv'
          BY DEF ReactorInv, reactorVars, ReactorTypeOK, BatchIsCurrent
    <3>2. QED  BY <3>1, PartSteps
  <2> USE <2>1 DEF ReactorInv, ReactorTypeOK, BatchIsCurrent
  <2>2. ASSUME NEW k \in HANDLES, ReactorAdd(k) PROVE ReactorInv'
        BY <2>2 DEF ReactorAdd
  <2>3. ASSUME NEW k \in HANDLES, ReactorRemove(k) PROVE ReactorInv'
        BY <2>3 DEF ReactorRemove
  <2>4. CASE ReactorStop
        BY <2>4 DEF ReactorStop, ClientRuns, Top
  <2>5. CASE ReactorRun
    <3>1. ReactorTypeOK'  BY <2>5 DEF ReactorRun, Calls
    <3>2. /\ Len(runs') = Len(runs) + 1 /\ \A i \in 1 .. Len(runs) : runs'[i] = runs[i]
          /\ runs'[Len(runs')].ready = <<>>
          BY <2>5 DEF ReactorRun
    <3>3. BatchIsCurrent'  BY <2>5, <3>2 DEF ReactorRun, ClientRuns, Top
    <3>4. QED  BY <3>1, <3>3
  <2>6. CASE Listen
    <3>1. PICK ready \in SUBSET {k \in HANDLES : m_handlers[k] # 0} : \E order \in SetToSeqs(ready) :
            runs' = [runs EXCEPT ![Top] = [copy |-> m_handlers, ready |-> order, handler |-> 0]]
          BY <2>6 DEF Listen
    <3>2. PICK order \in SetToSeqs(ready) :
            runs' = [runs EXCEPT ![Top] = [copy |-> m_handlers, ready |-> order, handler |-> 0]]
          BY <3>1
    <3>3. order \in Seq(HANDLES)  BY OrdersAreSequences
    <3>4. Top \in 1 .. Len(runs) /\ m_isRunning  BY <2>6 DEF Listen, Top
    <3>5. /\ runs' \in Seq(Calls) /\ Len(runs') = Len(runs)
          /\ \A i \in 1 .. Len(runs) : i # Top => runs'[i] = runs[i]
          /\ runs'[Top] = [copy |-> m_handlers, ready |-> order, handler |-> 0]
      <4>1. [copy |-> m_handlers, ready |-> order, handler |-> 0] \in Calls  BY <3>3 DEF Calls
      <4>2. QED  BY <3>2, <3>4, <4>1, RunChanges
    <3>6. ReactorTypeOK'  BY <2>6, <3>5 DEF Listen
    <3>7. /\ \A k \in HANDLES : m_handlers[k] \notin retired'
          /\ UNCHANGED m_isRunning /\ runs # <<>>
          BY <2>6 DEF Listen
    <3>8. \A i \in 1 .. Len(order) : order[i] \in HANDLES  BY <3>3
    <3>9. BatchIsCurrent'
      <4>1. \A i \in 1 .. Len(runs') : i < Len(runs') => runs'[i].handler # 0
            BY <3>4, <3>5 DEF Top
      <4>2. runs'[Len(runs')] = [copy |-> m_handlers, ready |-> order, handler |-> 0]
            BY <3>5 DEF Top
      <4>3. \A i \in 1 .. Len(order) : m_handlers[order[i]] \notin retired'  BY <3>7, <3>8
      <4>4. QED  BY <3>4, <3>7, <4>1, <4>2, <4>3
    <3>10. QED  BY <3>6, <3>9
  <2>7. CASE CallHandler
    <3> DEFINE run == runs[Top]
               called == [copy |-> run.copy, ready |-> Tail(run.ready), handler |-> run.copy[Head(run.ready)]]
    <3>1. /\ Top \in 1 .. Len(runs) /\ Top = Len(runs) /\ run \in Calls
          /\ run.handler = 0 /\ run.ready # <<>>
          BY <2>7 DEF CallHandler, Top
    <3>2. /\ run.ready \in Seq(HANDLES) /\ run.copy \in [HANDLES -> Nat]
          /\ Head(run.ready) \in HANDLES /\ Tail(run.ready) \in Seq(HANDLES)
          /\ Len(Tail(run.ready)) = Len(run.ready) - 1 /\ Len(run.ready) \in Nat
          /\ \A i \in 1 .. Len(run.ready) - 1 : Tail(run.ready)[i] = run.ready[i + 1]
          BY <3>1 DEF Calls
    <3>3. called \in Calls  BY <3>2 DEF Calls
    <3>4. runs' = [runs EXCEPT ![Top] = called]  BY <2>7 DEF CallHandler
    <3> HIDE DEF called
    <3>5. /\ runs' \in Seq(Calls) /\ Len(runs') = Len(runs) /\ runs'[Top] = called
          /\ \A i \in 1 .. Len(runs) : i # Top => runs'[i] = runs[i]
          BY <3>1, <3>3, <3>4, RunChanges
    <3>6. ReactorTypeOK'  BY <2>7, <3>5 DEF CallHandler
    <3>7. m_isRunning /\ UNCHANGED <<m_isRunning, retired>> /\ runs # <<>>
          BY <2>7, <3>1 DEF CallHandler
    <3>8. \A i \in 1 .. Len(run.ready) : run.copy[run.ready[i]] \notin retired
          BY <3>1, <3>7
    <3>9. \A i \in 1 .. Len(Tail(run.ready)) : run.copy[Tail(run.ready)[i]] \notin retired
      <4>1. SUFFICES ASSUME NEW i \in 1 .. Len(Tail(run.ready))
                     PROVE  run.copy[Tail(run.ready)[i]] \notin retired
            OBVIOUS
      <4>2. i + 1 \in 1 .. Len(run.ready) /\ Tail(run.ready)[i] = run.ready[i + 1]  BY <3>2
      <4>3. QED  BY <3>8, <4>2
    <3>10. called.copy = run.copy /\ called.ready = Tail(run.ready)  BY DEF called
    <3>11. \A i \in 1 .. Len(runs') : i < Len(runs') => runs'[i].handler # 0  BY <3>1, <3>5
    <3>12. BatchIsCurrent'  BY <3>1, <3>5, <3>7, <3>9, <3>10, <3>11
    <3>13. QED  BY <3>6, <3>12
  <2>8. CASE HandlerReturns
    <3>1. /\ Top \in 1 .. Len(runs) /\ Top = Len(runs) /\ runs # <<>>
          /\ UNCHANGED <<m_handlers, m_isRunning, added, retired>>
          BY <2>8 DEF HandlerReturns, Top
    <3>2. CASE m_isRunning
      <4> DEFINE run == [copy |-> runs[Top].copy, ready |-> runs[Top].ready, handler |-> 0]
      <4>1. run \in Calls /\ runs' = [runs EXCEPT ![Top] = run]
            BY <2>8, <3>1, <3>2, HandlerCleared DEF HandlerReturns
      <4>2. run.ready = runs[Top].ready /\ run.copy = runs[Top].copy  OBVIOUS
      <4> HIDE DEF run
      <4>3. /\ runs' \in Seq(Calls) /\ Len(runs') = Len(runs) /\ runs'[Top] = run
            /\ \A i \in 1 .. Len(runs) : i # Top => runs'[i] = runs[i]
            BY <3>1, <4>1, RunChanges
      <4>4. QED  BY <3>1, <3>2, <4>2, <4>3
    <3>3. CASE ~m_isRunning
      <4>1. runs' = SubSeq(runs, 1, Len(runs) - 1)  BY <2>8, <3>3 DEF HandlerReturns, Top
      <4>2. /\ runs' \in Seq(Calls) /\ Len(runs') = Len(runs) - 1
            /\ \A i \in 1 .. Len(runs) - 1 : runs'[i] = runs[i]
            BY <3>1, <4>1
      <4>3. QED  BY <3>1, <3>3, <4>2
    <3>4. QED  BY <3>2, <3>3
  <2>9. QED  BY <2>1, <2>2, <2>3, <2>4, <2>5, <2>6, <2>7, <2>8 DEF ReactorNext
<1>3. QED  BY <1>1, <1>2, PTL DEF FrameworkSpec

\* Run serves a copy of the map of handlers while handlers add, remove, stop and run it
\* again: what it calls was not retired before its last Listen, and after Stop it calls none.
THEOREM HandlersAlwaysCurrent == FrameworkSpec => HandlersAreCurrent
<1>1. ReactorInv /\ [FrameworkNext]_fwVars => [part = "Reactor" => OldHandlersRest]_fwVars
  <2>1. SUFFICES ASSUME ReactorInv, ReactorNext PROVE OldHandlersRest
    <3>1. UNCHANGED reactorVars => OldHandlersRest  BY DEF reactorVars, OldHandlersRest, Top
    <3>2. QED  BY <3>1, PartSteps
  <2> USE DEF OldHandlersRest
  <2>2. ASSUME NEW k \in HANDLES, ReactorAdd(k) \/ ReactorRemove(k) PROVE OldHandlersRest
        BY <2>2 DEF ReactorAdd, ReactorRemove, Top
  <2>3. CASE ReactorStop  BY <2>3 DEF ReactorStop, Top
  <2>4. CASE ReactorRun  BY <2>1, <2>4 DEF ReactorRun, Top, ReactorInv, ReactorTypeOK
  <2>5. CASE Listen
    <3>1. PICK run : runs' = [runs EXCEPT ![Top] = run] /\ run.handler = 0
          BY <2>5 DEF Listen
    <3>2. Top \in 1 .. Len(runs)  BY <2>1, <2>5 DEF Listen, Top, ReactorInv, ReactorTypeOK
    <3>3. runs'[Top].handler = 0  BY <2>1, <3>1, <3>2 DEF ReactorInv, ReactorTypeOK
    <3>4. QED  BY <3>3
  <2>6. CASE CallHandler
    <3> DEFINE run == runs[Top]
    <3>1. /\ Top \in 1 .. Len(runs) /\ Top = Len(runs) /\ runs # <<>> /\ run \in Calls
          /\ run.handler = 0 /\ run.ready # <<>>
          BY <2>1, <2>6 DEF CallHandler, Top, ReactorInv, ReactorTypeOK
    <3>2. run.ready \in Seq(HANDLES)  BY <3>1 DEF Calls
    <3>3. Head(run.ready) = run.ready[1] /\ 1 \in 1 .. Len(run.ready)  BY <3>1, <3>2
    <3>4. m_isRunning /\ run.copy[run.ready[1]] \notin retired
          BY <2>1, <3>1, <3>3 DEF ReactorInv, BatchIsCurrent
    <3> DEFINE called == [copy |-> run.copy, ready |-> Tail(run.ready), handler |-> run.copy[Head(run.ready)]]
    <3>5. runs' = [runs EXCEPT ![Top] = called] /\ called.handler = run.copy[Head(run.ready)]
          BY <2>6 DEF CallHandler
    <3> HIDE DEF called
    <3>6. runs'[Top].handler = run.copy[Head(run.ready)]
          BY <2>1, <3>1, <3>5 DEF ReactorInv, ReactorTypeOK
    <3>7. QED  BY <3>3, <3>4, <3>6
  <2>7. CASE HandlerReturns
    <3>1. runs \in Seq(Calls) /\ Top \in 1 .. Len(runs) /\ Top = Len(runs)
          BY <2>1, <2>7 DEF HandlerReturns, Top, ReactorInv, ReactorTypeOK
    <3>2. CASE m_isRunning
      <4>1. PICK run \in Calls : runs' = [runs EXCEPT ![Top] = run] /\ run.handler = 0
            BY <2>7, <3>1, <3>2, HandlerCleared DEF HandlerReturns
      <4>2. runs'[Top].handler = 0  BY <3>1, <4>1
      <4>3. QED  BY <4>2
    <3>3. CASE ~m_isRunning
      <4>1. runs' = SubSeq(runs, 1, Top - 1)  BY <2>7, <3>3 DEF HandlerReturns
      <4>2. Len(runs') = Top - 1  BY <3>1, <4>1
      <4>3. QED  BY <3>1, <4>2
    <3>4. QED  BY <3>2, <3>3
  <2>8. QED  BY <2>1, <2>2, <2>3, <2>4, <2>5, <2>6, <2>7 DEF ReactorNext
<1>2. QED  BY <1>1, ReactorInvariance, PTL DEF FrameworkSpec, HandlersAreCurrent

-----------------------------------------------------------------------------
(***************************************************************************)
(* The loader keeps no closed library, for any files and types of event.   *)
(***************************************************************************)

\* The loader's map, its subscriptions and the open libraries.
LoaderTypeOK == /\ subscribers \subseteq Types
                /\ m_handles \in [PATHS -> {"open", "null", "none"}]
                /\ opened \in [PATHS -> Nat]

\* A library the map says is open is open.
LoaderInv == LoaderTypeOK /\ \A p \in PATHS : m_handles[p] = "open" => opened[p] > 0

\* After a load of p every entry that the map says is open is still counted as open.
LEMMA EntryOpened ==
    ASSUME NEW p, NEW handles \in [PATHS -> {"open", "null", "none"}], NEW count \in [PATHS -> Nat],
           \A q \in PATHS : handles[q] = "open" => count[q] > 0,
           Opened(handles, count, p)
    PROVE  /\ m_handles' \in [PATHS -> {"open", "null", "none"}] /\ opened' \in [PATHS -> Nat]
           /\ \A q \in PATHS : m_handles'[q] = "open" => opened'[q] > 0
<1>1. CASE p \in PATHS
  <2>1. opened' \in [PATHS -> Nat] /\ \A q \in PATHS : opened'[q] >= count[q]
        BY <1>1 DEF Opened
  <2>2. CanOpen(p) => opened'[p] > 0  BY <1>1 DEF Opened
  <2>3. /\ m_handles' \in [PATHS -> {"open", "null", "none"}]
        /\ \A q \in PATHS : q # p => m_handles'[q] = handles[q]
        /\ m_handles'[p] = "open" => handles[p] = "open" \/ CanOpen(p)
        BY <1>1 DEF Opened
  <2>4. QED  BY <2>1, <2>2, <2>3
<1>2. CASE p \notin PATHS
  <2>1. /\ \A v : [handles EXCEPT ![p] = v] = handles
        /\ \A v : [count EXCEPT ![p] = v] = count
        BY <1>2
  <2>2. m_handles' = handles /\ opened' = count  BY <2>1 DEF Opened
  <2>3. QED  BY <2>2
<1>3. QED  BY <1>1, <1>2

\* Unloading p takes its entry out of the map and closes no other library.
LEMMA EntryClosed ==
    ASSUME LoaderInv, NEW p
    PROVE  LET handles == [m_handles EXCEPT ![p] = "none"] IN
           /\ handles \in [PATHS -> {"open", "null", "none"}] /\ Closed(p) \in [PATHS -> Nat]
           /\ \A q \in PATHS : handles[q] = "open" => Closed(p)[q] > 0
<1>1. CASE p \in PATHS  BY <1>1 DEF Closed, LoaderInv, LoaderTypeOK
<1>2. CASE p \notin PATHS
  <2>1. /\ [m_handles EXCEPT ![p] = "none"] = m_handles
        /\ [opened EXCEPT ![p] = @ - 1] = opened
        BY <1>2 DEF LoaderInv, LoaderTypeOK
  <2>2. QED  BY <2>1 DEF Closed, LoaderInv, LoaderTypeOK
<1>3. QED  BY <1>1, <1>2

\* The invariant holds in every reachable state.
THEOREM LoaderInvariance == FrameworkSpec => []LoaderInv
<1>1. FrameworkInit => LoaderInv
      BY DEF FrameworkInit, DirMonitorInit, LoaderInv, LoaderTypeOK, Types
<1>2. LoaderInv /\ [FrameworkNext]_fwVars => LoaderInv'
  <2>1. SUFFICES ASSUME LoaderInv, DirMonitorNext PROVE LoaderInv'
    <3>1. LoaderInv /\ UNCHANGED dmVars => LoaderInv'  BY DEF dmVars, LoaderInv, LoaderTypeOK
    <3>2. QED  BY <3>1, PartSteps
  <2>2. CASE UNCHANGED loaderVars /\ subscribers' \subseteq subscribers
        BY <2>1, <2>2 DEF loaderVars, LoaderInv, LoaderTypeOK
  <2>3. ASSUME NEW p, Load(p), UNCHANGED subscribers PROVE LoaderInv'
        BY <2>1, <2>3, EntryOpened DEF Load, LoaderInv, LoaderTypeOK
  <2>4. ASSUME NEW p, UnLoad(p), UNCHANGED subscribers PROVE LoaderInv'
    <3>1. opened' = Closed(p) /\ m_handles' = [m_handles EXCEPT ![p] = "none"]  BY <2>4 DEF UnLoad
    <3>2. /\ m_handles' \in [PATHS -> {"open", "null", "none"}] /\ opened' \in [PATHS -> Nat]
          /\ \A q \in PATHS : m_handles'[q] = "open" => opened'[q] > 0
          BY <2>1, <3>1, EntryClosed
    <3>3. QED  BY <2>1, <2>4, <3>2 DEF LoaderInv, LoaderTypeOK
  <2>5. ASSUME NEW p, Modify(p), UNCHANGED subscribers PROVE LoaderInv'
    <3> DEFINE handles == [m_handles EXCEPT ![p] = "none"]
    <3>1. /\ handles \in [PATHS -> {"open", "null", "none"}] /\ Closed(p) \in [PATHS -> Nat]
          /\ \A q \in PATHS : handles[q] = "open" => Closed(p)[q] > 0
          BY <2>1, EntryClosed
    <3>2. Opened(handles, Closed(p), p)  BY <2>5 DEF Modify
    <3> HIDE DEF handles
    <3>3. /\ m_handles' \in [PATHS -> {"open", "null", "none"}] /\ opened' \in [PATHS -> Nat]
          /\ \A q \in PATHS : m_handles'[q] = "open" => opened'[q] > 0
          BY <3>1, <3>2, EntryOpened
    <3>4. QED  BY <2>1, <2>5, <3>3 DEF LoaderInv, LoaderTypeOK
  <2>6. CASE CallbackOfEvent
    <3>1. UNCHANGED subscribers /\ subscribers \subseteq Types
          BY <2>1, <2>6 DEF CallbackOfEvent, LoaderInv, LoaderTypeOK
    <3>2. \/ UNCHANGED loaderVars
          \/ \E p : Load(p) \/ Modify(p) \/ UnLoad(p)
          BY <2>6, <3>1 DEF CallbackOfEvent, Types
    <3>3. QED  BY <2>2, <2>3, <2>4, <2>5, <3>1, <3>2
  <2>7. CASE DestroyLoader  BY <2>1, <2>7 DEF DestroyLoader, LoaderInv, LoaderTypeOK
  <2>8. QED
    <3>1. (UNCHANGED loaderVars /\ subscribers' \subseteq subscribers) \/ CallbackOfEvent \/ DestroyLoader
          BY <2>1 DEF DirMonitorNext, DirectoryChanges, Change, OtherEvent, RunMonitor, Work, PollReady,
                 WorkReturns, BatchEnds, NotifyEvent, PollFails, DestroySubscriber, DestroyMonitor, MonitorJoined
    <3>2. QED  BY <2>2, <2>6, <2>7, <3>1
<1>3. QED  BY <1>1, <1>2, PTL DEF FrameworkSpec

\* The map of DLLLoader never holds a library that dlclose has closed: loads, unloads and
\* reloads in any order, of files that open or fail to.
THEOREM HandlesStayOpen == FrameworkSpec => []HandlesAreOpen
<1>1. LoaderInv => HandlesAreOpen  BY DEF LoaderInv, HandlesAreOpen
<1>2. QED  BY <1>1, LoaderInvariance, PTL

-----------------------------------------------------------------------------
(***************************************************************************)
(* The log is complete, for any number of threads and messages.            *)
(***************************************************************************)

\* Where a thread that logs is.
Places == {"idle", "lock", "make", "register", "return", "log"}

\* A thread has stored the logger it made, and not registered its deletion yet.
Registering == \E t \in LOGGING : logging[t] = "register"

\* The type invariant of the logger and its Handleton.
LoggerTypeOK ==
    /\ m_instance \in Nat /\ made \in Nat /\ atExit \in Nat /\ logs \in Nat
    /\ m_mtx \in BOOLEAN /\ logging \in [LOGGING -> Places]
    /\ exiting \in {"runs", "exit", "joins", "deletes", "ended"}
    /\ m_queue \in Seq(Nat) /\ logFile \in Seq(Nat) /\ accepted \in Seq(Nat)

\* One thread at a time makes a logger, when there is none; the one that lives is the one
\* m_instance points to, and its deletion is registered, once the thread that made it has
\* got there, until exit has.
OneLogger ==
    /\ \A t \in LOGGING : logging[t] \in {"make", "register"} => m_mtx
    /\ \A t \in LOGGING : logging[t] = "make" => m_instance = NULL_LOGGER
    /\ \A t \in LOGGING : logging[t] = "register" => m_instance # NULL_LOGGER
    /\ \A t, u \in LOGGING : logging[t] \in {"make", "register"} /\ logging[u] \in {"make", "register"} => t = u
    /\ living = IF m_instance = NULL_LOGGER \/ exiting = "deletes" THEN {} ELSE {m_instance}
    /\ exiting \in {"joins", "deletes"} => m_instance # NULL_LOGGER /\ ~Registering
    /\ exiting = "ended" => m_instance = NULL_LOGGER \/ Registering
    /\ atExit = IF m_instance # NULL_LOGGER /\ exiting \in {"runs", "exit"} /\ ~Registering THEN 1 ELSE 0
    /\ m_instance <= made
    /\ \A t \in LOGGING : logging[t] # "idle" => logs > 0

\* The file and the queue begin with what was accepted.
AcceptedIsLogged ==
    /\ \A i \in 1 .. Len(accepted) : accepted[i] # STOP_MSG
    /\ Len(logFile) <= Len(accepted)
    /\ \A i \in 1 .. Len(logFile) : logFile[i] = accepted[i]
    /\ logThread = "pops" =>
         \A i \in 1 .. Len(m_queue) : Len(logFile) + i <= Len(accepted) => m_queue[i] = accepted[Len(logFile) + i]

\* The first logger: what it has been given is in the file or the queue; the stop message
\* comes right after, and where it has been read the file is complete.
FirstLog ==
    /\ AcceptedIsLogged
    /\ CASE m_instance # NULL_LOGGER /\ exiting \in {"runs", "exit", "ended"} ->
              logThread = "pops" /\ Len(logFile) + Len(m_queue) = Len(accepted)
         [] exiting = "joins" /\ logThread = "pops" ->
              /\ Len(logFile) + Len(m_queue) > Len(accepted)
              /\ m_queue[Len(accepted) - Len(logFile) + 1] = STOP_MSG
         [] OTHER -> logThread # "pops" /\ logFile = accepted

LoggerInv ==
    /\ LoggerTypeOK /\ OneLogger
    /\ made = 0 /\ ~logUndefined => accepted = <<>> /\ logThread = "none" /\ logFile = <<>>
    /\ made = 1 /\ ~logUndefined => FirstLog

\* A move of a thread that neither makes nor registers a logger is not seen by OneLogger.
LEMMA OtherPlaces ==
    ASSUME LoggerTypeOK, OneLogger, NEW t \in LOGGING, logs' \in Nat,
           logging[t] \in Places \ {"make", "register"},
           NEW to \in Places \ {"make", "register"}, logging' = [logging EXCEPT ![t] = to],
           UNCHANGED <<handletonVars, m_mtx, exiting>>, logs' >= logs, logs' > 0
    PROVE  OneLogger' /\ logging' \in [LOGGING -> Places]
<1>1. /\ logging' \in [LOGGING -> Places]
      /\ \A u \in LOGGING : logging'[u] = IF u = t THEN to ELSE logging[u]
      BY DEF LoggerTypeOK
<1>2. \A u \in LOGGING : /\ (logging'[u] = "make") = (logging[u] = "make")
                         /\ (logging'[u] = "register") = (logging[u] = "register")
      BY <1>1
<1>3. Registering' = Registering  BY <1>2 DEF Registering
<1>4. \A u \in LOGGING : logging'[u] # "idle" => logs' > 0  OBVIOUS
<1>5. OneLogger'  BY <1>2, <1>3, <1>4 DEF OneLogger, handletonVars, LoggerTypeOK
<1>6. QED  BY <1>1, <1>5

\* The invariant holds in every reachable state.
THEOREM LoggerInvariance == FrameworkSpec => []LoggerInv
<1> USE DEF STOP_MSG, NULL_LOGGER
<1>1. FrameworkInit => LoggerInv
  <2>1. SUFFICES ASSUME LoggerInit PROVE LoggerInv  BY DEF FrameworkInit
  <2>2. <<>> \in Seq(Nat)  OBVIOUS
  <2>3. LoggerTypeOK  BY <2>1, <2>2 DEF LoggerInit, LoggerTypeOK, Places
  <2>4. OneLogger  BY <2>1 DEF LoggerInit, OneLogger
  <2>5. QED  BY <2>1, <2>3, <2>4 DEF LoggerInit, LoggerInv
<1>2. LoggerInv /\ [FrameworkNext]_fwVars => LoggerInv'
  <2>1. SUFFICES ASSUME LoggerInv, LoggerNext PROVE LoggerInv'
    <3>1. LoggerInv /\ UNCHANGED logVars => LoggerInv'
          BY DEF logVars, handletonVars, queueVars, LoggerInv, LoggerTypeOK, OneLogger, Registering,
                 FirstLog, AcceptedIsLogged
    <3>2. QED  BY <3>1, PartSteps
  <2>2. ~logUndefined  BY <2>1 DEF LoggerNext
  \* What the steps of a thread in GetInstance leave as it is.
  <2>3. ASSUME UNCHANGED <<handletonVars, queueVars, exiting, accepted, logUndefined>>, LoggerTypeOK', OneLogger'
        PROVE  LoggerInv'
    <3>1. FirstLog' <=> FirstLog
          BY <2>3 DEF handletonVars, queueVars, FirstLog, AcceptedIsLogged
    <3>2. QED  BY <2>1, <2>3, <3>1 DEF LoggerInv, handletonVars, queueVars
  <2>4. ASSUME NEW t \in LOGGING, GetInstance(t) PROVE LoggerInv'
    <3>1. PICK to \in {"lock", "return"} : logging' = [logging EXCEPT ![t] = to]
          BY <2>4 DEF GetInstance, GoesTo
    <3>2. logs' \in Nat /\ logs' >= logs /\ logs' > 0
          BY <2>1, <2>4 DEF GetInstance, LoggerInv, LoggerTypeOK
    <3>3. OneLogger' /\ logging' \in [LOGGING -> Places]
          BY <2>1, <2>4, <3>1, <3>2, OtherPlaces DEF GetInstance, At, LoggerInv, Places
    <3>4. LoggerTypeOK'
          BY <2>1, <2>4, <3>2, <3>3 DEF GetInstance, LoggerInv, LoggerTypeOK, handletonVars, queueVars
    <3>5. QED  BY <2>3, <2>4, <3>3, <3>4 DEF GetInstance
  <2>5. ASSUME NEW t \in LOGGING, LockInstance(t) PROVE LoggerInv'
    <3>1. /\ logging[t] = "lock" /\ ~m_mtx /\ logs \in Nat /\ logs > 0
          /\ UNCHANGED <<handletonVars, pointer, queueVars, logs, exiting, accepted, logUndefined>>
          BY <2>1, <2>5 DEF LockInstance, At, LoggerInv, LoggerTypeOK, OneLogger
    <3>2. CASE m_instance # 0
      <4>1. logging' = [logging EXCEPT ![t] = "return"]
            BY <2>5, <3>2 DEF LockInstance, GoesTo
      <4>5. m_mtx' = FALSE /\ m_mtx = FALSE
        <5>1. m_mtx' = (m_instance = 0)  BY <2>5 DEF LockInstance
        <5>2. m_mtx \in BOOLEAN  BY <2>1 DEF LoggerInv, LoggerTypeOK
        <5>3. QED  BY <3>1, <3>2, <5>1, <5>2
      <4>2. OneLogger' /\ logging' \in [LOGGING -> Places]
        <5>1. logs' \in Nat /\ logs' >= logs /\ logs' > 0  BY <3>1
        <5>2. UNCHANGED m_mtx  BY <4>5, Zenon
        <5>3. QED  BY <2>1, <3>1, <4>1, <5>1, <5>2, OtherPlaces DEF LoggerInv, Places
      <4>3. LoggerTypeOK'
            BY <2>1, <3>1, <4>1, <4>2, <4>5 DEF LoggerInv, LoggerTypeOK, handletonVars, queueVars
      <4>4. QED  BY <2>3, <3>1, <4>2, <4>3
    <3>3. CASE m_instance = 0
      <4>1. logging' = [logging EXCEPT ![t] = "make"] /\ m_mtx' = TRUE
            BY <2>5, <3>3 DEF LockInstance, GoesTo
      <4>2. /\ logging' \in [LOGGING -> Places]
            /\ \A u \in LOGGING : logging'[u] = IF u = t THEN "make" ELSE logging[u]
            BY <2>1, <4>1 DEF LoggerInv, LoggerTypeOK, Places
      <4>3. \A u \in LOGGING : logging[u] \notin {"make", "register"}
            BY <2>1, <3>1 DEF LoggerInv, OneLogger
      <4>4. ~Registering /\ ~Registering'  BY <4>2, <4>3 DEF Registering
      <4>5. LoggerTypeOK'
            BY <2>1, <3>1, <4>1, <4>2 DEF LoggerInv, LoggerTypeOK, handletonVars, queueVars
      <4>6. OneLogger'
            BY <2>1, <3>1, <3>3, <4>1, <4>2, <4>3, <4>4 DEF LoggerInv, OneLogger, handletonVars
      <4>7. QED  BY <2>3, <3>1, <4>5, <4>6
    <3>4. QED  BY <3>2, <3>3
  <2>6. ASSUME NEW t \in LOGGING, ReturnInstance(t) PROVE LoggerInv'
    <3>1. /\ logging[t] = "return" /\ logs \in Nat /\ logs > 0
          /\ logging' = [logging EXCEPT ![t] = "log"]
          /\ UNCHANGED <<handletonVars, m_mtx, queueVars, logs, exiting, accepted, logUndefined>>
          BY <2>1, <2>6 DEF ReturnInstance, At, GoesTo, LoggerInv, LoggerTypeOK, OneLogger
    <3>2. OneLogger' /\ logging' \in [LOGGING -> Places]
      <4>1. logs' \in Nat /\ logs' >= logs /\ logs' > 0  BY <3>1
      <4>2. QED  BY <2>1, <3>1, <4>1, OtherPlaces DEF LoggerInv, Places
    <3>3. LoggerTypeOK'
          BY <2>1, <3>1, <3>2 DEF LoggerInv, LoggerTypeOK, handletonVars, queueVars
    <3>4. QED  BY <2>3, <3>1, <3>2, <3>3
  <2>7. ASSUME NEW t \in LOGGING, MakeInstance(t) PROVE LoggerInv'
    <3>1. /\ m_instance = 0 /\ exiting \in {"runs", "exit"} /\ made \in Nat /\ m_mtx
          /\ m_instance' = made + 1 /\ made' = made + 1
          /\ m_queue' = <<>> /\ logFile' = <<>> /\ logThread' = "pops"
          /\ UNCHANGED <<atExit, m_mtx, logs, exiting, accepted, logUndefined>>
          BY <2>1, <2>7 DEF MakeInstance, At, LoggerInv, LoggerTypeOK, OneLogger
    <3>2. <<>> \in Seq(Nat) /\ Len(<<>>) = 0  OBVIOUS
    <3>3. /\ logging[t] = "make" /\ logging' = [logging EXCEPT ![t] = "register"]
          /\ living' = living \cup {made + 1}
          BY <2>7 DEF MakeInstance, GoesTo, At
    <3>4. /\ logging' \in [LOGGING -> Places]
          /\ \A u \in LOGGING : logging'[u] = IF u = t THEN "register" ELSE logging[u]
          /\ \A u \in LOGGING : logging[u] \in {"make", "register"} => u = t
          /\ \A u \in LOGGING : logging[u] # "idle" => logs > 0
          BY <2>1, <3>3 DEF LoggerInv, LoggerTypeOK, OneLogger, Places
    <3>5. living = {} /\ logs \in Nat /\ accepted \in Seq(Nat) /\ atExit = 0
          BY <2>1, <3>1 DEF LoggerInv, LoggerTypeOK, OneLogger
    <3>6. Registering'  BY <3>4 DEF Registering
    <3>7. LoggerTypeOK'
          BY <2>1, <3>1, <3>2, <3>4, <3>5 DEF LoggerInv, LoggerTypeOK
    <3>8. OneLogger'
      <4>1. \A u, v \in LOGGING :
              logging'[u] \in {"make", "register"} /\ logging'[v] \in {"make", "register"} => u = v
            BY <3>4
      <4>2. living' = {m_instance'} /\ m_instance' # 0 /\ m_instance' <= made'  BY <3>1, <3>3, <3>5
      <4>3. \A u \in LOGGING : logging'[u] # "make" /\ (logging'[u] # "idle" => logs' > 0)
            BY <3>1, <3>3, <3>4
      <4>4. QED  BY <3>1, <3>5, <3>6, <4>1, <4>2, <4>3 DEF OneLogger
    <3>9. made = 0 => FirstLog'
          BY <2>1, <2>2, <3>1, <3>2 DEF LoggerInv, FirstLog, AcceptedIsLogged
    <3>10. QED  BY <3>1, <3>7, <3>8, <3>9 DEF LoggerInv
  <2>15. ASSUME NEW t \in LOGGING, RegisterCleanUp(t) PROVE LoggerInv'
    <3>1. /\ logging[t] = "register" /\ logging' = [logging EXCEPT ![t] = "return"]
          /\ atExit' = atExit + 1 /\ m_mtx' = FALSE /\ exiting # "ended"
          /\ UNCHANGED <<m_instance, living, made, queueVars, logs, exiting, accepted, logUndefined>>
          BY <2>15 DEF RegisterCleanUp, At, GoesTo
    <3>2. /\ logging' \in [LOGGING -> Places]
          /\ \A u \in LOGGING : logging'[u] = IF u = t THEN "return" ELSE logging[u]
          BY <2>1, <3>1 DEF LoggerInv, LoggerTypeOK, Places
    <3>3. Registering  BY <3>1 DEF Registering
    <3>4. /\ m_instance # 0 /\ exiting \in {"runs", "exit"} /\ atExit = 0
          /\ \A u \in LOGGING : logging[u] \in {"make", "register"} => u = t
          /\ \A u \in LOGGING : logging[u] # "idle" => logs > 0
          BY <2>1, <3>1, <3>3 DEF LoggerInv, LoggerTypeOK, OneLogger
    <3>5. \A u \in LOGGING : logging'[u] \notin {"make", "register"}  BY <3>2, <3>4
    <3>6. ~Registering'  BY <3>5 DEF Registering
    <3>7. LoggerTypeOK'
      <4>1. atExit' \in Nat  BY <3>1, <3>4
      <4>2. m_mtx' \in BOOLEAN  BY <3>1, Zenon
      <4>3. QED  BY <2>1, <3>1, <3>2, <4>1, <4>2 DEF LoggerInv, LoggerTypeOK, queueVars
    <3>8. OneLogger'
      <4>1. \A u \in LOGGING : logging'[u] # "idle" => logs' > 0  BY <3>1, <3>2, <3>4
      <4>2. QED  BY <2>1, <3>1, <3>4, <3>5, <3>6, <4>1 DEF LoggerInv, OneLogger
    <3>9. FirstLog' <=> FirstLog
          BY <3>1 DEF queueVars, FirstLog, AcceptedIsLogged
    <3>10. QED  BY <2>1, <3>1, <3>7, <3>8, <3>9 DEF LoggerInv, queueVars
  <2>8. ASSUME NEW t \in LOGGING, Log(t) PROVE LoggerInv'
    <3>1. /\ logging[t] = "log" /\ logs \in Nat /\ logs > 0 /\ exiting # "ended"
          /\ UNCHANGED <<handletonVars, m_mtx, pointer, logThread, logFile, logs, exiting>>
          BY <2>1, <2>8 DEF Log, At, LoggerInv, LoggerTypeOK, OneLogger
    <3>2. LoggerTypeOK'
      <4>1. m_queue' \in Seq(Nat) /\ accepted' \in Seq(Nat)
        <5>1. Append(m_queue, logs) \in Seq(Nat) /\ Append(accepted, logs) \in Seq(Nat)
              BY <2>1, <3>1 DEF LoggerInv, LoggerTypeOK
        <5>2. QED  BY <2>1, <2>8, <5>1 DEF Log, LoggerInv, LoggerTypeOK
      <4>2. logging' \in [LOGGING -> Places]
            BY <2>1, <2>8 DEF Log, GoesTo, LoggerInv, LoggerTypeOK, Places
      <4>3. QED  BY <2>1, <3>1, <4>1, <4>2 DEF LoggerInv, LoggerTypeOK, handletonVars
    <3>3. OneLogger'
      <4>1. logging' = [logging EXCEPT ![t] = "idle"]  BY <2>8 DEF Log, GoesTo
      <4>2. logs' \in Nat /\ logs' >= logs /\ logs' > 0  BY <3>1
      <4>3. QED  BY <2>1, <3>1, <4>1, <4>2, OtherPlaces DEF LoggerInv, Places
    <3>4. ASSUME ~logUndefined' PROVE m_instance # 0 /\ exiting # "deletes" /\ made # 0
      <4>1. pointer[t] \in living  BY <2>8, <3>4, Zenon DEF Log
      <4>2. m_instance # 0 /\ exiting # "deletes"  BY <2>1, <4>1 DEF LoggerInv, OneLogger
      <4>3. QED  BY <2>1, <4>2 DEF LoggerInv, LoggerTypeOK, OneLogger
    <3>5. ASSUME ~logUndefined', made = 1 PROVE FirstLog'
      <4>1. FirstLog /\ m_instance # 0 /\ exiting \in {"runs", "exit", "joins"}
            BY <2>1, <2>2, <3>1, <3>4, <3>5 DEF LoggerInv, LoggerTypeOK
      <4>2. CASE UNCHANGED <<m_queue, accepted>>
            BY <3>1, <4>1, <4>2 DEF FirstLog, AcceptedIsLogged, handletonVars
      <4>3. CASE exiting = "joins" /\ m_queue' = Append(m_queue, logs) /\ UNCHANGED accepted
            BY <2>1, <3>1, <4>1, <4>3 DEF FirstLog, AcceptedIsLogged, handletonVars, LoggerInv, LoggerTypeOK
      <4>4. CASE /\ exiting \in {"runs", "exit"}
                 /\ m_queue' = Append(m_queue, logs) /\ accepted' = Append(accepted, logs)
        <5>1. /\ m_queue \in Seq(Nat) /\ accepted \in Seq(Nat) /\ logFile \in Seq(Nat)
              /\ logThread = "pops" /\ Len(logFile) + Len(m_queue) = Len(accepted)
              BY <2>1, <4>1, <4>4 DEF FirstLog, LoggerInv, LoggerTypeOK
        <5>2. /\ Len(m_queue') = Len(m_queue) + 1 /\ m_queue'[Len(m_queue) + 1] = logs
              /\ \A i \in 1 .. Len(m_queue) : m_queue'[i] = m_queue[i]
              BY <3>1, <4>4, <5>1
        <5>3. /\ Len(accepted') = Len(accepted) + 1 /\ accepted'[Len(accepted) + 1] = logs
              /\ \A i \in 1 .. Len(accepted) : accepted'[i] = accepted[i]
              BY <3>1, <4>4, <5>1
        <5>4. /\ \A i \in 1 .. Len(logFile) : i \in 1 .. Len(accepted)
              /\ \A i \in 1 .. Len(m_queue) : Len(logFile) + i \in 1 .. Len(accepted)
              BY <5>1
        <5>5. /\ \A i \in 1 .. Len(accepted) : accepted[i] # 0
              /\ \A i \in 1 .. Len(logFile) : logFile[i] = accepted[i]
              /\ \A i \in 1 .. Len(m_queue) : m_queue[i] = accepted[Len(logFile) + i]
              BY <4>1, <5>1, <5>4 DEF FirstLog, AcceptedIsLogged
        <5>6. \A i \in 1 .. Len(accepted') : accepted'[i] # 0
          <6>1. \A i \in 1 .. Len(accepted') : i \in 1 .. Len(accepted) \/ i = Len(accepted) + 1
                BY <5>1, <5>3
          <6>2. accepted'[Len(accepted) + 1] # 0  BY <3>1, <5>3
          <6>3. QED  BY <5>3, <5>5, <6>1, <6>2
        <5>7. \A i \in 1 .. Len(logFile) : logFile[i] = accepted'[i]
              BY <5>3, <5>4, <5>5
        <5>8. \A i \in 1 .. Len(m_queue') : m_queue'[i] = accepted'[Len(logFile) + i]
          <6>1. \A i \in 1 .. Len(m_queue') : i \in 1 .. Len(m_queue) \/ i = Len(m_queue) + 1
                BY <5>1, <5>2
          <6>2. Len(logFile) + (Len(m_queue) + 1) = Len(accepted) + 1
            <7>1. Len(logFile) \in Nat /\ Len(m_queue) \in Nat /\ Len(accepted) \in Nat  BY <5>1
            <7>2. Len(logFile) + Len(m_queue) = Len(accepted)  BY <5>1
            <7>3. QED  BY <7>1, <7>2
          <6>3. m_queue'[Len(m_queue) + 1] = accepted'[Len(logFile) + (Len(m_queue) + 1)]
                BY <5>2, <5>3, <6>2
          <6>4. \A i \in 1 .. Len(m_queue) : m_queue'[i] = accepted'[Len(logFile) + i]
                BY <5>2, <5>3, <5>4, <5>5
          <6>5. QED  BY <6>1, <6>3, <6>4
        <5>9. AcceptedIsLogged'
              BY <3>1, <5>1, <5>3, <5>6, <5>7, <5>8 DEF AcceptedIsLogged
        <5>10. /\ m_instance' # 0 /\ exiting' \in {"runs", "exit"} /\ logThread' = "pops"
               /\ Len(logFile') + Len(m_queue') = Len(accepted')
          <6>1. Len(logFile) \in Nat /\ Len(m_queue) \in Nat /\ Len(accepted) \in Nat  BY <5>1
          <6>2. UNCHANGED <<m_instance, exiting, logThread, logFile>>  BY <3>1 DEF handletonVars
          <6>3. /\ Len(logFile) + Len(m_queue) = Len(accepted)
                /\ Len(m_queue') = Len(m_queue) + 1 /\ Len(accepted') = Len(accepted) + 1
                BY <5>1, <5>2, <5>3
          <6>4. Len(logFile') + Len(m_queue') = Len(accepted')  BY <6>1, <6>2, <6>3
          <6>5. QED  BY <4>1, <4>4, <5>1, <6>2, <6>4
        <5>11. QED  BY <5>9, <5>10 DEF FirstLog
      <4>5. QED  BY <2>8, <4>1, <4>2, <4>3, <4>4 DEF Log
    <3>6. QED  BY <3>1, <3>2, <3>3, <3>4, <3>5 DEF LoggerInv, handletonVars
  <2>9. CASE PopFromQueueLog
    <3>1. /\ logThread = "pops" /\ m_queue \in Seq(Nat) /\ m_queue # <<>> /\ exiting # "ended"
          /\ UNCHANGED <<handletonVars, m_mtx, logging, pointer, logs, exiting, accepted, logUndefined>>
          /\ m_queue' = Tail(m_queue) /\ logFile \in Seq(Nat) /\ accepted \in Seq(Nat)
          BY <2>1, <2>9 DEF PopFromQueueLog, LoggerInv, LoggerTypeOK
    <3>2. /\ Head(m_queue) = m_queue[1] /\ m_queue[1] \in Nat /\ Len(m_queue) \in Nat \ {0}
          /\ m_queue' \in Seq(Nat) /\ Len(m_queue') = Len(m_queue) - 1
          /\ \A i \in 1 .. Len(m_queue) - 1 : m_queue'[i] = m_queue[i + 1]
          BY <3>1
    <3>3. logFile' \in Seq(Nat)
      <4>1. Append(logFile, m_queue[1]) \in Seq(Nat)  BY <3>1, <3>2
      <4>2. logFile' \in {logFile, Append(logFile, m_queue[1])}  BY <2>9, <3>2 DEF PopFromQueueLog
      <4>3. QED  BY <3>1, <4>1, <4>2
    <3>4. LoggerTypeOK'  BY <2>1, <3>1, <3>2, <3>3 DEF LoggerInv, LoggerTypeOK, handletonVars
    <3>5. OneLogger'  BY <2>1, <3>1 DEF LoggerInv, OneLogger, Registering, handletonVars
    <3>6. ASSUME made = 1 PROVE FirstLog'
      <4>1. FirstLog  BY <2>1, <2>2, <3>6 DEF LoggerInv
      <4> DEFINE n == Len(accepted) - Len(logFile)
      <4>5. /\ Len(accepted) \in Nat /\ Len(logFile) \in Nat /\ n \in Nat
            /\ \A i \in 1 .. n : i \in 1 .. Len(m_queue) => m_queue[i] = accepted[Len(logFile) + i]
            /\ \A i \in 1 .. n : accepted[Len(logFile) + i] # 0
        <5>1. Len(accepted) \in Nat /\ Len(logFile) \in Nat  BY <3>1
        <5>2. Len(logFile) <= Len(accepted)  BY <4>1 DEF FirstLog, AcceptedIsLogged
        <5>3. n \in Nat  BY <5>1, <5>2
        <5>4. \A i \in 1 .. n : Len(logFile) + i <= Len(accepted) /\ Len(logFile) + i \in 1 .. Len(accepted)
              BY <5>1, <5>3
        <5>5. QED  BY <3>1, <4>1, <5>1, <5>3, <5>4 DEF FirstLog, AcceptedIsLogged
      <4>6. \/ m_instance # 0 /\ exiting \in {"runs", "exit"} /\ Len(m_queue) = n
            \/ exiting = "joins" /\ Len(m_queue) > n /\ m_queue[n + 1] = 0
            BY <3>1, <3>2, <4>1, <4>5 DEF FirstLog
      <4>2. CASE Head(m_queue) = 0
        <5>1. logThread' = "ended" /\ UNCHANGED logFile  BY <2>9, <4>2 DEF PopFromQueueLog
        <5>2. Len(logFile) = Len(accepted) /\ exiting = "joins"
          <6>1. ~(1 \in 1 .. n)  BY <3>2, <4>2, <4>5
          <6>2. n = 0  BY <4>5, <6>1
          <6>3. QED  BY <3>2, <4>5, <4>6, <6>2
        <5>3. logFile = accepted
              BY <3>1, <4>1, <5>2, SeqEqual DEF FirstLog, AcceptedIsLogged
        <5>4. QED  BY <3>1, <4>1, <5>1, <5>2, <5>3 DEF FirstLog, AcceptedIsLogged, handletonVars
      <4>3. CASE Head(m_queue) # 0
        <5>1. UNCHANGED logThread /\ logFile' = Append(logFile, m_queue[1])
              BY <2>9, <3>2, <4>3 DEF PopFromQueueLog
        <5>2. Len(logFile) < Len(accepted) /\ m_queue[1] = accepted[Len(logFile) + 1]
          <6>1. n # 0  BY <3>2, <4>3, <4>6
          <6>2. 1 \in 1 .. n /\ 1 \in 1 .. Len(m_queue)  BY <3>2, <4>5, <6>1
          <6>3. QED  BY <4>5, <6>1, <6>2
        <5>3. /\ Len(logFile') = Len(logFile) + 1 /\ logFile'[Len(logFile) + 1] = m_queue[1]
              /\ \A i \in 1 .. Len(logFile) : logFile'[i] = logFile[i]
              BY <3>1, <3>2, <5>1
        <5>4. \A i \in 1 .. Len(logFile') : logFile'[i] = accepted[i]
          <6>1. \A i \in 1 .. Len(logFile) : logFile[i] = accepted[i]
                BY <4>1 DEF FirstLog, AcceptedIsLogged
          <6>2. QED  BY <4>5, <5>2, <5>3, <6>1
        <5>5. \A i \in 1 .. Len(m_queue') :
                Len(logFile') + i <= Len(accepted) => m_queue'[i] = accepted[Len(logFile') + i]
          <6>1. SUFFICES ASSUME NEW i \in 1 .. Len(m_queue'), Len(logFile') + i <= Len(accepted)
                         PROVE  m_queue'[i] = accepted[Len(logFile') + i]
                OBVIOUS
          <6>2. i + 1 \in 1 .. Len(m_queue) /\ i + 1 \in 1 .. n /\ m_queue'[i] = m_queue[i + 1]
                BY <3>2, <4>5, <5>3, <6>1
          <6>3. Len(logFile') + i = Len(logFile) + (i + 1)  BY <3>2, <4>5, <5>3, <6>1
          <6>4. QED  BY <4>5, <6>2, <6>3
        <5>6. AcceptedIsLogged'
              BY <3>1, <4>1, <4>5, <5>2, <5>3, <5>4, <5>5 DEF FirstLog, AcceptedIsLogged
        <5>7. CASE exiting = "joins"
          <6>1. n # 0  BY <4>5, <5>2
          <6>2. m_queue'[n] = 0
            <7>1. n \in 1 .. Len(m_queue) - 1  BY <3>2, <4>5, <4>6, <5>7, <6>1
            <7>2. QED  BY <3>2, <4>6, <5>7, <7>1
          <6>3. Len(accepted) - Len(logFile') + 1 = n  BY <4>5, <5>3
          <6>4. Len(logFile') + Len(m_queue') > Len(accepted')
                BY <3>1, <3>2, <4>5, <4>6, <5>3, <5>7
          <6>5. exiting' = "joins" /\ logThread' = "pops" /\ UNCHANGED accepted  BY <3>1, <5>1, <5>7
          <6>6. QED  BY <5>6, <6>2, <6>3, <6>4, <6>5 DEF FirstLog
        <5>8. CASE exiting # "joins"
              BY <3>1, <3>2, <4>5, <4>6, <5>1, <5>3, <5>6, <5>8 DEF FirstLog, handletonVars
        <5>9. QED  BY <5>7, <5>8
      <4>4. QED  BY <4>2, <4>3
    <3>7. made # 0  BY <2>1, <2>2, <3>1 DEF LoggerInv
    <3>8. QED  BY <3>1, <3>4, <3>5, <3>6, <3>7 DEF LoggerInv, handletonVars
  <2>10. CASE ExitCalled
    <3>1. LoggerTypeOK' /\ OneLogger'
          BY <2>1, <2>10 DEF ExitCalled, Exit, LoggerInv, LoggerTypeOK, OneLogger,
                                  Registering, handletonVars, queueVars
    <3>2. made = 1 => FirstLog'
          BY <2>1, <2>2, <2>10 DEF ExitCalled, Exit, LoggerInv, FirstLog, AcceptedIsLogged, handletonVars, queueVars
    <3>3. QED  BY <2>1, <2>10, <3>1, <3>2 DEF ExitCalled, Exit, LoggerInv, handletonVars, queueVars
  <2>11. CASE DestroyLogger
    <3>1. /\ exiting = "exit" /\ exiting' = "joins" /\ m_instance # 0 /\ m_queue \in Seq(Nat)
          /\ m_queue' = Append(m_queue, 0) /\ atExit = 1
          /\ UNCHANGED <<m_mtx, logging, pointer, logs, accepted, logUndefined, m_instance, living, made, logThread, logFile>>
          BY <2>1, <2>11 DEF DestroyLogger, Exit, LoggerInv, LoggerTypeOK, OneLogger
    <3>2. LoggerTypeOK' /\ OneLogger'
          BY <2>1, <2>11, <3>1 DEF DestroyLogger, LoggerInv, LoggerTypeOK, OneLogger, Registering
    <3>3. ASSUME made = 1 PROVE FirstLog'
      <4>1. /\ FirstLog /\ logThread = "pops" /\ Len(logFile) + Len(m_queue) = Len(accepted)
            /\ logFile \in Seq(Nat) /\ accepted \in Seq(Nat)
            BY <2>1, <2>2, <3>1, <3>3 DEF LoggerInv, LoggerTypeOK, FirstLog
      <4>2. /\ Len(m_queue') = Len(m_queue) + 1 /\ m_queue'[Len(m_queue) + 1] = 0
            /\ \A i \in 1 .. Len(m_queue) : m_queue'[i] = m_queue[i]
            BY <3>1
      <4>3. AcceptedIsLogged'  BY <3>1, <4>1, <4>2 DEF FirstLog, AcceptedIsLogged
      <4>4. m_queue'[Len(accepted) - Len(logFile) + 1] = 0
        <5>1. Len(accepted) - Len(logFile) = Len(m_queue)  BY <3>1, <4>1
        <5>2. QED  BY <4>2, <5>1
      <4>5. QED  BY <3>1, <4>1, <4>2, <4>3, <4>4 DEF FirstLog
    <3>4. QED  BY <2>1, <2>2, <3>1, <3>2, <3>3 DEF LoggerInv
  <2>12. CASE JoinLogger
    <3>1. /\ exiting = "joins" /\ exiting' = "deletes" /\ logThread = "ended"
          /\ living' = living \ {m_instance}
          /\ UNCHANGED <<m_mtx, logging, pointer, logs, accepted, logUndefined, m_instance, made, atExit, m_queue, logThread, logFile>>
          BY <2>12 DEF JoinLogger, Exit, queueVars
    <3>2. LoggerTypeOK' /\ OneLogger'
          BY <2>1, <3>1 DEF LoggerInv, LoggerTypeOK, OneLogger, Registering
    <3>3. made = 1 => FirstLog'
          BY <2>1, <2>2, <3>1 DEF LoggerInv, FirstLog, AcceptedIsLogged
    <3>4. QED  BY <2>1, <3>1, <3>2, <3>3 DEF LoggerInv
  <2>13. CASE CleanUp
    <3>1. /\ exiting = "deletes" /\ exiting' = "exit" /\ m_instance' = 0
          /\ UNCHANGED <<m_mtx, logging, pointer, logs, accepted, logUndefined, living, made, atExit, m_queue, logThread, logFile>>
          BY <2>13 DEF CleanUp, Exit, queueVars
    <3>2. LoggerTypeOK' /\ OneLogger'
          BY <2>1, <3>1 DEF LoggerInv, LoggerTypeOK, OneLogger, Registering
    <3>3. made = 1 => FirstLog'
          BY <2>1, <2>2, <3>1 DEF LoggerInv, FirstLog, AcceptedIsLogged
    <3>4. QED  BY <2>1, <3>1, <3>2, <3>3 DEF LoggerInv
  <2>14. CASE ExitEnds
    <3>1. /\ exiting = "exit" /\ exiting' = "ended" /\ atExit = 0
          /\ UNCHANGED <<m_mtx, logging, pointer, logs, accepted, logUndefined, m_instance, living, made, atExit, m_queue, logThread, logFile>>
          BY <2>14 DEF ExitEnds, Exit, handletonVars, queueVars
    <3>2. LoggerTypeOK' /\ OneLogger'
          BY <2>1, <3>1 DEF LoggerInv, LoggerTypeOK, OneLogger, Registering
    <3>3. made = 1 => FirstLog'
          BY <2>1, <2>2, <3>1, <3>2 DEF LoggerInv, FirstLog, AcceptedIsLogged
    <3>4. QED  BY <2>1, <3>1, <3>2, <3>3 DEF LoggerInv
  <2>16. QED
    BY <2>1, <2>4, <2>5, <2>6, <2>7, <2>8, <2>9, <2>10, <2>11, <2>12, <2>13, <2>14, <2>15
    DEF LoggerNext, CleansUp
<1>3. QED  BY <1>1, <1>2, PTL DEF FrameworkSpec

\* However many threads ask for it first, one logger at a time lives; and when the process
\* has ended, its file holds what the only one was given before its destructor, in order,
\* unless a thread used a destroyed one, or exit overtook the one that made it before its
\* atexit.
THEOREM LogStaysComplete == FrameworkSpec => []LogIsComplete
<1>1. LoggerInv => LogIsComplete
  <2>1. SUFFICES ASSUME LoggerInv PROVE LogIsComplete  OBVIOUS
  <2>2. Cardinality(living) <= 1
    <3>1. living = {} \/ living = {m_instance}  BY <2>1 DEF LoggerInv, OneLogger
    <3>2. QED  BY <3>1, FS_EmptySet, FS_Singleton
  <2>3. exiting = "ended" /\ made = 1 /\ ~logUndefined => logFile = accepted \/ Registering
        BY <2>1 DEF LoggerInv, OneLogger, FirstLog
  <2>4. QED  BY <2>2, <2>3 DEF LogIsComplete, Registering
<1>2. QED  BY <1>1, LoggerInvariance, PTL
=============================================================================
