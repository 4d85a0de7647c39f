---------------------------- MODULE ProgramsProofs ----------------------------
(***************************************************************************)
(* What is proved of the programs of many processes: the watchdog, the     *)
(* pong server and the pairs that take turns, for any numbers of clients,  *)
(* kills and rounds; and of all of them together, as Programs runs them.   *)
(***************************************************************************)
EXTENDS ProducersConsumersProofs, Programs

-----------------------------------------------------------------------------
(* PingPongPairs: whose turn it is. *)

\* The words a player has said: one more than its turns when it is still to signal.
Words(p) == ROUNDS - left[p] + (IF at[p] = "signals" THEN 1 ELSE 0)
InTurn == \A i \in DOMAIN said : said[i] = IF i % 2 = 1 THEN "ping" ELSE "pong"
Alternate == /\ Len(said) = Words("ping") + Words("pong")
             /\ Words("ping") - Words("pong") \in {0, 1}
             /\ InTurn

Places == {"starts", "sets", "resets", "waits", "signals", "returned", "reads", "joins", "sends",
           "receives", "init", "first", "back", "suspended", "plays", "killed"}
Spoken == IF pair \in {"pipe", "queue"} THEN Int ELSE Players
PairsTypeOK ==
    /\ pair \in {"semaphore", "pipe", "queue"} \cup Signals
    /\ at \in [Players -> Places] /\ left \in [Players -> 0 .. ROUNDS]
    /\ said \in Seq(Spoken)
    /\ sems \in [1 .. 2 -> Int] /\ pipe \in Seq(Int)
    /\ handled \in [Players -> BOOLEAN] /\ blocked \in [Players -> BOOLEAN]
    /\ pending \in [Players -> BOOLEAN]
    /\ \A p \in Players : /\ at[p] \in {"signals", "suspended", "plays"} => left[p] > 0
                          /\ pair \notin Signals => ~pending[p]

\* One semaphore is up, or the one whose turn it is has taken it and is still to signal.
SemaphoreTurns ==
    pair = "semaphore" /\ (found \/ at["pong"] = "starts") =>
        /\ at["ping"] \in {"starts", "sets", "resets", "waits", "signals", "returned"}
        /\ at["pong"] \in {"starts", "waits", "signals", "returned"}
        /\ sets <=> at["ping"] \notin {"starts", "returned"}
        /\ at["ping"] \in {"starts", "sets", "resets"} =>
              /\ Words("ping") = 0 /\ Words("pong") = 0
              /\ sems[1] = (IF at["ping"] = "resets" THEN 1 ELSE 0) /\ sems[2] = 0
        /\ at["ping"] \in {"waits", "signals"} =>
              /\ sems[1] = IF at["ping"] = "waits" /\ at["pong"] # "signals"
                              /\ Words("ping") = Words("pong") THEN 1 ELSE 0
              /\ sems[2] = IF at["ping"] = "waits" /\ Words("ping") # Words("pong") THEN 1 ELSE 0
        /\ found => at["ping"] # "starts"
        /\ at["ping"] = "signals" => Words("ping") # Words("pong")
        /\ at["pong"] = "signals" => Words("ping") = Words("pong")
        /\ at["ping"] = "returned" => left["ping"] = 0
        /\ Alternate

\* One signal is pending or taken; it is never taken before its handler is set.
Turn(p) == pending[p] \/ at[p] = "plays"
SignalTurns ==
    pair \in Signals =>
        /\ \A p \in Players :
              /\ at[p] \in {"init", "first", "back", "suspended", "plays", "returned"}
              /\ at[p] # "init" => handled[p] /\ blocked[p]
              /\ ~(pending[p] /\ at[p] = "plays")
        /\ blocked["ping"] /\ at["ping"] # "first"
        /\ Turn("ping") => ~Turn("pong") /\ Words("ping") = Words("pong")
        /\ Turn("pong") => Words("ping") # Words("pong")
        /\ at["pong"] \in {"init", "first"} =>
              ~Turn("ping") /\ ~Turn("pong") /\ Words("ping") = Words("pong")
        /\ Alternate

QueueTurns ==
    pair = "queue" =>
        /\ at["pong"] = "starts" => said = <<>> /\ left["pong"] = ROUNDS /\ ~found
        /\ found => /\ Len(said) = ROUNDS - left["pong"]
                    /\ \A i \in DOMAIN said : said[i] = ROUNDS - i + 1

PairsInv == PairsTypeOK /\ SemaphoreTurns /\ SignalTurns /\ QueueTurns

LEMMA Parity ==
    ASSUME NEW n \in Nat
    PROVE  (n + n + 1) % 2 = 1 /\ (n + n + 1 + 1) % 2 = 0
OBVIOUS

LEMMA WordsAreFew ==
    ASSUME PairsTypeOK, NEW p \in Players
    PROVE  Words(p) \in 0 .. ROUNDS /\ left[p] \in 0 .. ROUNDS /\ ROUNDS \in Nat
<1>1. left[p] \in 0 .. ROUNDS /\ ROUNDS \in Nat /\ (at[p] = "signals" => left[p] > 0)
      BY RoundsAssumption DEF PairsTypeOK
<1> QED  BY <1>1 DEF Words

\* A player whose turn it is says its word.
LEMMA SayKeeps ==
    ASSUME PairsTypeOK, Spoken = Players, Alternate, NEW p \in Players, said' = Append(said, p),
           p = "ping" <=> Words("ping") = Words("pong"),
           Words(p)' = Words(p) + 1, Words(Partner(p))' = Words(Partner(p))
    PROVE  Alternate'
<1>1. /\ said \in Seq(Players) /\ Len(said) \in Nat /\ DOMAIN said = 1 .. Len(said)
      /\ "ping" \in Players /\ "pong" \in Players /\ (p = "ping" \/ p = "pong")
      BY DEF PairsTypeOK, Players
<1>2. /\ said' \in Seq(Players) /\ Len(said') = Len(said) + 1 /\ DOMAIN said' = 1 .. Len(said) + 1
      /\ said'[Len(said) + 1] = p /\ \A i \in 1 .. Len(said) : said'[i] = said[i]
      BY <1>1, Appended
<1>3. Words("ping") \in Nat /\ Words("pong") \in Nat  BY <1>1, WordsAreFew
<1> DEFINE w == Words("ping")  v == Words("pong")
<1>4. /\ Len(said) = w + v /\ w - v \in {0, 1} /\ w \in Nat /\ v \in Nat
      /\ (p = "ping" <=> w = v) /\ (w # v => w = v + 1)
      BY <1>3 DEF Alternate
<1>5. /\ p = "ping" => Words("ping")' = w + 1 /\ Words("pong")' = v
      /\ p = "pong" => Words("ping")' = w /\ Words("pong")' = v + 1
      BY DEF Partner
<1> HIDE DEF w, v
<1>6. p = IF (Len(said) + 1) % 2 = 1 THEN "ping" ELSE "pong"
  <2>1. CASE p = "ping"
    <3>1. Len(said) + 1 = v + v + 1  BY <1>4, <2>1
    <3> QED  BY <1>4, <2>1, <3>1, Parity
  <2>2. CASE p = "pong"
    <3>1. Len(said) + 1 = v + v + 1 + 1  BY <1>4, <2>2
    <3>2. (Len(said) + 1) % 2 = 0  BY <1>4, <3>1, Parity
    <3> QED  BY <2>2, <3>2
  <2> QED  BY <1>1, <2>1, <2>2
<1>7. \A i \in DOMAIN said' : said'[i] = IF i % 2 = 1 THEN "ping" ELSE "pong"
  <2> SUFFICES ASSUME NEW i \in 1 .. Len(said) + 1
               PROVE  said'[i] = IF i % 2 = 1 THEN "ping" ELSE "pong"
      BY <1>2
  <2>1. CASE i = Len(said) + 1  BY <1>2, <1>6, <2>1
  <2>2. CASE i # Len(said) + 1
    <3>1. i \in 1 .. Len(said)  BY <1>1, <2>2
    <3> QED  BY <1>1, <1>2, <3>1 DEF Alternate, InTurn
  <2> QED  BY <2>1, <2>2
<1>8. /\ Len(said') = Words("ping")' + Words("pong")'
      /\ Words("ping")' - Words("pong")' \in {0, 1}
      BY <1>1, <1>2, <1>4, <1>5
<1> QED  BY <1>7, <1>8 DEF Alternate, InTurn

LEMMA PairsStart == PairsInit => PairsInv
<1> SUFFICES ASSUME PairsInit  PROVE PairsInv  OBVIOUS
<1>1. /\ at \in [Players -> Places] /\ left = [p \in Players |-> ROUNDS] /\ said = <<>>
      /\ \A p \in Players : at[p] \in {"starts", "back", "init"}
      /\ ROUNDS \in Nat /\ "ping" \in Players /\ "pong" \in Players
  <2>1. DOMAIN at = Players /\ \A p \in Players : at[p] \in {"starts", "back", "init"}
        BY DEF PairsInit
  <2>2. at = [p \in Players |-> at[p]]  BY DEF PairsInit
  <2>3. at \in [Players -> Places]  BY <2>1, <2>2 DEF Places
  <2> QED  BY <2>1, <2>3, RoundsAssumption DEF PairsInit, Players
<1>2. \A p \in Players : Words(p) = 0  BY <1>1 DEF Words
<1>3. Alternate  BY <1>1, <1>2 DEF Alternate, InTurn
<1>4. PairsTypeOK
  <2>1. sems \in [1 .. 2 -> Int] /\ sems[1] = 0 /\ sems[2] = 0  BY DEF PairsInit
  <2>2. said \in Seq(Spoken) /\ pipe \in Seq(Int)  BY DEF PairsInit
  <2>3. handled \in [Players -> BOOLEAN] /\ blocked \in [Players -> BOOLEAN]
        /\ pending \in [Players -> BOOLEAN] /\ \A p \in Players : ~pending[p]
        BY DEF PairsInit
  <2>4. left \in [Players -> 0 .. ROUNDS]  BY <1>1
  <2>5. pair \in {"semaphore", "pipe", "queue"} \cup Signals  BY DEF PairsInit
  <2> QED  BY <1>1, <2>1, <2>2, <2>3, <2>4, <2>5 DEF PairsTypeOK
<1>5. SemaphoreTurns
  <2> SUFFICES ASSUME pair = "semaphore"  PROVE SemaphoreTurns  BY DEF SemaphoreTurns
  <2>1. at["ping"] = "starts" /\ at["pong"] = "starts" /\ ~sets /\ ~found
        /\ sems[1] = 0 /\ sems[2] = 0
        BY <1>1 DEF PairsInit, Signals
  <2> QED  BY <1>1, <1>2, <1>3, <2>1 DEF SemaphoreTurns
<1>6. SignalTurns
  <2> SUFFICES ASSUME pair \in Signals  PROVE SignalTurns  BY DEF SignalTurns
  <2>1. /\ at["pong"] = "init" /\ at["ping"] \in {"back", "init"}
        /\ at["ping"] # "init" => pair = "terminal"
        BY <1>1 DEF PairsInit, Signals, Follower, Players
  <2>2. /\ at["ping"] # "init" => handled["ping"]
        /\ blocked["ping"] /\ ~pending["ping"] /\ ~pending["pong"]
        BY <1>1, <2>1 DEF PairsInit, Follower
  <2>3. \A p \in Players : p = "ping" \/ p = "pong"  BY DEF Players
  <2> QED  BY <1>1, <1>2, <1>3, <2>1, <2>2, <2>3 DEF SignalTurns, Turn
<1>7. QueueTurns
      BY <1>1 DEF PairsInit, QueueTurns
<1> QED  BY <1>4, <1>5, <1>6, <1>7 DEF PairsInv

\* Whose words a step leaves alone.
LEMMA WordsStay ==
    ASSUME NEW p \in Players, left'[p] = left[p], at'[p] = "signals" <=> at[p] = "signals"
    PROVE  Words(p)' = Words(p)
BY DEF Words

LEMMA SemaphorePingKeeps == ASSUME PairsInv, SemaphorePingActive  PROVE PairsInv'
<1>1. /\ pair = "semaphore" /\ UNCHANGED <<pair, left, said, found, pipe, handled, blocked, pending>>
      /\ at \in [Players -> Places] /\ "ping" \in Players /\ "pong" \in Players
      /\ \A p \in Players : p = "ping" \/ p = "pong"
      BY DEF SemaphorePingActive, signalVars, PairsInv, PairsTypeOK, Players
<1>2. \/ /\ at["ping"] = "starts" /\ sets' = TRUE /\ at' = [at EXCEPT !["ping"] = "sets"]
         /\ sems' = sems
      \/ /\ at["ping"] = "sets" /\ sems' = [sems EXCEPT ![1] = 1] /\ sets' = sets
         /\ at' = [at EXCEPT !["ping"] = "resets"]
      \/ /\ at["ping"] = "resets" /\ sems' = [sems EXCEPT ![2] = 0] /\ sets' = sets
         /\ at' = [at EXCEPT !["ping"] = "waits"]
      \/ /\ at["ping"] = "waits" /\ left["ping"] = 0 /\ sets' = FALSE /\ sems' = sems
         /\ at' = [at EXCEPT !["ping"] = "returned"]
      BY DEF SemaphorePingActive, Goes
<1>3. /\ at' \in [Players -> Places] /\ at'["pong"] = at["pong"]
      /\ at'["ping"] # "signals" /\ at["ping"] # "signals"
      /\ at'["ping"] \notin {"suspended", "plays"}
      BY <1>1, <1>2 DEF Places
<1>4. Words("ping")' = Words("ping") /\ Words("pong")' = Words("pong")
      BY <1>1, <1>3, WordsStay
<1>5. PairsTypeOK'
  <2>1. sems' \in [1 .. 2 -> Int]  BY <1>2 DEF PairsInv, PairsTypeOK
  <2>2. \A p \in Players : at'[p] \in {"signals", "suspended", "plays"} => left[p] > 0
        BY <1>1, <1>3 DEF PairsInv, PairsTypeOK
  <2>3. Spoken' = Spoken  BY <1>1 DEF Spoken
  <2> QED  BY <1>1, <1>3, <2>1, <2>2, <2>3 DEF PairsInv, PairsTypeOK
<1>6. SemaphoreTurns'
  <2> SUFFICES ASSUME found \/ at["pong"] = "starts"  PROVE SemaphoreTurns'
      BY <1>1, <1>3 DEF SemaphoreTurns
  <2>1. Alternate'  BY <1>1, <1>4 DEF PairsInv, SemaphoreTurns, Alternate, InTurn
  <2>2. sems \in [1 .. 2 -> Int] /\ 1 \in 1 .. 2 /\ 2 \in 1 .. 2  BY DEF PairsInv, PairsTypeOK
  <2>3. CASE at["ping"] = "starts"
        BY <1>1, <1>2, <1>3, <1>4, <2>1, <2>2, <2>3 DEF PairsInv, SemaphoreTurns
  <2>4. CASE at["ping"] = "sets"
    <3>1. sems'[1] = 1 /\ sems'[2] = sems[2] /\ sets' = sets /\ at'["ping"] = "resets"
          BY <1>1, <1>2, <2>2, <2>4
    <3> QED  BY <1>1, <1>3, <1>4, <2>1, <2>4, <3>1 DEF PairsInv, SemaphoreTurns
  <2>5. CASE at["ping"] = "resets"
    <3>1. sems'[1] = sems[1] /\ sems'[2] = 0 /\ sets' = sets /\ at'["ping"] = "waits"
          BY <1>1, <1>2, <2>2, <2>5
    <3>2. at["pong"] # "signals"
      <4>1. Words("pong") = 0  BY <1>1, <2>5 DEF PairsInv, SemaphoreTurns
      <4>2. left["pong"] \in 0 .. ROUNDS /\ ROUNDS \in Nat  BY <1>1, WordsAreFew DEF PairsInv
      <4> QED  BY <4>1, <4>2 DEF Words
    <3> QED  BY <1>1, <1>3, <1>4, <2>1, <2>5, <3>1, <3>2 DEF PairsInv, SemaphoreTurns
  <2>6. CASE at["ping"] = "waits"
        BY <1>1, <1>2, <1>3, <1>4, <2>1, <2>6 DEF PairsInv, SemaphoreTurns
  <2> QED  BY <1>2, <2>3, <2>4, <2>5, <2>6
<1>7. SignalTurns' /\ QueueTurns'  BY <1>1 DEF SignalTurns, QueueTurns, Signals
<1> QED  BY <1>5, <1>6, <1>7 DEF PairsInv

LEMMA SemaphorePongKeeps == ASSUME PairsInv, SemaphorePongActive  PROVE PairsInv'
<1>1. /\ pair = "semaphore"
      /\ UNCHANGED <<pair, left, said, sems, sets, pipe, handled, blocked, pending>>
      /\ at \in [Players -> Places] /\ "ping" \in Players /\ "pong" \in Players
      /\ \A p \in Players : p = "ping" \/ p = "pong"
      BY DEF SemaphorePongActive, signalVars, PairsInv, PairsTypeOK, Players
<1>2. \/ at["pong"] = "starts" /\ found' = sets /\ at' = [at EXCEPT !["pong"] = "waits"]
      \/ /\ at["pong"] = "waits" /\ left["pong"] = 0 /\ found' = found
         /\ at' = [at EXCEPT !["pong"] = "returned"]
      BY DEF SemaphorePongActive, Goes
<1>3. /\ at' \in [Players -> Places] /\ at'["ping"] = at["ping"]
      /\ at'["pong"] \in {"waits", "returned"} /\ at["pong"] \in {"starts", "waits"}
      BY <1>1, <1>2 DEF Places
<1>4. Words("ping")' = Words("ping") /\ Words("pong")' = Words("pong")
      BY <1>1, <1>3, WordsStay
<1>5. PairsTypeOK'
  <2>1. \A p \in Players : at'[p] \in {"signals", "suspended", "plays"} => left[p] > 0
        BY <1>1, <1>3 DEF PairsInv, PairsTypeOK
  <2>2. Spoken' = Spoken  BY <1>1 DEF Spoken
  <2> QED  BY <1>1, <1>3, <2>1, <2>2 DEF PairsInv, PairsTypeOK
<1>6. SemaphoreTurns'
  <2> SUFFICES ASSUME found'  PROVE SemaphoreTurns'
      BY <1>3 DEF SemaphoreTurns
  <2>1. found \/ at["pong"] = "starts"  BY <1>2
  <2>2. Alternate'  BY <1>1, <1>4, <2>1 DEF PairsInv, SemaphoreTurns, Alternate, InTurn
  <2>3. at["ping"] # "starts"  BY <1>1, <1>2, <2>1 DEF PairsInv, SemaphoreTurns
  <2> QED  BY <1>1, <1>3, <1>4, <2>1, <2>2, <2>3 DEF PairsInv, SemaphoreTurns
<1>7. SignalTurns' /\ QueueTurns'  BY <1>1 DEF SignalTurns, QueueTurns, Signals
<1> QED  BY <1>5, <1>6, <1>7 DEF PairsInv

LEMMA WaitTurnKeeps == ASSUME PairsInv, NEW p \in Players, WaitTurn(p)  PROVE PairsInv'
<1>1. /\ pair = "semaphore" /\ UNCHANGED <<pair, left, sets, found, pipe, handled, blocked, pending>>
      /\ at \in [Players -> Places] /\ "ping" \in Players /\ "pong" \in Players
      /\ (p = "ping" /\ Partner(p) = "pong") \/ (p = "pong" /\ Partner(p) = "ping")
      /\ \A q \in Players : q = p \/ q = Partner(p)
      BY DEF WaitTurn, signalVars, PairsInv, PairsTypeOK, Players, Partner
<1>2. /\ at[p] = "waits" /\ left[p] > 0 /\ (Usable(p) => sems[Index(p)] > 0)
      /\ sems' = (IF Usable(p) THEN [sems EXCEPT ![Index(p)] = @ - 1] ELSE sems)
      /\ said' = Append(said, p) /\ at' = [at EXCEPT ![p] = "signals"]
      BY DEF WaitTurn, Goes, Says
<1>3. /\ at' \in [Players -> Places] /\ at'[p] = "signals" /\ at'[Partner(p)] = at[Partner(p)]
      BY <1>1, <1>2 DEF Places
<1>4. /\ Words(p) \in Nat /\ Words(Partner(p)) \in Nat
      /\ Words(p) < ROUNDS /\ ROUNDS \in Nat
      /\ Words(p)' = Words(p) + 1 /\ Words(Partner(p))' = Words(Partner(p))
  <2>1. /\ left[p] \in 0 .. ROUNDS /\ ROUNDS \in Nat /\ Words(Partner(p)) \in 0 .. ROUNDS
        BY <1>1, WordsAreFew DEF PairsInv
  <2>2. Words(Partner(p))' = Words(Partner(p))  BY <1>1, <1>3, WordsStay
  <2>3. Words(p) = ROUNDS - left[p] /\ Words(p)' = ROUNDS - left[p] + 1
        BY <1>1, <1>2, <1>3, <2>1 DEF Words
  <2> QED  BY <1>2, <2>1, <2>2, <2>3
<1>5. PairsTypeOK'
  <2>1. sems' \in [1 .. 2 -> Int]  BY <1>1, <1>2 DEF PairsInv, PairsTypeOK, Index
  <2>2. \A q \in Players : at'[q] \in {"signals", "suspended", "plays"} => left[q] > 0
        BY <1>1, <1>2, <1>3 DEF PairsInv, PairsTypeOK
  <2>3. Spoken' = Spoken /\ Spoken = Players  BY <1>1 DEF Spoken
  <2>4. said' \in Seq(Spoken)  BY <1>1, <1>2, <2>3, Appended DEF PairsInv, PairsTypeOK
  <2> QED  BY <1>1, <1>3, <2>1, <2>2, <2>3, <2>4 DEF PairsInv, PairsTypeOK
<1>6. SemaphoreTurns'
  <2> SUFFICES ASSUME found \/ at'["pong"] = "starts"  PROVE SemaphoreTurns'
      BY <1>1 DEF SemaphoreTurns
  <2>1. found \/ at["pong"] = "starts"  BY <1>1, <1>3
  <2>2. sems \in [1 .. 2 -> Int] /\ 1 \in 1 .. 2 /\ 2 \in 1 .. 2  BY DEF PairsInv, PairsTypeOK
  <2>3. CASE p = "ping"
    <3>1. Usable(p) /\ Index(p) = 1  BY <1>1, <1>2, <2>1, <2>3 DEF PairsInv, SemaphoreTurns, Usable, Index
    <3>2. sems'[1] = sems[1] - 1 /\ sems'[2] = sems[2] /\ sems[1] > 0  BY <1>2, <2>2, <3>1
    <3>3. /\ Words("ping") = Words("pong") /\ at["pong"] # "signals" /\ sems[1] = 1 /\ sems[2] = 0
          BY <1>1, <1>2, <2>1, <2>3, <3>2 DEF PairsInv, SemaphoreTurns
    <3>4. Alternate'
          BY <1>1, <1>2, <1>4, <2>1, <2>3, <3>3, SayKeeps DEF PairsInv, SemaphoreTurns, Spoken
    <3>5. Words("ping")' # Words("pong")'  BY <1>1, <1>4, <2>3, <3>3
    <3> QED  BY <1>1, <1>2, <1>3, <2>1, <2>3, <3>2, <3>3, <3>4, <3>5 DEF PairsInv, SemaphoreTurns
  <2>4. CASE p = "pong"
    <3>1. found /\ Index(p) = 2 /\ (Usable(p) <=> sets)
          BY <1>2, <2>1, <2>4 DEF Usable, Index
    <3>2. Words("ping") # Words("pong") /\ at["ping"] \in {"waits", "returned"}
      <4>1. CASE sets
        <5>1. sems[2] > 0 /\ sems[2] \in Int  BY <1>2, <2>2, <3>1, <4>1
        <5>2. at["ping"] \in {"sets", "resets", "waits", "signals"}
              BY <1>1, <2>1, <4>1 DEF PairsInv, SemaphoreTurns
        <5> QED  BY <1>1, <2>1, <5>1, <5>2 DEF PairsInv, SemaphoreTurns
      <4>2. CASE ~sets
        <5>1. at["ping"] = "returned" /\ left["ping"] = 0
              BY <1>1, <2>1, <3>1, <4>2 DEF PairsInv, SemaphoreTurns
        <5>2. Words("ping") = ROUNDS  BY <1>4, <5>1 DEF Words
        <5> QED  BY <1>4, <2>4, <5>1, <5>2
      <4> QED  BY <4>1, <4>2
    <3>3. at["ping"] = "waits" => sems'[1] = 0 /\ sems'[2] = 0
      <4> SUFFICES ASSUME at["ping"] = "waits"  PROVE sems'[1] = 0 /\ sems'[2] = 0  OBVIOUS
      <4>1. sets /\ sems[1] = 0 /\ sems[2] = 1  BY <1>1, <2>1, <3>2 DEF PairsInv, SemaphoreTurns
      <4> QED  BY <1>2, <2>2, <3>1, <4>1
    <3>4. Words("pong")' = Words("ping")' /\ Words("ping") = Words("pong") + 1
          BY <1>1, <1>4, <2>1, <2>4, <3>2 DEF PairsInv, SemaphoreTurns, Alternate
    <3>5. Alternate'
          BY <1>1, <1>2, <1>4, <2>1, <2>4, <3>2, SayKeeps DEF PairsInv, SemaphoreTurns, Spoken
    <3>6. at'["ping"] = at["ping"] /\ at'["pong"] = "signals"  BY <1>1, <1>3, <2>4
    <3> QED  BY <1>1, <2>1, <3>1, <3>2, <3>3, <3>4, <3>5, <3>6 DEF PairsInv, SemaphoreTurns
  <2> QED  BY <1>1, <2>3, <2>4
<1>7. SignalTurns' /\ QueueTurns'  BY <1>1 DEF SignalTurns, QueueTurns, Signals
<1> QED  BY <1>5, <1>6, <1>7 DEF PairsInv

LEMMA SignalTurnKeeps == ASSUME PairsInv, NEW p \in Players, SignalTurn(p)  PROVE PairsInv'
<1>1. /\ pair = "semaphore" /\ UNCHANGED <<pair, said, sets, found, pipe, handled, blocked, pending>>
      /\ at \in [Players -> Places] /\ "ping" \in Players /\ "pong" \in Players
      /\ (p = "ping" /\ Partner(p) = "pong") \/ (p = "pong" /\ Partner(p) = "ping")
      /\ \A q \in Players : q = p \/ q = Partner(p)
      BY DEF SignalTurn, signalVars, PairsInv, PairsTypeOK, Players, Partner
<1>2. /\ at[p] = "signals" /\ left[p] > 0 /\ left[p] \in 0 .. ROUNDS /\ ROUNDS \in Nat
      /\ sems' = IF Usable(p) THEN [sems EXCEPT ![Index(Partner(p))] = @ + 1] ELSE sems
      BY RoundsAssumption DEF SignalTurn, PairsInv, PairsTypeOK
<1>3. at' = [at EXCEPT ![p] = "waits"] /\ left' = [left EXCEPT ![p] = @ - 1]
      BY DEF SignalTurn, Goes
<1>4. /\ at' \in [Players -> Places] /\ at'[p] = "waits" /\ at'[Partner(p)] = at[Partner(p)]
      /\ left' \in [Players -> 0 .. ROUNDS] /\ left'[p] = left[p] - 1
      /\ left'[Partner(p)] = left[Partner(p)]
  <2>1. at' \in [Players -> Places] /\ at'[p] = "waits" /\ at'[Partner(p)] = at[Partner(p)]
        BY <1>1, <1>3 DEF Places
  <2>2. left \in [Players -> 0 .. ROUNDS] /\ left[p] - 1 \in 0 .. ROUNDS
        BY <1>2 DEF PairsInv, PairsTypeOK
  <2> QED  BY <1>1, <1>3, <2>1, <2>2
<1>5. Words("ping")' = Words("ping") /\ Words("pong")' = Words("pong")
  <2>1. Words(Partner(p))' = Words(Partner(p))  BY <1>1, <1>4, WordsStay
  <2>2. Words(p)' = Words(p)  BY <1>2, <1>4 DEF Words
  <2> QED  BY <1>1, <2>1, <2>2
<1>6. PairsTypeOK'
  <2>1. sems' \in [1 .. 2 -> Int]  BY <1>1, <1>2 DEF PairsInv, PairsTypeOK, Index
  <2>2. \A q \in Players : at'[q] \in {"signals", "suspended", "plays"} => left'[q] > 0
        BY <1>1, <1>4 DEF PairsInv, PairsTypeOK
  <2>3. Spoken' = Spoken  BY <1>1 DEF Spoken
  <2> QED  BY <1>1, <1>4, <2>1, <2>2, <2>3 DEF PairsInv, PairsTypeOK
<1>7. SemaphoreTurns'
  <2> SUFFICES ASSUME found \/ at'["pong"] = "starts"  PROVE SemaphoreTurns'
      BY <1>1 DEF SemaphoreTurns
  <2>1. found \/ at["pong"] = "starts"  BY <1>1, <1>4
  <2>2. sems \in [1 .. 2 -> Int] /\ 1 \in 1 .. 2 /\ 2 \in 1 .. 2  BY DEF PairsInv, PairsTypeOK
  <2>3. Alternate'  BY <1>1, <1>5, <2>1 DEF PairsInv, SemaphoreTurns, Alternate, InTurn
  <2>4. CASE p = "ping"
    <3>1. Usable(p) /\ Index(Partner(p)) = 2
          BY <1>1, <1>2, <2>1, <2>4 DEF PairsInv, SemaphoreTurns, Usable, Index
    <3>2. /\ sems[1] = 0 /\ sems[2] = 0 /\ Words("ping") # Words("pong")
          BY <1>1, <1>2, <2>1, <2>4 DEF PairsInv, SemaphoreTurns
    <3>3. sems'[1] = 0 /\ sems'[2] = 1  BY <1>2, <2>2, <3>1, <3>2
    <3>4. at'["ping"] = "waits" /\ at'["pong"] = at["pong"] /\ at["ping"] = "signals"
          BY <1>1, <1>2, <1>4, <2>4
    <3> QED  BY <1>1, <1>5, <2>1, <2>3, <3>2, <3>3, <3>4 DEF PairsInv, SemaphoreTurns
  <2>5. CASE p = "pong"
    <3>1. found /\ Index(Partner(p)) = 1 /\ (Usable(p) <=> sets)
          BY <1>1, <1>2, <2>1, <2>5 DEF Usable, Index
    <3>2. /\ at'["pong"] = "waits" /\ at'["ping"] = at["ping"] /\ at["pong"] = "signals"
          /\ left'["ping"] = left["ping"]
          BY <1>1, <1>2, <1>4, <2>5
    <3>3. Words("ping") = Words("pong") /\ at["ping"] # "signals"
          BY <1>1, <2>1, <3>2 DEF PairsInv, SemaphoreTurns
    <3>4. at["ping"] \in {"waits", "returned"}
      <4>1. Words("pong") # 0
            BY <1>2, <2>5, <3>2 DEF Words
      <4> QED  BY <1>1, <2>1, <3>1, <3>3, <4>1 DEF PairsInv, SemaphoreTurns
    <3>5. at["ping"] = "waits" => sems'[1] = 1 /\ sems'[2] = 0
      <4> SUFFICES ASSUME at["ping"] = "waits"  PROVE sems'[1] = 1 /\ sems'[2] = 0  OBVIOUS
      <4>1. sets /\ sems[1] = 0 /\ sems[2] = 0
            BY <1>1, <2>1, <3>2, <3>3 DEF PairsInv, SemaphoreTurns
      <4> QED  BY <1>2, <2>2, <3>1, <4>1
    <3> QED  BY <1>1, <1>5, <2>1, <2>3, <3>2, <3>3, <3>4, <3>5 DEF PairsInv, SemaphoreTurns
  <2> QED  BY <1>1, <2>4, <2>5
<1>8. SignalTurns' /\ QueueTurns'  BY <1>1 DEF SignalTurns, QueueTurns, Signals
<1> QED  BY <1>6, <1>7, <1>8 DEF PairsInv

LEMMA PipeKeeps ==
    ASSUME PairsInv, PipeChildCloses \/ RunParentLoop \/ RunChildLoop \/ WaitForChild
    PROVE  PairsInv'
<1>1. /\ pair = "pipe" /\ UNCHANGED <<pair, sems, handled, blocked, pending>>
      /\ at \in [Players -> Places] /\ left \in [Players -> 0 .. ROUNDS] /\ ROUNDS \in Nat
      /\ pipe \in Seq(Int) /\ said \in Seq(Int) /\ "ping" \in Players /\ "pong" \in Players
      BY RoundsAssumption DEF PipeChildCloses, RunParentLoop, RunChildLoop, WaitForChild, talkVars,
         signalVars, PairsInv, PairsTypeOK, Spoken, Players
<1>2. \/ at' = at \/ at' = [at EXCEPT !["pong"] = "reads"] \/ at' = [at EXCEPT !["pong"] = "returned"]
      \/ at' = [at EXCEPT !["ping"] = "joins"] \/ at' = [at EXCEPT !["ping"] = "returned"]
      BY DEF PipeChildCloses, RunParentLoop, RunChildLoop, WaitForChild, Goes
<1>3. \/ left' = left
      \/ /\ left' = [left EXCEPT !["ping"] = @ - 1] /\ left["ping"] > 0
         /\ at["ping"] = "starts" /\ at' = at
      BY DEF PipeChildCloses, RunParentLoop, RunChildLoop, WaitForChild
<1>4. /\ at' \in [Players -> Places]
      /\ \A p \in Players : at'[p] \in {"signals", "suspended", "plays"} => at'[p] = at[p]
      BY <1>1, <1>2 DEF Places
<1>5. /\ left' \in [Players -> 0 .. ROUNDS]
      /\ \A p \in Players : left'[p] = left[p] \/ at'[p] = "starts"
  <2>1. CASE left' = left  BY <1>1, <2>1
  <2>2. CASE /\ left' = [left EXCEPT !["ping"] = @ - 1] /\ left["ping"] > 0
             /\ at["ping"] = "starts" /\ at' = at
    <3>1. left["ping"] - 1 \in 0 .. ROUNDS  BY <1>1, <2>2
    <3> QED  BY <1>1, <2>2, <3>1
  <2> QED  BY <1>3, <2>1, <2>2
<1>6. pipe' \in Seq(Int)
  <2>1. left["ping"] \in Int  BY <1>1
  <2>2. \/ pipe' = pipe \/ pipe' = Append(pipe, left["ping"]) \/ (pipe # <<>> /\ pipe' = Tail(pipe))
        BY DEF PipeChildCloses, RunParentLoop, RunChildLoop, WaitForChild, talkVars
  <2>3. Append(pipe, left["ping"]) \in Seq(Int)  BY <1>1, <2>1
  <2>4. pipe # <<>> => Tail(pipe) \in Seq(Int)  BY <1>1
  <2> QED  BY <1>1, <2>2, <2>3, <2>4
<1>7. said' \in Seq(Int)
  <2>1. said' = said \/ (pipe # <<>> /\ said' = Append(said, Head(pipe)))
        BY DEF PipeChildCloses, RunParentLoop, RunChildLoop, WaitForChild, Says
  <2>2. pipe # <<>> => Head(pipe) \in Int  BY <1>1
  <2>3. pipe # <<>> => Append(said, Head(pipe)) \in Seq(Int)  BY <1>1, <2>2
  <2> QED  BY <1>1, <2>1, <2>3
<1>8. PairsTypeOK'
  <2>1. \A p \in Players : at'[p] \in {"signals", "suspended", "plays"} => left'[p] > 0
        BY <1>4, <1>5 DEF PairsInv, PairsTypeOK
  <2>2. Spoken' = Int  BY <1>1 DEF Spoken
  <2> QED  BY <1>1, <1>4, <1>5, <1>6, <1>7, <2>1, <2>2 DEF PairsInv, PairsTypeOK
<1>9. SemaphoreTurns' /\ SignalTurns' /\ QueueTurns'
      BY <1>1 DEF SemaphoreTurns, SignalTurns, QueueTurns, Signals
<1> QED  BY <1>8, <1>9 DEF PairsInv

LEMMA QueueKeeps == ASSUME PairsInv, MsgQuePing \/ MsgQuePong  PROVE PairsInv'
<1>1. /\ pair = "queue" /\ UNCHANGED <<pair, sems, pipe, handled, blocked, pending>>
      /\ at \in [Players -> Places] /\ left \in [Players -> 0 .. ROUNDS] /\ ROUNDS \in Nat
      /\ said \in Seq(Int) /\ "ping" \in Players /\ "pong" \in Players
      BY RoundsAssumption DEF MsgQuePing, MsgQuePong, signalVars, PairsInv, PairsTypeOK, Spoken,
         Players
<1> DEFINE Sent == left["ping"] > 0 /\ left' = [left EXCEPT !["ping"] = @ - 1]
                   /\ at' = [at EXCEPT !["ping"] = "sends"]
           Opened == at["pong"] = "starts" /\ at' = [at EXCEPT !["pong"] = "receives"] /\ left' = left
           Received == /\ at["pong"] = "receives" /\ left["pong"] > 0
                       /\ left' = [left EXCEPT !["pong"] = @ - 1] /\ at' = at /\ found' = found
                       /\ said' = Append(said, IF found THEN left["pong"] ELSE 0)
           Returned == /\ left' = left
                       /\ \/ at' = [at EXCEPT !["ping"] = "returned"]
                          \/ at["pong"] = "receives" /\ at' = [at EXCEPT !["pong"] = "returned"]
<1>2. \/ Sent /\ said' = said /\ found' = found
      \/ Opened /\ said' = said
      \/ Received
      \/ Returned /\ said' = said /\ found' = found
      BY DEF MsgQuePing, MsgQuePong, Goes, Says
<1>3. /\ at' \in [Players -> Places]
      /\ \A p \in Players : at'[p] \in {"signals", "suspended", "plays"} => at'[p] = at[p]
      /\ at'["pong"] = "starts" => at["pong"] = "starts" /\ ~Opened /\ ~Received
      BY <1>1, <1>2 DEF Places
<1>4. /\ left' \in [Players -> 0 .. ROUNDS]
      /\ Received => left'["pong"] = left["pong"] - 1
      /\ ~Received => left'["pong"] = left["pong"]
      /\ \A p \in Players : left'[p] = left[p] \/ at'[p] \in {"sends", "receives"}
  <2>1. CASE Sent
    <3>1. left["ping"] - 1 \in 0 .. ROUNDS  BY <1>1, <2>1
    <3>2. at'["ping"] = "sends" /\ ~Received  BY <1>1, <2>1
    <3> QED  BY <1>1, <2>1, <3>1, <3>2
  <2>2. CASE Received
    <3>1. left["pong"] - 1 \in 0 .. ROUNDS  BY <1>1, <2>2
    <3> QED  BY <1>1, <2>2, <3>1
  <2>3. CASE ~Sent /\ ~Received  BY <1>1, <1>2, <2>3
  <2> QED  BY <2>1, <2>2, <2>3
<1>5. said' \in Seq(Int) /\ (Received => Len(said') = Len(said) + 1
      /\ (\A i \in DOMAIN said' : said'[i] = IF i \in DOMAIN said THEN said[i]
                                              ELSE IF found THEN left["pong"] ELSE 0)
      /\ DOMAIN said' = 1 .. Len(said) + 1)
  <2>1. left["pong"] \in Int /\ Len(said) \in Nat /\ DOMAIN said = 1 .. Len(said)  BY <1>1
  <2> DEFINE it == IF found THEN left["pong"] ELSE 0
  <2>2. it \in Int  BY <2>1
  <2>3. Received => said' = Append(said, it)  OBVIOUS
  <2>4. ~Received => said' = said  BY <1>2
  <2> HIDE DEF it
  <2>5. ASSUME Received
        PROVE /\ said' \in Seq(Int) /\ Len(said') = Len(said) + 1 /\ DOMAIN said' = 1 .. Len(said) + 1
              /\ said'[Len(said) + 1] = it /\ \A i \in 1 .. Len(said) : said'[i] = said[i]
        BY <1>1, <2>2, <2>3, <2>5, Appended
  <2>6. Received => \A i \in DOMAIN said' : said'[i] = IF i \in DOMAIN said THEN said[i] ELSE it
        BY <2>1, <2>5
  <2> QED  BY <1>1, <2>4, <2>5, <2>6 DEF it
<1>6. PairsTypeOK'
  <2>1. \A p \in Players : at'[p] \in {"signals", "suspended", "plays"} => left'[p] > 0
        BY <1>3, <1>4 DEF PairsInv, PairsTypeOK
  <2>2. Spoken' = Int  BY <1>1 DEF Spoken
  <2> QED  BY <1>1, <1>3, <1>4, <1>5, <2>1, <2>2 DEF PairsInv, PairsTypeOK
<1>7. QueueTurns'
  <2>1. left["pong"] \in 0 .. ROUNDS /\ Len(said) \in Nat /\ DOMAIN said = 1 .. Len(said)  BY <1>1
  <2>2. CASE Opened
    <3>1. said = <<>> /\ left["pong"] = ROUNDS /\ said' = said /\ left'["pong"] = left["pong"]
          BY <1>1, <1>2, <1>4, <2>2 DEF PairsInv, QueueTurns
    <3> QED  BY <1>1, <1>3, <2>2, <3>1 DEF QueueTurns
  <2>3. CASE Received
    <3>1. at'["pong"] # "starts" /\ found' = found  BY <2>3
    <3> SUFFICES ASSUME found
                 PROVE /\ Len(said') = ROUNDS - left'["pong"]
                       /\ \A i \in DOMAIN said' : said'[i] = ROUNDS - i + 1
        BY <3>1 DEF QueueTurns
    <3>2. Len(said) = ROUNDS - left["pong"] /\ \A i \in DOMAIN said : said[i] = ROUNDS - i + 1
          BY <1>1 DEF PairsInv, QueueTurns
    <3>3. Len(said') = ROUNDS - left'["pong"]  BY <1>1, <1>4, <1>5, <2>1, <2>3, <3>2
    <3>4. ASSUME NEW i \in DOMAIN said'  PROVE said'[i] = ROUNDS - i + 1
      <4>1. CASE i \in DOMAIN said  BY <1>5, <2>3, <3>2, <4>1
      <4>2. CASE i \notin DOMAIN said
        <5>1. said'[i] = left["pong"] /\ i \in 1 .. Len(said) + 1  BY <1>5, <2>3, <4>2
        <5>2. i = Len(said) + 1  BY <2>1, <4>2, <5>1
        <5> QED  BY <1>1, <2>1, <3>2, <5>1, <5>2
      <4> QED  BY <4>1, <4>2
    <3> QED  BY <3>3, <3>4
  <2>4. CASE ~Opened /\ ~Received
    <3>1. said' = said /\ found' = found /\ left'["pong"] = left["pong"]
          BY <1>2, <1>4, <2>4
    <3> QED  BY <1>1, <1>3, <3>1 DEF PairsInv, QueueTurns
  <2> QED  BY <2>2, <2>3, <2>4
<1>8. SemaphoreTurns' /\ SignalTurns'
      BY <1>1 DEF SemaphoreTurns, SignalTurns, Signals
<1> QED  BY <1>6, <1>7, <1>8 DEF PairsInv

\* What the signal pairs' invariant says of one player.
LEMMA PlayersAre ==
    ASSUME PairsInv, pair \in Signals
    PROVE  /\ pair \notin {"semaphore", "pipe", "queue"} /\ Spoken = Players
           /\ at \in [Players -> Places] /\ left \in [Players -> 0 .. ROUNDS] /\ ROUNDS \in Nat
           /\ handled \in [Players -> BOOLEAN] /\ blocked \in [Players -> BOOLEAN]
           /\ pending \in [Players -> BOOLEAN]
           /\ "ping" \in Players /\ "pong" \in Players
           /\ \A p \in Players : /\ p = "ping" \/ p = "pong"
                                 /\ at[p] # "signals" /\ Words(p) = ROUNDS - left[p]
                                 /\ Words(p) \in Nat
<1>1. /\ pair \notin {"semaphore", "pipe", "queue"} /\ Spoken = Players
      /\ at \in [Players -> Places] /\ left \in [Players -> 0 .. ROUNDS] /\ ROUNDS \in Nat
      /\ handled \in [Players -> BOOLEAN] /\ blocked \in [Players -> BOOLEAN]
      /\ pending \in [Players -> BOOLEAN]
      BY RoundsAssumption DEF PairsInv, PairsTypeOK, Signals, Spoken
<1>2. \A p \in Players : at[p] # "signals" /\ Words(p) \in Nat
      BY WordsAreFew DEF PairsInv, SignalTurns
<1>3. \A p \in Players : Words(p) = ROUNDS - left[p]  BY <1>1, <1>2 DEF Words
<1> QED  BY <1>1, <1>2, <1>3 DEF Players

\* A step of p that says nothing: Init, the first signal, the loop's head and a signal taken.
LEMMA QuietSignalKeeps ==
    ASSUME PairsInv, pair \in Signals, NEW p \in Players,
           InitMask(p) \/ (p = Starter /\ FirstKill) \/ Suspend(p) \/ Deliver(p)
    PROVE  PairsInv'
<1>1. UNCHANGED <<pair, left, said, sems, sets, found, pipe>>
      BY DEF InitMask, FirstKill, Suspend, Deliver, talkVars, signalVars
<1>2. /\ pair \notin {"semaphore", "pipe", "queue"} /\ Spoken = Players
      /\ at \in [Players -> Places] /\ left \in [Players -> 0 .. ROUNDS] /\ ROUNDS \in Nat
      /\ handled \in [Players -> BOOLEAN] /\ blocked \in [Players -> BOOLEAN]
      /\ pending \in [Players -> BOOLEAN]
      /\ "ping" \in Players /\ "pong" \in Players
      /\ \A q \in Players : q = "ping" \/ q = "pong"
      BY PlayersAre
<1>3. /\ \A q \in Players :
            /\ at[q] \in {"init", "first", "back", "suspended", "plays", "returned"}
            /\ at[q] # "init" => handled[q] /\ blocked[q]
            /\ ~(pending[q] /\ at[q] = "plays")
            /\ at[q] \in {"suspended", "plays"} => left[q] > 0
      /\ blocked["ping"] /\ at["ping"] # "first"
      /\ Turn("ping") => ~Turn("pong") /\ Words("ping") = Words("pong")
      /\ Turn("pong") => Words("ping") # Words("pong")
      /\ at["pong"] \in {"init", "first"} =>
            ~Turn("ping") /\ ~Turn("pong") /\ Words("ping") = Words("pong")
      /\ Alternate
      BY DEF PairsInv, SignalTurns, PairsTypeOK
<1>4. /\ \A q \in Players \ {p} : at'[q] = at[q] /\ handled'[q] = handled[q] /\ blocked'[q] = blocked[q]
      /\ at' \in [Players -> Places] /\ handled' \in [Players -> BOOLEAN]
      /\ blocked' \in [Players -> BOOLEAN] /\ pending' \in [Players -> BOOLEAN]
  <2>1. CASE InitMask(p)  BY <1>2, <2>1 DEF InitMask, Goes, Places
  <2>2. CASE p = Starter /\ FirstKill  BY <1>2, <2>2 DEF FirstKill, Goes, Places
  <2>3. CASE Suspend(p)  BY <1>2, <2>3 DEF Suspend, Goes, Places, signalVars
  <2>4. CASE Deliver(p)
    <3>1. \A was \in Places : (IF ~handled[p] THEN "killed"
                                  ELSE IF was = "suspended" THEN "plays" ELSE was) \in Places
          BY DEF Places
    <3> DEFINE to == IF ~handled[p] THEN "killed"
                     ELSE IF at[p] = "suspended" THEN "plays" ELSE at[p]
    <3>2. to \in Places /\ at' = [at EXCEPT ![p] = to]  BY <1>2, <2>4, <3>1 DEF Deliver
    <3> HIDE DEF to
    <3>3. pending' = [pending EXCEPT ![p] = FALSE] /\ handled' = handled /\ blocked' = blocked
          BY <2>4 DEF Deliver
    <3> QED  BY <1>2, <3>2, <3>3
  <2> QED  BY <2>1, <2>2, <2>3, <2>4
\* Where p comes to, and what becomes of the pending signals.
<1>5. \/ /\ at[p] = "init" /\ at'[p] = IF p = "pong" THEN "first" ELSE "back"
         /\ handled'[p] /\ blocked'[p] /\ \A q \in Players : pending'[q] = pending[q]
      \/ /\ p = "pong" /\ at[p] = "first" /\ at'[p] = "back" /\ pending'["ping"]
         /\ pending'["pong"] = pending["pong"] /\ handled'[p] = handled[p] /\ blocked'[p] = blocked[p]
      \/ /\ at[p] = "back" /\ at'[p] \in {"returned", "suspended"}
         /\ at'[p] = "suspended" => left[p] > 0
         /\ handled'[p] = handled[p] /\ blocked'[p] = blocked[p]
         /\ \A q \in Players : pending'[q] = pending[q]
      \/ /\ pending[p] /\ at[p] = "suspended" /\ at'[p] = "plays" /\ ~pending'[p]
         /\ \A q \in Players \ {p} : pending'[q] = pending[q]
         /\ handled'[p] = handled[p] /\ blocked'[p] = blocked[p]
  <2>1. CASE InitMask(p)  BY <1>2, <2>1 DEF InitMask, Goes, Starter
  <2>2. CASE p = Starter /\ FirstKill
    <3>1. at["pong"] = "first" /\ pending' = [pending EXCEPT !["ping"] = TRUE]
          /\ at' = [at EXCEPT !["pong"] = "back"] /\ handled' = handled /\ blocked' = blocked
          /\ p = "pong"
          BY <2>2 DEF FirstKill, Starter, Follower, Goes
    <3> QED  BY <1>2, <3>1
  <2>3. CASE Suspend(p)
    <3>1. left[p] \in 0 .. ROUNDS  BY <1>2
    <3> QED  BY <1>2, <2>3, <3>1 DEF Suspend, Goes, signalVars
  <2>4. CASE Deliver(p)
    <3>1. pending[p] /\ Turn(p) /\ (at[p] = "suspended" \/ ~blocked[p])
          BY <2>4 DEF Deliver, Turn
    <3>2. at[p] = "suspended"  BY <1>2, <1>3, <3>1
    <3>3. handled[p]  BY <1>3, <3>2
    <3> QED  BY <1>2, <2>4, <3>1, <3>2, <3>3 DEF Deliver
  <2> QED  BY <2>1, <2>2, <2>3, <2>4
<1>6. Words("ping")' = Words("ping") /\ Words("pong")' = Words("pong")
  <2>1. \A q \in Players : at'[q] # "signals" /\ at[q] # "signals"
        BY <1>2, <1>3, <1>4, <1>5
  <2> QED  BY <1>1, <1>2, <2>1, WordsStay
<1>7. PairsTypeOK'
  <2>1. \A q \in Players : at'[q] \in {"signals", "suspended", "plays"} => left[q] > 0
        BY <1>2, <1>3, <1>4, <1>5
  <2>2. Spoken' = Spoken  BY <1>1 DEF Spoken
  <2> QED  BY <1>1, <1>2, <1>4, <2>1, <2>2 DEF PairsInv, PairsTypeOK
<1>8. SignalTurns'
  <2>1. Alternate'  BY <1>1, <1>3, <1>6 DEF Alternate, InTurn
  <2>2. \A q \in Players :
            /\ at'[q] \in {"init", "first", "back", "suspended", "plays", "returned"}
            /\ at'[q] # "init" => handled'[q] /\ blocked'[q]
        BY <1>2, <1>3, <1>4, <1>5
  <2>3. blocked'["ping"] /\ at'["ping"] # "first"  BY <1>2, <1>3, <1>4, <1>5
  <2>4. \A q \in Players : ~(pending'[q] /\ at'[q] = "plays")
        BY <1>2, <1>3, <1>4, <1>5 DEF Turn
  <2>5. /\ (pending["ping"] \/ at["ping"] = "plays") =>
              ~(pending["pong"] \/ at["pong"] = "plays")
        /\ at["pong"] \in {"init", "first"} =>
              ~pending["ping"] /\ at["ping"] # "plays" /\ ~pending["pong"] /\ at["pong"] # "plays"
        BY <1>3 DEF Turn
  <2>6. /\ Turn("pong")' => Turn("pong")
        /\ Turn("ping")' => (Turn("ping") /\ at["pong"] \notin {"init", "first"}) \/ at["pong"] = "first"
        /\ Turn("ping")' => ~Turn("pong")'
        BY <1>2, <1>3, <1>4, <1>5, <2>5 DEF Turn
  <2>7. at'["pong"] \in {"init", "first"} =>
            ~Turn("ping")' /\ ~Turn("pong")' /\ Words("ping") = Words("pong")
        BY <1>2, <1>3, <1>4, <1>5, <2>5 DEF Turn
  <2>8. /\ Turn("ping")' => Words("ping") = Words("pong")
        /\ Turn("pong")' => Words("ping") # Words("pong")
        BY <1>3, <2>6
  <2> QED  BY <1>1, <1>6, <2>1, <2>2, <2>3, <2>4, <2>6, <2>7, <2>8 DEF SignalTurns
<1>9. SemaphoreTurns' /\ QueueTurns'
      BY <1>1, <1>2 DEF SemaphoreTurns, QueueTurns
<1> QED  BY <1>7, <1>8, <1>9 DEF PairsInv

LEMMA PlayKeeps == ASSUME PairsInv, NEW p \in Players, Play(p)  PROVE PairsInv'
<1>1. pair \in Signals /\ UNCHANGED <<pair, sems, sets, found, pipe, handled, blocked>>
      BY DEF Play, talkVars
<1>2. /\ pair \notin {"semaphore", "pipe", "queue"} /\ Spoken = Players
      /\ at \in [Players -> Places] /\ left \in [Players -> 0 .. ROUNDS] /\ ROUNDS \in Nat
      /\ pending \in [Players -> BOOLEAN]
      /\ (p = "ping" /\ Partner(p) = "pong") \/ (p = "pong" /\ Partner(p) = "ping")
      /\ \A q \in Players : q = p \/ q = Partner(p)
      /\ p \in Players /\ Partner(p) \in Players /\ Partner(p) # p
      /\ \A q \in Players : Words(q) \in Nat /\ Words(q) = ROUNDS - left[q]
      BY <1>1, PlayersAre DEF Partner
<1>3. /\ \A q \in Players :
            /\ at[q] \in {"init", "first", "back", "suspended", "plays", "returned"}
            /\ at[q] # "init" => handled[q] /\ blocked[q]
            /\ ~(pending[q] /\ at[q] = "plays")
            /\ at[q] \in {"suspended", "plays"} => left[q] > 0
      /\ blocked["ping"] /\ at["ping"] # "first"
      /\ Turn("ping") => ~Turn("pong") /\ Words("ping") = Words("pong")
      /\ Turn("pong") => Words("ping") # Words("pong")
      /\ at["pong"] \in {"init", "first"} =>
            ~Turn("ping") /\ ~Turn("pong") /\ Words("ping") = Words("pong")
      /\ Alternate
      BY <1>1 DEF PairsInv, SignalTurns, PairsTypeOK
<1>4. /\ at[p] = "plays" /\ Turn(p)
      /\ at' = [at EXCEPT ![p] = "back"] /\ left' = [left EXCEPT ![p] = @ - 1]
      /\ pending' = [pending EXCEPT ![Partner(p)] = TRUE] /\ said' = Append(said, p)
      BY DEF Play, Goes, Says, Turn
<1>5. /\ at' \in [Players -> Places] /\ at'[p] = "back" /\ at'[Partner(p)] = at[Partner(p)]
      /\ pending' \in [Players -> BOOLEAN] /\ pending'[Partner(p)] /\ ~pending'[p]
  <2>1. ~pending[p]  BY <1>3, <1>4
  <2> QED  BY <1>2, <1>4, <2>1 DEF Places
<1>6. /\ left' \in [Players -> 0 .. ROUNDS] /\ left'[p] = left[p] - 1
      /\ left'[Partner(p)] = left[Partner(p)]
  <2>1. left[p] - 1 \in 0 .. ROUNDS  BY <1>2, <1>3, <1>4
  <2> QED  BY <1>2, <1>4, <2>1
<1>7. Words(p)' = Words(p) + 1 /\ Words(Partner(p))' = Words(Partner(p))
  <2>1. at'[p] # "signals" /\ at[p] # "signals"  BY <1>4, <1>5
  <2>2. Words(p)' = ROUNDS - left'[p]  BY <1>2, <1>6, <2>1 DEF Words
  <2>3. Words(Partner(p))' = Words(Partner(p))  BY <1>2, <1>5, <1>6, WordsStay
  <2> QED  BY <1>2, <1>6, <2>2, <2>3
<1>8. ~Turn(Partner(p)) /\ (p = "ping" <=> Words("ping") = Words("pong"))
      BY <1>2, <1>3, <1>4
<1>9. Alternate'
      BY <1>2, <1>3, <1>4, <1>7, <1>8, SayKeeps DEF PairsInv
<1>10. PairsTypeOK'
  <2>1. \A q \in Players : at'[q] \in {"signals", "suspended", "plays"} => left'[q] > 0
        BY <1>2, <1>3, <1>5, <1>6
  <2>2. Spoken' = Spoken  BY <1>1 DEF Spoken
  <2>3. said' \in Seq(Spoken)  BY <1>2, <1>4, Appended DEF PairsInv, PairsTypeOK
  <2> QED  BY <1>1, <1>2, <1>5, <1>6, <2>1, <2>2, <2>3 DEF PairsInv, PairsTypeOK
<1>11. SignalTurns'
  <2>1. \A q \in Players :
            /\ at'[q] \in {"init", "first", "back", "suspended", "plays", "returned"}
            /\ at'[q] # "init" => handled[q] /\ blocked[q]
            /\ ~(pending'[q] /\ at'[q] = "plays")
        BY <1>2, <1>3, <1>4, <1>5, <1>8 DEF Turn
  <2>2. ~Turn(p)' /\ Turn(Partner(p))'  BY <1>5 DEF Turn
  <2>3. at'["ping"] # "first"  BY <1>2, <1>3, <1>5
  <2>4. at'["pong"] \notin {"init", "first"}  BY <1>2, <1>3, <1>4, <1>5, <1>8
  <2>5. p = "ping" => Words("ping")' # Words("pong")'
    <3> SUFFICES ASSUME p = "ping"  PROVE Words("ping")' # Words("pong")'  OBVIOUS
    <3> QED  BY <1>2, <1>7, <1>8
  <2>6. p = "pong" => Words("ping")' = Words("pong")'
    <3> SUFFICES ASSUME p = "pong"  PROVE Words("ping")' = Words("pong")'  OBVIOUS
    <3>1. Words("ping") = Words("pong") + 1
      <4>1. Words("ping") # Words("pong") /\ Words("ping") - Words("pong") \in {0, 1}
            BY <1>3, <1>8 DEF Alternate
      <4>2. Words("ping") \in Nat /\ Words("pong") \in Nat  BY <1>2
      <4> QED  BY <4>1, <4>2
    <3> QED  BY <1>2, <1>7, <3>1
  <2> QED  BY <1>1, <1>2, <1>3, <1>9, <2>1, <2>2, <2>3, <2>4, <2>5, <2>6 DEF SignalTurns
<1>12. SemaphoreTurns' /\ QueueTurns'
      BY <1>1, <1>2 DEF SemaphoreTurns, QueueTurns
<1> QED  BY <1>10, <1>11, <1>12 DEF PairsInv

\* Every step of the two keeps the turns; a step that leaves them alone does.
LEMMA PairsKeep == PairsInv /\ [PairsNext]_pairVars => PairsInv'
<1> SUFFICES ASSUME PairsInv, [PairsNext]_pairVars  PROVE PairsInv'  OBVIOUS
<1>1. CASE UNCHANGED pairVars
  <2>1. UNCHANGED <<pair, at, left, said, sems, sets, found, pipe, handled, blocked, pending>>
        BY <1>1 DEF pairVars
  <2>2. /\ Words("ping")' = Words("ping") /\ Words("pong")' = Words("pong") /\ Spoken' = Spoken
        /\ Turn("ping")' = Turn("ping") /\ Turn("pong")' = Turn("pong")
        BY <2>1 DEF Words, Spoken, Turn
  <2>3. Alternate' = Alternate  BY <2>1, <2>2 DEF Alternate, InTurn
  <2>4. PairsTypeOK'  BY <2>1, <2>2 DEF PairsInv, PairsTypeOK
  <2>5. SemaphoreTurns'  BY <2>1, <2>2, <2>3 DEF PairsInv, SemaphoreTurns
  <2>6. SignalTurns'  BY <2>1, <2>2, <2>3 DEF PairsInv, SignalTurns
  <2>7. QueueTurns'  BY <2>1 DEF PairsInv, QueueTurns
  <2> QED  BY <2>4, <2>5, <2>6, <2>7 DEF PairsInv
<1>2. ASSUME NEW p \in Players, PlayerStep(p)  PROVE PairsInv'
  <2>1. CASE WaitTurn(p)  BY <2>1, WaitTurnKeeps
  <2>2. CASE SignalTurn(p)  BY <2>2, SignalTurnKeeps
  <2>3. CASE InitMask(p) \/ Suspend(p) \/ Deliver(p)
    <3>1. pair \in Signals
      <4>1. Deliver(p) => pending[p]  BY DEF Deliver
      <4>2. InitMask(p) \/ Suspend(p) => pair \in Signals  BY DEF InitMask, Suspend
      <4> QED  BY <2>3, <4>1, <4>2 DEF PairsInv, PairsTypeOK
    <3> QED  BY <2>3, <3>1, QuietSignalKeeps
  <2>4. CASE Play(p)  BY <2>4, PlayKeeps
  <2> QED  BY <1>2, <2>1, <2>2, <2>3, <2>4 DEF PlayerStep
<1>3. "ping" \in Players /\ "pong" \in Players /\ Starter \in Players  BY DEF Players, Starter
<1>4. CASE FirstKill
  <2>1. pair \in Signals  BY <1>4 DEF FirstKill
  <2> QED  BY <1>3, <1>4, <2>1, QuietSignalKeeps
<1> QED  BY <1>1, <1>2, <1>3, <1>4, SemaphorePingKeeps, SemaphorePongKeeps, PipeKeeps, QueueKeeps
         DEF PairsNext, PingStep, PongStep

LEMMA PairsPromise == PairsInv => TurnsAreTaken
BY DEF PairsInv, SemaphoreTurns, SignalTurns, QueueTurns, Alternate, InTurn, TurnsAreTaken,
       Follower, Starter

-----------------------------------------------------------------------------
(* PongServer: what the server may take for ready. *)

PongTypeOK ==
    /\ conn \in [CLIENTS -> {"none", "backlog", "open", "closed", "reset"}]
    /\ client \in [CLIENTS -> {"connects", "sends", "waits", "returned", "killed"}]
    /\ pro \in [CLIENTS -> {"udp", "tcp"}] /\ orphan \in [CLIENTS -> BOOLEAN]
    /\ unread \in [CLIENTS -> Nat] /\ pongs \in [CLIENTS -> Nat] /\ socket \in [CLIENTS -> Nat]
    /\ mode # "select" \/ up # "serves" => temp = {}

\* The set names open descriptors only, and each connection has one of its own.
MasterIsOpen ==
    mode = "select" /\ up = "serves" =>
        /\ \A fd \in master : IsOpen(fd)
        /\ \A c \in Open : socket[c] > fd_udp
        /\ \A c, d \in Open : socket[c] = socket[d] => c = d

\* A client sends its next ping when it has its pong: who returns leaves nothing behind.
OnePing(c) ==
    /\ client[c] = "connects" => conn[c] = "none"
    /\ pro[c] = "udp" => conn[c] = "none" /\ client[c] # "connects"
    /\ c \in datagrams => pro[c] = "udp"
    /\ pro[c] = "tcp" /\ conn[c] \notin {"closed", "reset"} =>
          /\ client[c] \in {"connects", "sends", "returned"} => unread[c] = 0 /\ pongs[c] = 0
          /\ client[c] = "waits" => unread[c] + pongs[c] <= 1
    /\ orphan[c] => client[c] = "killed"
OnePingEach == \A c \in CLIENTS : OnePing(c)

PongInv == PongTypeOK /\ MasterIsOpen /\ OnePingEach /\ ServerIsNotHeldUp

LEMMA PongStarts == PongInit => PongInv
<1> SUFFICES ASSUME PongInit  PROVE PongInv  OBVIOUS
<1>1. /\ \A c \in CLIENTS : /\ pro[c] \in {"udp", "tcp"} /\ conn[c] = "none" /\ unread[c] = 0
                            /\ pongs[c] = 0 /\ ~orphan[c]
                            /\ client[c] = IF pro[c] = "udp" THEN "sends" ELSE "connects"
      /\ pro \in [CLIENTS -> {"udp", "tcp"}]
      /\ datagrams = {} /\ temp = {} /\ up = "serves"
  <2>1. pro \in [CLIENTS -> {"udp", "tcp"}]  BY DEF PongInit
  <2> QED  BY <2>1 DEF PongInit
<1>2. PongTypeOK  BY <1>1 DEF PongInit, PongTypeOK
<1>3. MasterIsOpen
  <2>1. master = {STDIN, fd_tcp, fd_udp} /\ Open = {}  BY <1>1 DEF PongInit, Open
  <2> QED  BY <2>1 DEF MasterIsOpen, IsOpen
<1>4. OnePingEach  BY <1>1 DEF OnePingEach, OnePing
<1>5. ServerIsNotHeldUp  BY <1>1 DEF ServerIsNotHeldUp
<1> QED  BY <1>2, <1>3, <1>4, <1>5 DEF PongInv

\* What a step leaves of one client's pings.
LEMMA PingStays ==
    ASSUME NEW c \in CLIENTS, OnePing(c), client'[c] = client[c], pro'[c] = pro[c],
           \/ conn'[c] = conn[c]
           \/ conn[c] \in {"backlog", "open"} /\ conn'[c] \in {"open", "closed", "reset"},
           unread'[c] = unread[c], pongs'[c] = pongs[c] \/ pro[c] = "udp",
           orphan'[c] = orphan[c], c \in datagrams' => c \in datagrams
    PROVE  OnePing(c)'
BY DEF OnePing

\* What is ready stays ready until it is handled.
LEMMA StaysReadable ==
    ASSUME NEW fd, Readable(fd),
           fd = STDIN => typed' = typed,
           fd = fd_tcp => \A c \in CLIENTS : conn[c] = "backlog" => conn'[c] = "backlog",
           fd = fd_udp => datagrams \subseteq datagrams',
           \A d \in Open : socket[d] = fd =>
               /\ conn'[d] = "open" /\ socket'[d] = socket[d]
               /\ unread[d] > 0 => unread'[d] > 0
               /\ Gone(d) => Gone(d)'
    PROVE  Readable(fd)'
<1>1. CASE fd = STDIN /\ typed # "nothing"  BY <1>1 DEF Readable
<1>2. CASE fd = fd_tcp /\ \E c \in CLIENTS : conn[c] = "backlog"  BY <1>2 DEF Readable
<1>3. CASE fd = fd_udp /\ datagrams # {}  BY <1>3 DEF Readable
<1>4. CASE \E d \in Open : socket[d] = fd /\ (unread[d] > 0 \/ Gone(d))
  <2>1. PICK d \in Open : socket[d] = fd /\ (unread[d] > 0 \/ Gone(d))  BY <1>4
  <2>2. d \in Open'  BY <2>1 DEF Open
  <2>3. socket'[d] = fd /\ (unread'[d] > 0 \/ Gone(d)')  BY <2>1
  <2> QED  BY <2>2, <2>3 DEF Readable
<1> QED  BY <1>1, <1>2, <1>3, <1>4 DEF Readable

LEMMA SameReadable ==
    ASSUME NEW fd, Readable(fd), UNCHANGED <<client, conn, socket, unread>>,
           fd = STDIN => typed' = typed, fd = fd_udp => datagrams' = datagrams
    PROVE  Readable(fd)'
<1>1. \A d \in Open : /\ conn'[d] = "open" /\ socket'[d] = socket[d] /\ (unread[d] > 0 => unread'[d] > 0)
                      /\ Gone(d) => Gone(d)'
      BY DEF Open, Gone
<1>2. \A c \in CLIENTS : conn[c] = "backlog" => conn'[c] = "backlog"  OBVIOUS
<1> QED  BY <1>1, <1>2, StaysReadable

LEMMA ShutIs ==
    ASSUME PongTypeOK, NEW C
    PROVE  /\ Shut(C) \in [CLIENTS -> {"none", "backlog", "open", "closed", "reset"}]
           /\ \A c \in CLIENTS : IF c \in C THEN Shut(C)[c] \in {"closed", "reset"}
                                 ELSE Shut(C)[c] = conn[c]
BY DEF PongTypeOK, Shut

LEMMA LowestIs ==
    ASSUME NEW S \in SUBSET Nat, S # {}
    PROVE  LowestOf(S) \in S /\ \A y \in S : LowestOf(S) <= y
<1> DEFINE Less == OpToRel(<, Nat)
<1>1. \E x \in S : \A y \in S : <<y, x>> \notin Less
  <2>1. IsWellFoundedOn(Less, Nat)  BY NatLessThanWellFounded
  <2> HIDE DEF Less
  <2> QED  BY <2>1, WFMin
<1>2. \E x \in S : \A y \in S : x <= y
  <2>1. PICK x \in S : \A y \in S : <<y, x>> \notin OpToRel(<, Nat)  BY <1>1
  <2>2. \A y \in S : ~(y < x)  BY <2>1 DEF OpToRel
  <2>3. x \in Nat /\ \A y \in S : y \in Nat  OBVIOUS
  <2> QED  BY <2>2, <2>3
<1> QED  BY <1>2 DEF LowestOf

\* There is a descriptor for each client: the one to be accepted finds one that is free.
LEMMA ADescriptorIsFree ==
    ASSUME NEW c \in CLIENTS \ Open
    PROVE  LET free == {fd \in Descriptors : fd > fd_udp /\ ~IsOpen(fd)}
           IN  LowestOf(free) \in free
<1> DEFINE free == {fd \in Descriptors : fd > fd_udp /\ ~IsOpen(fd)}
           S == fd_udp + 1 .. fd_udp + Cardinality(CLIENTS)
<1>1. /\ Cardinality(CLIENTS) \in Nat /\ Open \subseteq CLIENTS \ {c}
      /\ Cardinality(CLIENTS \ {c}) = Cardinality(CLIENTS) - 1 /\ IsFiniteSet(CLIENTS \ {c})
  <2>1. c \in CLIENTS /\ Open \subseteq CLIENTS \ {c}  BY DEF Open
  <2>2. Cardinality(CLIENTS) \in Nat  BY ClientsAssumption, FS_CardinalityType
  <2>3. /\ IsFiniteSet(CLIENTS \ {c})
        /\ Cardinality(CLIENTS \ {c}) = IF c \in CLIENTS THEN Cardinality(CLIENTS) - 1
                                        ELSE Cardinality(CLIENTS)
        BY ClientsAssumption, FS_RemoveElement
  <2> QED  BY <2>1, <2>2, <2>3
<1>2. IsFiniteSet(Open) /\ Cardinality(Open) < Cardinality(CLIENTS)
  <2>1. IsFiniteSet(Open) /\ Cardinality(Open) <= Cardinality(CLIENTS \ {c})  BY <1>1, FS_Subset
  <2>2. Cardinality(Open) \in Nat  BY <2>1, FS_CardinalityType
  <2> QED  BY <1>1, <2>1, <2>2
<1>3. IsFiniteSet(S) /\ Cardinality(S) = Cardinality(CLIENTS)
  <2> DEFINE lo == fd_udp + 1  hi == fd_udp + Cardinality(CLIENTS)
  <2>1. lo \in Int /\ hi \in Int /\ S = lo .. hi /\ lo = 5 /\ hi = 4 + Cardinality(CLIENTS)
        BY <1>1 DEF fd_udp
  <2> HIDE DEF lo, hi
  <2>2. IsFiniteSet(lo .. hi) /\ Cardinality(lo .. hi) = IF lo > hi THEN 0 ELSE hi - lo + 1
        BY <2>1, FS_Interval
  <2> QED  BY <1>1, <2>1, <2>2
<1>4. free # {}
  <2> SUFFICES ASSUME free = {}  PROVE FALSE  OBVIOUS
  <2>1. ASSUME NEW fd \in S  PROVE \E d \in Open : socket[d] = fd
    <3>1. fd \in Descriptors /\ fd > fd_udp /\ fd \notin {STDIN, fd_tcp, fd_udp}
          BY <1>1 DEF Descriptors, STDIN, fd_tcp, fd_udp
    <3>2. IsOpen(fd)  BY <3>1
    <3> QED  BY <3>1, <3>2 DEF IsOpen
  <2> DEFINE f == [fd \in S |-> CHOOSE d \in Open : socket[d] = fd]
  <2>2. f \in [S -> Open] /\ \A fd \in S : socket[f[fd]] = fd  BY <2>1
  <2> HIDE DEF f, S
  <2>3. \E x, y \in S : x # y /\ f[x] = f[y]  BY <1>2, <1>3, <2>2, FS_PigeonHole
  <2> QED  BY <2>2, <2>3
<1>5. free \subseteq Nat  BY <1>1 DEF Descriptors, fd_udp
<1> QED  BY <1>4, <1>5, LowestIs

\* The server that leaves takes nothing for ready any more.
LEMMA LeavesKeeps ==
    ASSUME PongInv, NEW how \in {"ended", "killed"}, ServerLeaves(how), UNCHANGED socket,
           how = "killed" => \E c \in CLIENTS : client[c] = "killed"
    PROVE  PongInv'
<1>1. /\ up' = how /\ datagrams' = {} /\ temp' = {}
      /\ conn' = Shut({c \in CLIENTS : conn[c] \in {"backlog", "open"}})
      /\ UNCHANGED <<mode, pro, client, pongs, orphan, unread>>
      BY DEF ServerLeaves
<1>2. PongTypeOK'  BY <1>1, ShutIs DEF PongInv, PongTypeOK
<1>3. MasterIsOpen'  BY <1>1 DEF MasterIsOpen
<1>4. ASSUME NEW c \in CLIENTS  PROVE OnePing(c)'
  <2>1. IF conn[c] \in {"backlog", "open"} THEN conn'[c] \in {"closed", "reset"}
        ELSE conn'[c] = conn[c]
        BY <1>1, ShutIs DEF PongInv
  <2> QED  BY <1>1, <2>1, PingStays DEF PongInv, OnePingEach
<1>5. ServerIsNotHeldUp'  BY <1>1 DEF ServerIsNotHeldUp
<1> QED  BY <1>2, <1>3, <1>4, <1>5 DEF PongInv, OnePingEach

\* What AnswersDatagram and AnswersConnection leave.
LEMMA DatagramKeeps ==
    ASSUME PongInv, NEW c \in CLIENTS, AnswersDatagram(c), UNCHANGED <<pro, client, conn, unread, orphan>>
    PROVE  OnePingEach' /\ pongs' \in [CLIENTS -> Nat]
<1>1. /\ c \in datagrams /\ datagrams' = datagrams \ {c} /\ pongs \in [CLIENTS -> Nat]
      /\ pongs' = [pongs EXCEPT ![c] = @ + 1] \/ pongs' = pongs
      /\ pro[c] = "udp"
      BY DEF AnswersDatagram, PongInv, PongTypeOK, OnePingEach, OnePing
<1>2. ASSUME NEW d \in CLIENTS  PROVE OnePing(d)'
  <2>1. pongs'[d] = pongs[d] \/ pro[d] = "udp"  BY <1>1
  <2> QED  BY <1>1, <2>1, PingStays DEF PongInv, OnePingEach
<1> QED  BY <1>1, <1>2 DEF OnePingEach

LEMMA ConnectionKeeps ==
    ASSUME PongInv, NEW c \in CLIENTS, conn[c] = "open", AnswersConnection(c),
           UNCHANGED <<pro, client, conn, datagrams>>
    PROVE  /\ OnePingEach' /\ pongs' \in [CLIENTS -> Nat] /\ orphan' \in [CLIENTS -> BOOLEAN]
           /\ unread' \in [CLIENTS -> Nat] /\ \A d \in CLIENTS \ {c} : unread'[d] = unread[d]
<1>1. /\ pongs \in [CLIENTS -> Nat] /\ unread \in [CLIENTS -> Nat]
      /\ orphan \in [CLIENTS -> BOOLEAN] /\ client[c] \in {"connects", "sends", "waits", "returned", "killed"}
      /\ pro[c] \in {"udp", "tcp"} /\ OnePing(c)
      BY DEF PongInv, PongTypeOK, OnePingEach
<1>2. /\ unread[c] > 0 /\ unread' = [unread EXCEPT ![c] = 0]
      /\ \/ Gone(c) /\ orphan' = [orphan EXCEPT ![c] = TRUE] /\ pongs' = pongs
         \/ ~Gone(c) /\ pongs' = [pongs EXCEPT ![c] = @ + 1] /\ orphan' = orphan
      BY DEF AnswersConnection
<1>3. /\ unread[c] \in Nat /\ pongs[c] \in Nat /\ pro[c] = "tcp"
      /\ \/ client[c] = "killed" \/ (client[c] = "waits" /\ unread[c] + pongs[c] <= 1)
      BY <1>1, <1>2 DEF OnePing
<1>4. /\ \A d \in CLIENTS \ {c} : unread'[d] = unread[d] /\ pongs'[d] = pongs[d]
                                  /\ orphan'[d] = orphan[d]
      /\ unread'[c] = 0 /\ unread' \in [CLIENTS -> Nat]
      /\ pongs' \in [CLIENTS -> Nat] /\ orphan' \in [CLIENTS -> BOOLEAN]
      /\ \/ client[c] = "killed"
         \/ client[c] = "waits" /\ pongs'[c] = 1 /\ orphan'[c] = orphan[c]
  <2>1. client[c] = "waits" => pongs[c] = 0 /\ ~Gone(c)  BY <1>2, <1>3 DEF Gone
  <2>2. unread' \in [CLIENTS -> Nat] /\ unread'[c] = 0
        /\ \A d \in CLIENTS \ {c} : unread'[d] = unread[d]
        BY <1>1, <1>2
  <2>3. CASE Gone(c)
    <3>1. client[c] = "killed"  BY <1>3, <2>1, <2>3
    <3> QED  BY <1>1, <1>2, <2>2, <2>3, <3>1
  <2>4. CASE ~Gone(c)
    <3>1. client[c] = "waits" /\ pongs[c] = 0  BY <1>3, <2>1, <2>4 DEF Gone
    <3>2. pongs'[c] = 1 /\ pongs' \in [CLIENTS -> Nat]  BY <1>1, <1>2, <2>4, <3>1
    <3> QED  BY <1>1, <1>2, <2>2, <2>4, <3>1, <3>2
  <2> QED  BY <2>3, <2>4
<1>5. ASSUME NEW d \in CLIENTS \ {c}  PROVE OnePing(d)'
      BY <1>4, PingStays DEF PongInv, OnePingEach
<1>6. OnePing(c)'  BY <1>1, <1>3, <1>4 DEF OnePing
<1> QED  BY <1>4, <1>5, <1>6 DEF OnePingEach

\* A client only adds to what is ready.
LEMMA ClientKeeps ==
    ASSUME PongInv, NEW c \in CLIENTS, ClientStep(c) \/ Interrupt(c)
    PROVE  PongInv'
<1>1. /\ UNCHANGED serverVars /\ socket' = socket /\ orphan' = orphan
      /\ client[c] \in {"connects", "sends", "waits"}
      /\ \/ Connect(c) \/ Send(c) \/ Receive(c)
         \/ /\ client[c] = "sends" /\ client' = [client EXCEPT ![c] = "returned"]
            /\ UNCHANGED <<conn, datagrams, unread, pongs>>
         \/ /\ client[c] \in {"sends", "waits"} /\ client' = [client EXCEPT ![c] = "killed"]
            /\ UNCHANGED <<conn, datagrams, unread, pongs>>
      BY DEF ClientStep, Connect, Send, Receive, Return, Interrupt
<1>2. /\ UNCHANGED <<mode, up, master, temp, typed, pro>>
      BY <1>1 DEF serverVars
<1>3. /\ conn \in [CLIENTS -> {"none", "backlog", "open", "closed", "reset"}]
      /\ client \in [CLIENTS -> {"connects", "sends", "waits", "returned", "killed"}]
      /\ pro[c] \in {"udp", "tcp"} /\ OnePing(c)
      /\ unread \in [CLIENTS -> Nat] /\ pongs \in [CLIENTS -> Nat]
      /\ unread[c] \in Nat /\ pongs[c] \in Nat /\ conn[c] \in {"none", "backlog", "open", "closed", "reset"}
      BY DEF PongInv, PongTypeOK, OnePingEach
\* Nobody else's state changes, and c has the same connection.
<1>4. /\ conn' \in [CLIENTS -> {"none", "backlog", "open", "closed", "reset"}]
      /\ client' \in [CLIENTS -> {"connects", "sends", "waits", "returned", "killed"}]
      /\ unread' \in [CLIENTS -> Nat] /\ pongs' \in [CLIENTS -> Nat]
      /\ \A d \in CLIENTS \ {c} : /\ client'[d] = client[d] /\ conn'[d] = conn[d]
                                  /\ unread'[d] = unread[d] /\ pongs'[d] = pongs[d]
                                  /\ d \in datagrams' <=> d \in datagrams
      /\ conn[c] = "open" <=> conn'[c] = "open"
      /\ conn[c] = "backlog" => conn'[c] = "backlog"
      /\ datagrams \subseteq datagrams'
      /\ unread'[c] >= unread[c]
      /\ OnePing(c)'
  <2>1. CASE Connect(c)
    <3>1. /\ client[c] = "connects" /\ conn[c] = "none"
          /\ \/ conn' = [conn EXCEPT ![c] = "backlog"] /\ client' = [client EXCEPT ![c] = "sends"]
             \/ conn' = conn /\ client' = [client EXCEPT ![c] = "returned"]
          /\ UNCHANGED <<datagrams, unread, pongs>>
          /\ client[c] # "killed" /\ pro[c] = "tcp" /\ unread[c] = 0 /\ pongs[c] = 0 /\ ~orphan[c]
          /\ c \notin datagrams
          BY <1>3, <2>1 DEF Connect, OnePing
    <3>2. /\ conn'[c] \in {"none", "backlog"} /\ client'[c] \in {"sends", "returned"}
          /\ unread'[c] = 0 /\ pongs'[c] = 0 /\ ~orphan'[c] /\ pro'[c] = "tcp" /\ c \notin datagrams'
          BY <1>1, <1>2, <1>3, <3>1
    <3>3. OnePing(c)'  BY <3>2 DEF OnePing
    <3> QED  BY <1>1, <1>3, <3>1, <3>2, <3>3
  <2>2. CASE Send(c)
    <3>1. client[c] = "sends" /\ pongs' = pongs  BY <2>2 DEF Send
    <3>2. CASE pro[c] = "udp"
      <4>1. /\ datagrams' = datagrams \cup {c} \/ datagrams' = datagrams
            /\ client' = [client EXCEPT ![c] = "waits"] /\ UNCHANGED <<conn, unread>>
            /\ conn[c] = "none" /\ ~orphan[c]
            BY <1>3, <2>2, <3>1, <3>2 DEF Send, OnePing
      <4>2. OnePing(c)'  BY <1>1, <1>2, <1>3, <3>2, <4>1 DEF OnePing
      <4> QED  BY <1>1, <1>3, <3>1, <4>1, <4>2
    <3>3. CASE pro[c] # "udp"
      <4>1. /\ client' = [client EXCEPT ![c] = IF conn[c] = "reset" THEN "killed" ELSE "waits"]
            /\ conn' = [conn EXCEPT ![c] = IF @ = "closed" THEN "reset" ELSE @]
            /\ unread' = [unread EXCEPT ![c] = IF conn[c] \in {"backlog", "open"} THEN @ + 1 ELSE @]
            /\ datagrams' = datagrams /\ pro[c] = "tcp" /\ c \notin datagrams /\ ~orphan[c]
            /\ conn[c] \notin {"closed", "reset"} => unread[c] = 0 /\ pongs[c] = 0
            BY <1>3, <2>2, <3>1, <3>3 DEF Send, OnePing
      <4>2. /\ client'[c] \in {"waits", "killed"} /\ (conn[c] # "reset" => client'[c] = "waits")
            /\ conn'[c] = (IF conn[c] = "closed" THEN "reset" ELSE conn[c])
            /\ conn[c] \notin {"closed", "reset"} => unread'[c] <= 1 /\ pongs'[c] = 0
            /\ unread'[c] \in Nat /\ unread'[c] >= unread[c]
            /\ pro'[c] = "tcp" /\ c \notin datagrams' /\ ~orphan'[c]
            BY <1>1, <1>2, <1>3, <3>1, <4>1
      <4>3. OnePing(c)'
            BY <1>3, <4>2 DEF OnePing
      <4>4. /\ conn' \in [CLIENTS -> {"none", "backlog", "open", "closed", "reset"}]
            /\ client' \in [CLIENTS -> {"connects", "sends", "waits", "returned", "killed"}]
            BY <1>3, <4>1
      <4>5. unread' \in [CLIENTS -> Nat]  BY <1>3, <4>1
      <4> QED  BY <1>1, <1>3, <3>1, <4>1, <4>2, <4>3, <4>4, <4>5
    <3> QED  BY <3>2, <3>3
  <2>3. CASE Receive(c)
    <3>1. /\ client[c] = "waits" /\ (pongs[c] > 0 \/ conn[c] \in {"closed", "reset"})
          /\ pongs' = [pongs EXCEPT ![c] = IF @ > 0 THEN @ - 1 ELSE 0]
          /\ client' = [client EXCEPT ![c] = "sends"]
          /\ UNCHANGED <<conn, datagrams, unread>>
          BY <2>3 DEF Receive
    <3>2. /\ pongs'[c] = (IF pongs[c] > 0 THEN pongs[c] - 1 ELSE 0) /\ client'[c] = "sends"
          /\ pongs' \in [CLIENTS -> Nat]
          BY <1>3, <3>1
    <3>3. OnePing(c)'  BY <1>1, <1>2, <1>3, <3>1, <3>2 DEF OnePing
    <3> QED  BY <1>1, <1>3, <3>1, <3>2, <3>3
  <2>4. CASE /\ client[c] = "sends" /\ client' = [client EXCEPT ![c] = "returned"]
             /\ UNCHANGED <<conn, datagrams, unread, pongs>>
    <3>1. OnePing(c)'  BY <1>1, <1>2, <1>3, <2>4 DEF OnePing
    <3> QED  BY <1>3, <2>4, <3>1
  <2>5. CASE /\ client[c] \in {"sends", "waits"} /\ client' = [client EXCEPT ![c] = "killed"]
             /\ UNCHANGED <<conn, datagrams, unread, pongs>>
    <3>1. OnePing(c)'  BY <1>1, <1>2, <1>3, <2>5 DEF OnePing
    <3> QED  BY <1>3, <2>5, <3>1
  <2> QED  BY <1>1, <2>1, <2>2, <2>3, <2>4, <2>5
<1>5. Open' = Open  BY <1>4 DEF Open
<1>6. PongTypeOK'  BY <1>1, <1>2, <1>4 DEF PongInv, PongTypeOK
<1>7. MasterIsOpen'  BY <1>1, <1>2, <1>5 DEF PongInv, MasterIsOpen, IsOpen
<1>8. OnePingEach'
  <2>1. ASSUME NEW d \in CLIENTS \ {c}  PROVE OnePing(d)'
        BY <1>1, <1>2, <1>4, PingStays DEF PongInv, OnePingEach
  <2> QED  BY <1>4, <2>1 DEF OnePingEach
<1>9. ServerIsNotHeldUp'
  <2>1. ASSUME NEW fd \in temp  PROVE Readable(fd)'
    <3>1. \A d \in Open : /\ conn'[d] = "open" /\ socket'[d] = socket[d]
                          /\ unread[d] > 0 => unread'[d] > 0
                          /\ Gone(d) => Gone(d)'
      <4> SUFFICES ASSUME NEW d \in Open
                   PROVE  /\ conn'[d] = "open" /\ socket'[d] = socket[d]
                          /\ unread[d] > 0 => unread'[d] > 0
                          /\ Gone(d) => Gone(d)'
          OBVIOUS
      <4>1. d \in CLIENTS /\ conn[d] = "open"  BY DEF Open
      <4>2. CASE d = c
        <5>1. unread'[c] \in Nat  BY <1>4
        <5>2. ~Gone(c)  BY <1>1 DEF Gone
        <5> QED  BY <1>1, <1>3, <1>4, <4>1, <4>2, <5>1, <5>2
      <4>3. CASE d # c  BY <1>1, <1>4, <4>1, <4>3 DEF Gone
      <4> QED  BY <4>2, <4>3
    <3>2. \A d \in CLIENTS : conn[d] = "backlog" => conn'[d] = "backlog"  BY <1>4
    <3>3. Readable(fd)  BY DEF PongInv, ServerIsNotHeldUp
    <3> QED  BY <1>2, <1>4, <3>1, <3>2, <3>3, StaysReadable
  <2>2. up = "killed" => \E d \in CLIENTS : client'[d] = "killed"
    <3> SUFFICES ASSUME up = "killed"  PROVE \E d \in CLIENTS : client'[d] = "killed"  OBVIOUS
    <3>1. PICK d \in CLIENTS : client[d] = "killed"  BY DEF PongInv, ServerIsNotHeldUp
    <3>2. d # c  BY <1>1, <3>1
    <3> QED  BY <1>4, <3>1, <3>2
  <2> QED  BY <1>2, <2>1, <2>2 DEF ServerIsNotHeldUp
<1> QED  BY <1>6, <1>7, <1>8, <1>9 DEF PongInv

LEMMA NothingSelected ==
    ASSUME PongInv, mode # "select", up = "serves",
           UNCHANGED <<mode, up, temp, pro, client, socket>>, OnePingEach',
           conn' \in [CLIENTS -> {"none", "backlog", "open", "closed", "reset"}],
           unread' \in [CLIENTS -> Nat], pongs' \in [CLIENTS -> Nat], orphan' \in [CLIENTS -> BOOLEAN]
    PROVE  PongInv'
<1>1. temp = {}  BY DEF PongInv, PongTypeOK
<1>2. PongTypeOK'  BY <1>1 DEF PongInv, PongTypeOK
<1>3. MasterIsOpen' /\ ServerIsNotHeldUp'  BY <1>1 DEF MasterIsOpen, ServerIsNotHeldUp
<1> QED  BY <1>2, <1>3 DEF PongInv

\* ActiveUDP, ActiveTCP and ActiveTCPThreads: they select nothing.
LEMMA OtherModesKeep ==
    ASSUME PongInv,
           \/ ActiveUDP \/ AcceptTCPConnection \/ ActiveTCPThreads
           \/ \E c \in CLIENTS : DoTcpRoutine(c)
    PROVE  PongInv'
<1>1. /\ conn \in [CLIENTS -> {"none", "backlog", "open", "closed", "reset"}]
      /\ unread \in [CLIENTS -> Nat] /\ pongs \in [CLIENTS -> Nat] /\ orphan \in [CLIENTS -> BOOLEAN]
      /\ \A d \in CLIENTS : OnePing(d)
      BY DEF PongInv, PongTypeOK, OnePingEach
<1>2. CASE ServerLeaves("ended") /\ socket' = socket  BY <1>2, LeavesKeeps
<1>3. ASSUME mode = "udp", up = "serves", NEW c \in CLIENTS, AnswersDatagram(c),
             UNCHANGED <<mode, up, temp, pro, client, conn, socket, unread, orphan>>
      PROVE  PongInv'
  <2>1. OnePingEach' /\ pongs' \in [CLIENTS -> Nat]  BY <1>3, DatagramKeeps
  <2>2. mode # "select"  BY <1>3
  <2> QED  BY <1>1, <1>3, <2>1, <2>2, NothingSelected
<1>4. CASE AcceptTCPConnection
  <2>1. PICK c \in CLIENTS : conn[c] = "backlog" /\ conn' = [conn EXCEPT ![c] = "open"]
        BY <1>4 DEF AcceptTCPConnection
  <2>2. /\ mode # "select" /\ up = "serves"
        /\ UNCHANGED <<mode, up, temp, pro, client, socket, datagrams, unread, pongs, orphan>>
        BY <1>4 DEF AcceptTCPConnection
  <2>3. /\ \A d \in CLIENTS \ {c} : conn'[d] = conn[d]
        /\ conn'[c] = "open" /\ conn' \in [CLIENTS -> {"none", "backlog", "open", "closed", "reset"}]
        BY <1>1, <2>1
  <2>4. ASSUME NEW d \in CLIENTS  PROVE OnePing(d)'
        BY <1>1, <2>1, <2>2, <2>3, PingStays
  <2> QED  BY <1>1, <2>2, <2>3, <2>4, NothingSelected DEF OnePingEach
<1>5. ASSUME NEW c \in CLIENTS, DoTcpRoutine(c)  PROVE PongInv'
  <2>1. /\ mode # "select" /\ up = "serves" /\ conn[c] = "open"
        /\ UNCHANGED <<mode, up, temp, pro, client, socket, datagrams>>
        /\ \/ AnswersConnection(c) /\ conn' = conn
           \/ conn' = Shut({c}) /\ UNCHANGED <<unread, pongs, orphan>>
        BY <1>5 DEF DoTcpRoutine, serverVars
  <2>2. CASE AnswersConnection(c) /\ conn' = conn
    <3>1. /\ OnePingEach' /\ pongs' \in [CLIENTS -> Nat] /\ orphan' \in [CLIENTS -> BOOLEAN]
          /\ unread' \in [CLIENTS -> Nat]
          BY <2>1, <2>2, ConnectionKeeps
    <3> QED  BY <1>1, <2>1, <2>2, <3>1, NothingSelected
  <2>3. CASE conn' = Shut({c}) /\ UNCHANGED <<unread, pongs, orphan>>
    <3>1. /\ conn' \in [CLIENTS -> {"none", "backlog", "open", "closed", "reset"}]
          /\ conn'[c] \in {"closed", "reset"} /\ \A d \in CLIENTS \ {c} : conn'[d] = conn[d]
          BY <2>3, ShutIs DEF PongInv
    <3>2. ASSUME NEW d \in CLIENTS  PROVE OnePing(d)'
          BY <1>1, <2>1, <2>3, <3>1, PingStays
    <3> QED  BY <1>1, <2>1, <2>3, <3>1, <3>2, NothingSelected DEF OnePingEach
  <2> QED  BY <2>1, <2>2, <2>3
<1>6. ActiveUDP => \/ ServerLeaves("ended") /\ socket' = socket
                   \/ /\ mode = "udp" /\ up = "serves" /\ (\E c \in CLIENTS : AnswersDatagram(c))
                      /\ UNCHANGED <<mode, up, temp, pro, client, conn, socket, unread, orphan>>
      BY DEF ActiveUDP
<1>7. ActiveTCPThreads => ServerLeaves("ended") /\ socket' = socket  BY DEF ActiveTCPThreads
<1> QED  BY <1>2, <1>3, <1>4, <1>5, <1>6, <1>7

\* select over what the set names, and the handlers that change no connection.
LEMMA SelectKeeps == ASSUME PongInv, Select \/ Type  PROVE PongInv'
<1>1. /\ mode = "select" /\ up = "serves"
      /\ UNCHANGED <<mode, up, master, pro, client, datagrams, conn, socket, unread, pongs, orphan>>
      BY DEF Select, Type
<1>2. Open' = Open /\ \A d \in CLIENTS : Gone(d)' = Gone(d)  BY <1>1 DEF Open, Gone
<1>3. ASSUME NEW fd \in temp'  PROVE Readable(fd)'
  <2>1. CASE Type
    <3>1. fd \in temp /\ typed = "nothing" /\ Readable(fd)
          BY <2>1 DEF Type, PongInv, ServerIsNotHeldUp
    <3>2. CASE fd = STDIN
      <4>1. typed' # "nothing"  BY <2>1 DEF Type
      <4> QED  BY <3>2, <4>1 DEF Readable
    <3>3. CASE fd # STDIN  BY <1>1, <3>1, <3>3, SameReadable, <2>1 DEF Type
    <3> QED  BY <3>2, <3>3
  <2>2. CASE Select
    <3>1. \A d \in master : IsOpen(d)  BY <1>1 DEF PongInv, MasterIsOpen
    <3>2. Readable(fd) /\ typed' = typed  BY <2>2, <3>1 DEF Select
    <3> QED  BY <1>1, <3>2, SameReadable
  <2> QED  BY <2>1, <2>2
<1>4. PongTypeOK'  BY <1>1 DEF PongInv, PongTypeOK
<1>5. MasterIsOpen'  BY <1>1, <1>2 DEF PongInv, MasterIsOpen, IsOpen
<1>6. OnePingEach'  BY <1>1, PingStays DEF PongInv, OnePingEach
<1>7. ServerIsNotHeldUp'  BY <1>1, <1>3 DEF ServerIsNotHeldUp
<1> QED  BY <1>4, <1>5, <1>6, <1>7 DEF PongInv

LEMMA STDInKeeps == ASSUME PongInv, STDInHandle  PROVE PongInv'
<1>1. CASE typed = "quit"
  <2>1. ServerLeaves("ended") /\ socket' = socket  BY <1>1 DEF STDInHandle
  <2> QED  BY <2>1, LeavesKeeps
<1>2. CASE typed # "quit"
  <2>1. /\ mode = "select" /\ up = "serves" /\ temp' = temp \ {STDIN}
        /\ UNCHANGED <<mode, up, master, pro, client, datagrams, conn, socket, unread, pongs, orphan>>
        BY <1>2 DEF STDInHandle, Handles
  <2>2. Open' = Open /\ \A d \in CLIENTS : Gone(d)' = Gone(d)  BY <2>1 DEF Open, Gone
  <2>3. ASSUME NEW fd \in temp'  PROVE Readable(fd)'
        BY <2>1, SameReadable DEF PongInv, ServerIsNotHeldUp
  <2>4. PongTypeOK'  BY <2>1 DEF PongInv, PongTypeOK
  <2>5. MasterIsOpen'  BY <2>1, <2>2 DEF PongInv, MasterIsOpen, IsOpen
  <2>6. OnePingEach'  BY <2>1, PingStays DEF PongInv, OnePingEach
  <2>7. ServerIsNotHeldUp'  BY <2>1, <2>3 DEF ServerIsNotHeldUp
  <2> QED  BY <2>4, <2>5, <2>6, <2>7 DEF PongInv
<1> QED  BY <1>1, <1>2

LEMMA UDPHandleKeeps == ASSUME PongInv, UDPHandle  PROVE PongInv'
<1>1. /\ mode = "select" /\ up = "serves" /\ temp' = temp \ {fd_udp}
      /\ UNCHANGED <<mode, up, master, typed, pro, client, conn, socket, unread, orphan>>
      BY DEF UDPHandle, Handles
<1>2. PICK c \in CLIENTS : AnswersDatagram(c)  BY DEF UDPHandle
<1>3. OnePingEach' /\ pongs' \in [CLIENTS -> Nat]  BY <1>1, <1>2, DatagramKeeps
<1>4. Open' = Open /\ \A d \in CLIENTS : Gone(d)' = Gone(d)  BY <1>1 DEF Open, Gone
<1>5. ASSUME NEW fd \in temp'  PROVE Readable(fd)'
      BY <1>1, SameReadable DEF PongInv, ServerIsNotHeldUp
<1>6. PongTypeOK'  BY <1>1, <1>3 DEF PongInv, PongTypeOK
<1>7. MasterIsOpen'  BY <1>1, <1>4 DEF PongInv, MasterIsOpen, IsOpen
<1>8. ServerIsNotHeldUp'  BY <1>1, <1>5 DEF ServerIsNotHeldUp
<1> QED  BY <1>3, <1>6, <1>7, <1>8 DEF PongInv

\* The new connection has a descriptor that was free.
LEMMA TCPAcceptKeeps == ASSUME PongInv, TCPAccept  PROVE PongInv'
<1>1. /\ mode = "select" /\ up = "serves" /\ temp' = temp \ {fd_tcp}
      /\ UNCHANGED <<mode, up, typed, pro, client, datagrams, unread, pongs, orphan>>
      BY DEF TCPAccept, Handles
<1> DEFINE new_fd == LowestOf({fd \in Descriptors : fd > fd_udp /\ ~IsOpen(fd)})
<1>2. PICK c \in CLIENTS : /\ conn[c] = "backlog" /\ conn' = [conn EXCEPT ![c] = "open"]
                           /\ socket' = [socket EXCEPT ![c] = new_fd]
                           /\ master' = master \cup {new_fd}
      BY DEF TCPAccept
<1>3. new_fd \in Nat /\ new_fd > fd_udp /\ ~IsOpen(new_fd)
  <2>1. c \in CLIENTS \ Open  BY <1>2 DEF Open
  <2>2. new_fd \in {fd \in Descriptors : fd > fd_udp /\ ~IsOpen(fd)}  BY <2>1, ADescriptorIsFree
  <2>3. Descriptors \subseteq Nat
    <3>1. Cardinality(CLIENTS) \in Nat  BY ClientsAssumption, FS_CardinalityType
    <3> QED  BY <3>1 DEF Descriptors, fd_udp
  <2> HIDE DEF new_fd
  <2> QED  BY <2>2, <2>3
<1> HIDE DEF new_fd
<1>4. /\ conn' \in [CLIENTS -> {"none", "backlog", "open", "closed", "reset"}]
      /\ socket' \in [CLIENTS -> Nat]
      /\ conn'[c] = "open" /\ socket'[c] = new_fd
      /\ \A d \in CLIENTS \ {c} : conn'[d] = conn[d] /\ socket'[d] = socket[d]
      BY <1>2, <1>3 DEF PongInv, PongTypeOK
<1>5. Open' = Open \cup {c} /\ c \notin Open  BY <1>2, <1>4 DEF Open
<1>6. PongTypeOK'  BY <1>1, <1>4 DEF PongInv, PongTypeOK
<1>7. MasterIsOpen'
  <2>1. /\ \A fd \in master : IsOpen(fd)
        /\ \A d \in Open : socket[d] > fd_udp
        /\ \A d, e \in Open : socket[d] = socket[e] => d = e
        BY <1>1 DEF PongInv, MasterIsOpen
  <2>2. \A d \in Open : d \in CLIENTS \ {c} /\ socket[d] # new_fd  BY <1>3, <1>5 DEF IsOpen, Open
  <2>3. \A fd : IsOpen(fd) => IsOpen(fd)'  BY <1>4, <1>5, <2>2 DEF IsOpen
  <2>4. \E d \in Open' : socket'[d] = new_fd  BY <1>4, <1>5
  <2>5. \A d \in Open' : socket'[d] > fd_udp  BY <1>3, <1>4, <1>5, <2>1, <2>2
  <2>6. \A d, e \in Open' : socket'[d] = socket'[e] => d = e  BY <1>4, <1>5, <2>1, <2>2
  <2>7. \A fd \in master' : IsOpen(fd)'
    <3>1. ASSUME NEW fd \in master  PROVE IsOpen(fd)'  BY <2>1, <2>3
    <3>2. ASSUME NEW fd, fd = new_fd  PROVE IsOpen(fd)'  BY <2>4, <3>2 DEF IsOpen
    <3> QED  BY <1>2, <3>1, <3>2
  <2> QED  BY <2>5, <2>6, <2>7 DEF MasterIsOpen
<1>8. OnePingEach'
  <2>1. ASSUME NEW d \in CLIENTS  PROVE OnePing(d)'
        BY <1>1, <1>2, <1>4, PingStays DEF PongInv, OnePingEach
  <2> QED  BY <2>1 DEF OnePingEach
<1>9. \A fd \in temp' : Readable(fd)'
  <2>1. \A fd \in temp' : Readable(fd) /\ fd # fd_tcp  BY <1>1 DEF PongInv, ServerIsNotHeldUp
  <2>2. \A d \in Open : conn'[d] = "open" /\ socket'[d] = socket[d] /\ (Gone(d) => Gone(d)')
                        /\ (unread[d] > 0 => unread'[d] > 0)
        BY <1>1, <1>4, <1>5 DEF Open, Gone
  <2> QED  BY <1>1, <2>1, <2>2, StaysReadable
<1>10. ServerIsNotHeldUp'  BY <1>1, <1>9 DEF ServerIsNotHeldUp
<1> QED  BY <1>6, <1>7, <1>8, <1>10 DEF PongInv

\* A connection is answered or closed with the descriptor that was handled.
LEMMA TCPHandleKeeps == ASSUME PongInv, NEW c \in CLIENTS, TCPHandle(c)  PROVE PongInv'
<1>1. /\ mode = "select" /\ up = "serves" /\ temp' = temp \ {socket[c]} /\ conn[c] = "open"
      /\ UNCHANGED <<mode, up, typed, pro, client, datagrams>>
      /\ \/ AnswersConnection(c) /\ UNCHANGED <<master, conn, socket>>
         \/ /\ master' = master \ {socket[c]} /\ conn' = Shut({c})
            /\ socket' = [socket EXCEPT ![c] = 0] /\ UNCHANGED <<unread, pongs, orphan>>
      BY DEF TCPHandle, Handles
<1>2. /\ conn' \in [CLIENTS -> {"none", "backlog", "open", "closed", "reset"}]
      /\ socket' \in [CLIENTS -> Nat] /\ pongs' \in [CLIENTS -> Nat]
      /\ unread' \in [CLIENTS -> Nat] /\ orphan' \in [CLIENTS -> BOOLEAN]
      /\ \A d \in CLIENTS \ {c} : /\ conn'[d] = conn[d] /\ socket'[d] = socket[d]
                                  /\ unread'[d] = unread[d]
      /\ \/ conn' = conn /\ socket' = socket /\ master' = master
         \/ /\ master' = master \ {socket[c]} /\ conn'[c] \in {"closed", "reset"}
      /\ OnePingEach'
  <2>1. /\ conn \in [CLIENTS -> {"none", "backlog", "open", "closed", "reset"}]
        /\ unread \in [CLIENTS -> Nat] /\ pongs \in [CLIENTS -> Nat] /\ socket \in [CLIENTS -> Nat]
        /\ orphan \in [CLIENTS -> BOOLEAN]
        BY DEF PongInv, PongTypeOK
  <2>2. CASE AnswersConnection(c) /\ UNCHANGED <<master, conn, socket>>
    <3>1. /\ OnePingEach' /\ pongs' \in [CLIENTS -> Nat] /\ orphan' \in [CLIENTS -> BOOLEAN]
          /\ unread' \in [CLIENTS -> Nat] /\ \A d \in CLIENTS \ {c} : unread'[d] = unread[d]
          BY <1>1, <2>2, ConnectionKeeps
    <3> QED  BY <2>1, <2>2, <3>1
  <2>3. CASE /\ master' = master \ {socket[c]} /\ conn' = Shut({c})
             /\ socket' = [socket EXCEPT ![c] = 0] /\ UNCHANGED <<unread, pongs, orphan>>
    <3>1. /\ conn' \in [CLIENTS -> {"none", "backlog", "open", "closed", "reset"}]
          /\ conn'[c] \in {"closed", "reset"} /\ \A d \in CLIENTS \ {c} : conn'[d] = conn[d]
          BY <2>3, ShutIs DEF PongInv
    <3>2. ASSUME NEW d \in CLIENTS  PROVE OnePing(d)'
          BY <1>1, <2>3, <3>1, PingStays DEF PongInv, OnePingEach
    <3> QED  BY <2>1, <2>3, <3>1, <3>2 DEF OnePingEach
  <2> QED  BY <1>1, <2>2, <2>3
<1>3. /\ \A fd \in master : IsOpen(fd)
      /\ \A d \in Open : socket[d] > fd_udp
      /\ \A d, e \in Open : socket[d] = socket[e] => d = e
      BY <1>1 DEF PongInv, MasterIsOpen
<1>4. PongTypeOK'  BY <1>1, <1>2 DEF PongInv, PongTypeOK
<1>5. MasterIsOpen'
  <2>1. CASE conn' = conn /\ socket' = socket /\ master' = master
        BY <1>1, <1>3, <2>1 DEF MasterIsOpen, IsOpen, Open
  <2>2. CASE master' = master \ {socket[c]} /\ conn'[c] \in {"closed", "reset"}
    <3>1. Open' = Open \ {c} /\ \A d \in Open' : d \in Open /\ socket'[d] = socket[d]
          BY <1>2, <2>2 DEF Open
    <3>2. \A fd \in master' : IsOpen(fd)'
          BY <1>2, <1>3, <2>2, <3>1 DEF IsOpen
    <3> QED  BY <1>3, <3>1, <3>2 DEF MasterIsOpen
  <2> QED  BY <1>2, <2>1, <2>2
<1>6. \A fd \in temp' : Readable(fd)'
  <2>1. \A fd \in temp' : Readable(fd) /\ fd # socket[c]  BY <1>1 DEF PongInv, ServerIsNotHeldUp
  <2>2. ASSUME NEW fd \in temp', NEW d \in Open, socket[d] = fd
        PROVE  conn'[d] = "open" /\ socket'[d] = socket[d] /\ (Gone(d) => Gone(d)')
               /\ (unread[d] > 0 => unread'[d] > 0)
    <3>1. d \in CLIENTS \ {c} /\ conn[d] = "open"  BY <2>1, <2>2 DEF Open
    <3> QED  BY <1>1, <1>2, <3>1 DEF Gone
  <2>3. \A d \in CLIENTS : conn[d] = "backlog" => conn'[d] = "backlog"  BY <1>1, <1>2
  <2> QED  BY <1>1, <2>1, <2>2, <2>3, StaysReadable
<1>7. ServerIsNotHeldUp'  BY <1>1, <1>6 DEF ServerIsNotHeldUp
<1> QED  BY <1>2, <1>4, <1>5, <1>7 DEF PongInv

LEMMA PongKeeps == PongInv /\ [PongNext]_pongVars => PongInv'
<1> SUFFICES ASSUME PongInv, [PongNext]_pongVars  PROVE PongInv'  OBVIOUS
<1>1. CASE UNCHANGED pongVars
  <2>1. UNCHANGED <<mode, up, master, temp, typed, pro, client, datagrams, conn, socket, unread,
                    pongs, orphan>>
        BY <1>1 DEF pongVars
  <2>2. Open' = Open /\ \A d \in CLIENTS : Gone(d)' = Gone(d)  BY <2>1 DEF Open, Gone
  <2>3. PongTypeOK'  BY <2>1 DEF PongInv, PongTypeOK
  <2>4. MasterIsOpen'  BY <2>1, <2>2 DEF PongInv, MasterIsOpen, IsOpen
  <2>5. OnePingEach'  BY <2>1, PingStays DEF PongInv, OnePingEach
  <2>6. ServerIsNotHeldUp'
    <3>1. ASSUME NEW fd \in temp  PROVE Readable(fd)'
          BY <2>1, SameReadable DEF PongInv, ServerIsNotHeldUp
    <3> QED  BY <2>1, <3>1 DEF PongInv, ServerIsNotHeldUp
  <2> QED  BY <2>3, <2>4, <2>5, <2>6 DEF PongInv
<1>2. ASSUME NEW c \in CLIENTS, TCPHandleReset(c)  PROVE PongInv'
  <2>1. ServerLeaves("killed") /\ socket' = socket /\ client[c] = "killed"
        BY <1>2 DEF TCPHandleReset, PongInv, OnePingEach, OnePing
  <2> QED  BY <2>1, LeavesKeeps
<1> QED  BY <1>1, <1>2, ClientKeeps, OtherModesKeep, SelectKeeps, STDInKeeps, UDPHandleKeeps,
            TCPAcceptKeeps, TCPHandleKeeps DEF PongNext, ServerStep, PingPongServer

-----------------------------------------------------------------------------
(* Watchdog: two counts, and the handshake as long as nobody is killed in it. *)

WatchdogTypeOK ==
    /\ place \in [Sides -> {"none", "starts", "waits", "runs", "oversleeps", "revives",
                            "stops", "ended", "dead"}]
    /\ posts \in [Sides -> Nat] /\ g_is_stopped \in [Sides -> BOOLEAN]
    /\ g_heartbeats \in [Sides -> Nat] /\ unheard \in [Sides -> Nat]
    /\ ahead \in Int /\ late \in BOOLEAN
    /\ tasks \in [Sides -> SUBSET {"SendSigUsr1", "CheckAndRevive"}]

\* Before the first start nothing has been counted.
StartFits ==
    place["client"] = "none" =>
        ahead = 0 /\ \A s \in Sides : place[s] = "none" /\ g_heartbeats[s] = 0 /\ tasks[s] = {}

Pings(s) == IF "SendSigUsr1" \in tasks[s] THEN 1 ELSE 0
Owes(s) == IF "SendSigUsr1" \in tasks[s] \/ g_is_stopped[s] THEN 1 ELSE 0

\* A count is of rounds that were begun unheard, the one that both met in apart.
HeardFits == \A s \in Sides : g_heartbeats[s] + Pings(s) <= unheard[s] + 1

\* While both live and keep pace, a side has sent no more pings since the last it got than
\* it has begun rounds, the other's last of which may still owe its ping, or owe none any
\* more.
BeatsFit ==
    ~late /\ (\A s \in Sides : Alive(s)) =>
        \A s \in Sides :
            /\ Lead(s) <= 1 /\ (Lead(s) = 1 => tasks[Other(s)] = {})
            /\ g_heartbeats[s] + Pings(s) <= Lead(s) + 1 + Owes(Other(s))

\* Where the other may be: nobody runs before the other has set its handlers, and who is
\* dead was killed while both ran.  A post is one of this handshake, which the other has not
\* taken yet.
SideFits(s) ==
    LET o == place[Other(s)]
    IN  /\ place[s] = "none" => o = "none"
        /\ place[s] = "starts" => o \in {"starts", "waits", "revives"}
        /\ place[s] = "revives" => o \in {"starts", "waits", "runs", "oversleeps", "stops", "ended"}
        /\ place[s] = "dead" => o \in {"runs", "oversleeps", "stops", "ended"}
        /\ posts[s] = IF /\ place[s] \in {"waits", "revives", "runs", "oversleeps", "stops", "ended"}
                         /\ o \in {"starts", "waits", "revives"} THEN 1 ELSE 0

Counted == StartFits /\ HeardFits /\ BeatsFit /\ mistakes \subseteq {"killed by a ping"}
Met == mistakes = {} /\ \A s \in Sides : SideFits(s)

WatchdogInv == WatchdogTypeOK /\ Counted /\ (early \/ Met)

\* Two sides, each the other's other.
LEMMA SidesAre ==
    ASSUME NEW s \in Sides, ahead \in Int
    PROVE  /\ Other(s) \in Sides /\ Other(s) # s /\ Other(Other(s)) = s
           /\ \A t \in Sides : t = s \/ t = Other(s)
           /\ Lead(s) \in Int /\ Lead(Other(s)) = -Lead(s)
BY DEF Sides, Other, Lead

LEMMA NoLead == ahead = 0 => \A s : Lead(s) = 0
<1>1. \A n \in Int : n <= 0 /\ n >= 0 => -n = n  OBVIOUS
<1>2. ahead = 0 => ahead \in Int /\ ahead <= 0 /\ ahead >= 0  OBVIOUS
<1>3. ahead = 0 => \A s : Lead(s) = ahead
  <2> SUFFICES ASSUME ahead \in Int, ahead <= 0, ahead >= 0  PROVE \A s : Lead(s) = ahead
      BY <1>2
  <2> QED  BY <1>1 DEF Lead
<1> QED  BY <1>3

LEMMA WatchdogStart == WatchdogInit => WatchdogInv
<1> SUFFICES ASSUME WatchdogInit  PROVE WatchdogInv  OBVIOUS
<1>1. /\ ahead = 0 /\ mistakes = {} /\ ~early
      /\ \A s \in Sides : /\ place[s] = "none" /\ posts[s] = 0 /\ g_heartbeats[s] = 0
                          /\ unheard[s] = 0 /\ tasks[s] = {} /\ Other(s) \in Sides
      BY DEF WatchdogInit, Sides, Other
<1>2. WatchdogTypeOK
  <2>1. /\ posts \in [Sides -> Nat] /\ g_heartbeats \in [Sides -> Nat] /\ unheard \in [Sides -> Nat]
        /\ ahead \in Int
        BY DEF WatchdogInit
  <2>2. /\ place \in [Sides -> {"none"}] /\ g_is_stopped \in [Sides -> BOOLEAN]
        /\ tasks \in [Sides -> {{}}]
        BY DEF WatchdogInit
  <2>3. late \in BOOLEAN  BY Zenon DEF WatchdogInit
  <2> QED  BY <2>1, <2>2, <2>3 DEF WatchdogTypeOK
<1>3. \A s \in Sides : SideFits(s)  BY <1>1 DEF SideFits
<1>4. StartFits /\ HeardFits  BY <1>1 DEF StartFits, HeardFits, Pings
<1>5. BeatsFit  BY <1>1 DEF BeatsFit, Alive, HandlersSet, Sides
<1> QED  BY <1>1, <1>2, <1>3, <1>4, <1>5 DEF WatchdogInv, Counted, Met

LEMMA NextTaskIs ==
    ASSUME NEW s \in Sides, NEW p, p \in [Sides -> {"none", "starts", "waits", "runs", "oversleeps",
                                                    "revives", "stops", "ended", "dead"}],
           NEW q \in NextTask(s, p)
    PROVE  /\ q \in [Sides -> {"none", "starts", "waits", "runs", "oversleeps",
                               "revives", "stops", "ended", "dead"}]
           /\ q[s] \in {p[s], "oversleeps"} /\ \A t \in Sides : t # s => q[t] = p[t]
BY DEF NextTask

LEMMA InterruptedIs ==
    ASSUME WatchdogTypeOK, NEW s \in Sides
    PROVE  /\ Interrupted(s) \in [Sides -> {"none", "starts", "waits", "runs", "oversleeps",
                                            "revives", "stops", "ended", "dead"}]
           /\ Interrupted(s)[s] = IF place[s] = "starts" THEN "dead"
                                  ELSE IF place[s] = "oversleeps" THEN "runs" ELSE place[s]
           /\ \A t \in Sides : t # s => Interrupted(s)[t] = place[t]
BY DEF Interrupted, WatchdogTypeOK

LEMMA WatchdogTypes == WatchdogTypeOK /\ [WatchdogNext]_wdVars => WatchdogTypeOK'
<1> SUFFICES ASSUME WatchdogTypeOK, [WatchdogNext]_wdVars  PROVE WatchdogTypeOK'  OBVIOUS
<1> DEFINE P == {"none", "starts", "waits", "runs", "oversleeps", "revives", "stops", "ended", "dead"}
           T == {"SendSigUsr1", "CheckAndRevive"}
<1>1. /\ place \in [Sides -> P] /\ posts \in [Sides -> Nat] /\ g_heartbeats \in [Sides -> Nat]
      /\ g_is_stopped \in [Sides -> BOOLEAN] /\ ahead \in Int /\ tasks \in [Sides -> SUBSET T]
      /\ unheard \in [Sides -> Nat] /\ late \in BOOLEAN
      /\ "client" \in Sides /\ \A s \in Sides : Other(s) \in Sides
      BY DEF WatchdogTypeOK, Sides, Other
<1>2. CASE UNCHANGED wdVars  BY <1>1, <1>2 DEF wdVars, paceVars, WatchdogTypeOK
<1>3. CASE WatchdogControllerStart  BY <1>1, <1>3 DEF WatchdogControllerStart, paceVars, WatchdogTypeOK
<1>4. CASE WatchdogControllerEnd  BY <1>1, <1>4 DEF WatchdogControllerEnd, paceVars, WatchdogTypeOK
<1>5. ASSUME NEW s \in Sides, PostReady(s) \/ SemaCleanUp(s) \/ Killed(s)  PROVE WatchdogTypeOK'
  <2>1. CASE PostReady(s)  BY <1>1, <2>1 DEF PostReady, paceVars, WatchdogTypeOK
  <2>2. CASE SemaCleanUp(s)  BY <1>1, <2>2 DEF SemaCleanUp, paceVars, WatchdogTypeOK
  <2>3. CASE Killed(s)  BY <1>1, <2>3 DEF Killed, paceVars, WatchdogTypeOK
  <2> QED  BY <1>5, <2>1, <2>2, <2>3
<1>6. ASSUME NEW s \in Sides, OtherIsReady(s)  PROVE WatchdogTypeOK'
  <2>1. place' \in [Sides -> P]
    <3>1. [place EXCEPT ![s] = "runs"] \in [Sides -> P]  BY <1>1
    <3> QED  BY <1>6, <3>1, NextTaskIs DEF OtherIsReady
  <2>2. posts' \in [Sides -> Nat]  BY <1>1, <1>6 DEF OtherIsReady
  <2> QED  BY <1>1, <1>6, <2>1, <2>2 DEF OtherIsReady, paceVars, WatchdogTypeOK
<1>7. ASSUME NEW s \in Sides, Round(s)  PROVE WatchdogTypeOK'
  <2>1. ahead' \in Int  BY <1>1, <1>7 DEF Round
  <2>2. late' \in BOOLEAN  BY <1>1, <1>7, Zenon DEF Round, KeepsPace, Alive, HandlersSet
  <2>3. tasks' \in [Sides -> SUBSET T] /\ unheard' \in [Sides -> Nat]  BY <1>1, <1>7 DEF Round
  <2> QED  BY <1>1, <1>7, <2>1, <2>2, <2>3 DEF Round, WatchdogTypeOK
<1>8. ASSUME NEW s \in Sides, SendSigUsr1(s)  PROVE WatchdogTypeOK'
  <2>1. Ran(s, "SendSigUsr1") \in [Sides -> SUBSET T]  BY <1>1 DEF Ran
  <2>2. place' \in [Sides -> P]  BY <1>1, <1>8, InterruptedIs, NextTaskIs DEF SendSigUsr1
  <2>3. g_heartbeats' \in [Sides -> Nat] /\ unheard' \in [Sides -> Nat]
    <3>1. CASE g_is_stopped[s]  BY <1>1, <1>8, <3>1 DEF SendSigUsr1
    <3>2. CASE ~g_is_stopped[s]
      <4>1. /\ g_heartbeats' = Signalled([g_heartbeats EXCEPT ![s] = @ + 1], Other(s), 0)
            /\ unheard' = Signalled(unheard, Other(s), 0)
            BY <1>8, <3>2 DEF SendSigUsr1
      <4>2. [g_heartbeats EXCEPT ![s] = @ + 1] \in [Sides -> Nat]  BY <1>1
      <4>3. ASSUME NEW f \in [Sides -> Nat]  PROVE Signalled(f, Other(s), 0) \in [Sides -> Nat]
            BY <1>1 DEF Signalled
      <4> QED  BY <1>1, <4>1, <4>2, <4>3
    <3> QED  BY <3>1, <3>2
  <2> QED  BY <1>1, <1>8, <2>1, <2>2, <2>3 DEF SendSigUsr1, WatchdogTypeOK
<1>9. ASSUME NEW s \in Sides, CheckAndRevive(s)  PROVE WatchdogTypeOK'
  <2>1. Ran(s, "CheckAndRevive") \in [Sides -> SUBSET T]  BY <1>1 DEF Ran
  <2>2. CASE Revive(s)
    <3>1. place' \in [Sides -> P] /\ tasks' \in [Sides -> SUBSET T]  BY <1>1, <2>1, <2>2 DEF Revive
    <3>2. posts' \in [Sides -> Nat] /\ g_is_stopped' \in [Sides -> BOOLEAN]
          BY <1>1, <2>2 DEF Revive
    <3>3. g_heartbeats' \in [Sides -> Nat] /\ unheard' \in [Sides -> Nat]  BY <2>2 DEF Revive
    <3>4. ahead' \in Int  BY <2>2 DEF Revive
    <3>5. late' \in BOOLEAN  BY <2>2, Zenon DEF Revive
    <3> QED  BY <3>1, <3>2, <3>3, <3>4, <3>5 DEF WatchdogTypeOK
  <2>3. CASE ~Revive(s)
    <3>1. tasks' = Ran(s, "CheckAndRevive") /\ place' \in NextTask(s, place)
          BY <1>9, <2>3 DEF CheckAndRevive
    <3>2. place' \in [Sides -> P]  BY <1>1, <3>1, NextTaskIs
    <3> QED  BY <1>1, <1>9, <2>1, <2>3, <3>1, <3>2 DEF CheckAndRevive, paceVars, WatchdogTypeOK
  <2> QED  BY <2>2, <2>3
<1>10. ASSUME NEW s \in Sides, CheckIsStop(s)  PROVE WatchdogTypeOK'
  <2>1. CASE g_is_stopped[s]
    <3>1. place' \in [Sides -> P]  BY <1>1, <1>10, <2>1, InterruptedIs DEF CheckIsStop
    <3>2. g_is_stopped' \in [Sides -> BOOLEAN] /\ tasks' \in [Sides -> SUBSET T]
          BY <1>1, <1>10, <2>1 DEF CheckIsStop, Signalled
    <3> QED  BY <1>1, <1>10, <3>1, <3>2 DEF CheckIsStop, paceVars, WatchdogTypeOK
  <2>2. CASE ~g_is_stopped[s]
    <3>1. place' \in [Sides -> P]  BY <1>1, <1>10, <2>2, NextTaskIs DEF CheckIsStop
    <3> QED  BY <1>1, <1>10, <2>2, <3>1 DEF CheckIsStop, paceVars, WatchdogTypeOK
  <2> QED  BY <2>1, <2>2
<1> QED  BY <1>2, <1>3, <1>4, <1>5, <1>6, <1>7, <1>8, <1>9, <1>10 DEF WatchdogNext, WatchdogStep

Interrupts(p) == IF p = "starts" THEN "dead" ELSE IF p = "oversleeps" THEN "runs" ELSE p

\* A step of s that revives nobody.
SideGoes(s) == \/ PostReady(s) \/ OtherIsReady(s) \/ Round(s) \/ SendSigUsr1(s)
               \/ CheckAndRevive(s) /\ ~Revive(s)
               \/ CheckIsStop(s) \/ SemaCleanUp(s) \/ Killed(s)

\* Where a step of s that revives nobody takes the two sides and their posts.
LEMMA PlacesMove ==
    ASSUME WatchdogTypeOK, NEW s \in Sides, NEW o, o = Other(s), SideGoes(s)
    PROVE  \/ /\ place[s] = "starts" /\ place'[s] = "waits" /\ place'[o] = place[o]
              /\ posts'[s] = posts[s] + 1 /\ posts'[o] = posts[o]
           \/ /\ place[s] \in {"waits", "revives"} /\ place'[s] \in {"runs", "oversleeps"}
              /\ place'[o] = place[o] /\ posts[o] > 0
              /\ posts'[o] = posts[o] - 1 /\ posts'[s] = posts[s]
           \/ /\ place[s] = "runs" /\ place'[s] \in {"runs", "oversleeps", "stops"}
              /\ place'[o] \in {place[o], Interrupts(place[o])} /\ posts' = posts
              /\ mistakes' = mistakes \/ place[o] = "starts"
           \/ place[s] = "stops" /\ place'[s] = "ended" /\ place'[o] = place[o] /\ posts' = posts
           \/ Killed(s) /\ place'[s] = "dead" /\ place'[o] = place[o] /\ posts' = posts
<1> DEFINE P == {"none", "starts", "waits", "runs", "oversleeps", "revives", "stops", "ended", "dead"}
<1>1. /\ o \in Sides /\ o # s
      /\ place \in [Sides -> P] /\ posts \in [Sides -> Nat]
      BY SidesAre DEF WatchdogTypeOK
<1>2. CASE PostReady(s)  BY <1>1, <1>2 DEF PostReady
<1>3. CASE OtherIsReady(s)
  <2>1. place[s] \in {"waits", "revives"} /\ posts[o] > 0 /\ posts' = [posts EXCEPT ![o] = @ - 1]
        BY <1>3 DEF OtherIsReady
  <2> DEFINE p == [place EXCEPT ![s] = "runs"]
  <2>2. place' \in NextTask(s, p)  BY <1>3 DEF OtherIsReady
  <2>3. p \in [Sides -> P] /\ p[s] = "runs" /\ p[o] = place[o]  BY <1>1
  <2> HIDE DEF p
  <2>4. place'[s] \in {"runs", "oversleeps"} /\ place'[o] = place[o]
        BY <1>1, <2>2, <2>3, NextTaskIs
  <2> QED  BY <1>1, <2>1, <2>4
<1>4. CASE Round(s)  BY <1>1, <1>4 DEF Round
<1>5. CASE SendSigUsr1(s)
  <2>1. place[s] = "runs" /\ posts' = posts  BY <1>5 DEF SendSigUsr1, Runs
  <2>2. CASE g_is_stopped[s]
    <3>1. place' \in NextTask(s, place) /\ mistakes' = mistakes  BY <1>5, <2>2 DEF SendSigUsr1
    <3>2. place'[s] \in {"runs", "oversleeps"} /\ place'[o] = place[o]
          BY <1>1, <2>1, <3>1, NextTaskIs
    <3> QED  BY <2>1, <3>1, <3>2
  <2>3. CASE ~g_is_stopped[s]
    <3>1. /\ place' \in NextTask(s, Interrupted(o))
          /\ mistakes' = mistakes \/ place[o] = "starts"
          BY <1>5, <2>3 DEF SendSigUsr1
    <3>2. Interrupted(o)[s] = "runs" /\ Interrupted(o)[o] = Interrupts(place[o])
          BY <1>1, <2>1, InterruptedIs DEF Interrupts
    <3>3. place'[s] \in {"runs", "oversleeps"} /\ place'[o] = Interrupts(place[o])
          BY <1>1, <3>1, <3>2, InterruptedIs, NextTaskIs
    <3> QED  BY <2>1, <3>1, <3>3
  <2> QED  BY <2>2, <2>3
<1>6. CASE CheckAndRevive(s) /\ ~Revive(s)
  <2>1. place[s] = "runs" /\ place' \in NextTask(s, place) /\ posts' = posts /\ mistakes' = mistakes
        BY <1>6 DEF CheckAndRevive, Runs
  <2>2. place'[s] \in {"runs", "oversleeps"} /\ place'[o] = place[o]  BY <1>1, <2>1, NextTaskIs
  <2> QED  BY <2>1, <2>2
<1>7. CASE CheckIsStop(s)
  <2>1. place[s] = "runs" /\ posts' = posts /\ mistakes' = mistakes  BY <1>7 DEF CheckIsStop
  <2>2. CASE g_is_stopped[s]
    <3>1. place' = [Interrupted(o) EXCEPT ![s] = "stops"]  BY <1>7, <2>2 DEF CheckIsStop
    <3>2. place'[s] = "stops" /\ place'[o] = Interrupts(place[o])
          BY <1>1, <3>1, InterruptedIs DEF Interrupts
    <3> QED  BY <2>1, <3>2
  <2>3. CASE ~g_is_stopped[s]
    <3>1. place' \in NextTask(s, place)  BY <1>7, <2>3 DEF CheckIsStop
    <3>2. place'[s] \in {"runs", "oversleeps"} /\ place'[o] = place[o]
          BY <1>1, <2>1, <3>1, NextTaskIs
    <3> QED  BY <2>1, <3>2
  <2> QED  BY <2>2, <2>3
<1>8. CASE SemaCleanUp(s)  BY <1>1, <1>8 DEF SemaCleanUp
<1>9. CASE Killed(s)  BY <1>1, <1>9 DEF Killed
<1> QED  BY <1>2, <1>3, <1>4, <1>5, <1>6, <1>7, <1>8, <1>9 DEF SideGoes

-----------------------------------------------------------------------------
(* The counts. *)

\* A step that leaves the counts alone, and takes nothing from what a living side owes.
LEMMA CountsStay ==
    ASSUME WatchdogTypeOK, Counted, place'["client"] # "none",
           UNCHANGED <<g_heartbeats, unheard, ahead, late, mistakes>>,
           \A s \in Sides : Pings(s)' <= Pings(s) /\ (tasks[s] = {} => tasks'[s] = {}),
           (\A s \in Sides : Alive(s)') => \A s \in Sides : Alive(s) /\ Owes(s) <= Owes(s)'
    PROVE  Counted'
<1>1. \A s \in Sides : /\ Other(s) \in Sides /\ Lead(s)' = Lead(s) /\ Lead(s) \in Int
                        /\ Pings(s) \in {0, 1} /\ Pings(s)' \in {0, 1}
                        /\ Owes(s) \in {0, 1} /\ Owes(s)' \in {0, 1}
                        /\ g_heartbeats[s] \in Nat /\ unheard[s] \in Nat
      BY SidesAre DEF WatchdogTypeOK, Lead, Pings, Owes
<1>2. HeardFits'
  <2> SUFFICES ASSUME NEW s \in Sides  PROVE g_heartbeats'[s] + Pings(s)' <= unheard'[s] + 1
      BY DEF HeardFits
  <2>1. g_heartbeats[s] + Pings(s) <= unheard[s] + 1  BY DEF Counted, HeardFits
  <2> QED  BY <1>1, <2>1
<1>3. BeatsFit'
  <2> SUFFICES ASSUME ~late, \A s \in Sides : Alive(s)', NEW s \in Sides
               PROVE  /\ Lead(s)' <= 1 /\ (Lead(s)' = 1 => tasks'[Other(s)] = {})
                      /\ g_heartbeats'[s] + Pings(s)' <= Lead(s)' + 1 + Owes(Other(s))'
      BY DEF BeatsFit
  <2>1. /\ Lead(s) <= 1 /\ (Lead(s) = 1 => tasks[Other(s)] = {})
        /\ g_heartbeats[s] + Pings(s) <= Lead(s) + 1 + Owes(Other(s))
        BY DEF Counted, BeatsFit
  <2>2. Owes(Other(s)) <= Owes(Other(s))'  BY <1>1
  <2> QED  BY <1>1, <2>1, <2>2
<1> QED  BY <1>2, <1>3 DEF Counted, StartFits

\* What there is to show for the counts, of a side and of the other.
LEMMA BeatsKeep ==
    ASSUME NEW s \in Sides, Other(s) \in Sides, Other(Other(s)) = s,
           \A t \in Sides : t = s \/ t = Other(s),
           Lead(s)' <= 1, Lead(Other(s))' <= 1,
           Lead(s)' = 1 => tasks'[Other(s)] = {}, Lead(Other(s))' = 1 => tasks'[s] = {},
           g_heartbeats'[s] + Pings(s)' <= Lead(s)' + 1 + Owes(Other(s))',
           g_heartbeats'[Other(s)] + Pings(Other(s))' <= Lead(Other(s))' + 1 + Owes(s)'
    PROVE  BeatsFit'
<1> SUFFICES ASSUME NEW t \in Sides
             PROVE  /\ Lead(t)' <= 1 /\ (Lead(t)' = 1 => tasks'[Other(t)] = {})
                    /\ g_heartbeats'[t] + Pings(t)' <= Lead(t)' + 1 + Owes(Other(t))'
    BY DEF BeatsFit
<1> QED  OBVIOUS

LEMMA CountsAre ==
    ASSUME WatchdogTypeOK, NEW s \in Sides
    PROVE  Pings(s) \in {0, 1} /\ Owes(s) \in {0, 1} /\ g_heartbeats[s] \in Nat
           /\ unheard[s] \in Nat /\ (tasks[s] = {} => Pings(s) = 0)
BY DEF WatchdogTypeOK, Pings, Owes

\* A round begun owes its ping, and is one more for all counts.
LEMMA RoundCounts ==
    ASSUME WatchdogTypeOK, Counted, NEW s \in Sides, Round(s)
    PROVE  Counted'
<1> DEFINE o == Other(s)
<1>1. /\ o \in Sides /\ o # s /\ Other(s) = o /\ Other(o) = s /\ \A t \in Sides : t = s \/ t = o
      /\ Lead(s) \in Int /\ Lead(o) = -Lead(s) /\ "client" \in Sides
      BY SidesAre DEF WatchdogTypeOK, Sides
<1>2. /\ place[s] = "runs" /\ tasks[s] = {} /\ ~g_is_stopped[s]
      /\ tasks' = [tasks EXCEPT ![s] = {"SendSigUsr1", "CheckAndRevive"}]
      /\ unheard' = [unheard EXCEPT ![s] = @ + 1]
      /\ UNCHANGED <<place, posts, g_heartbeats, g_is_stopped, mistakes>>
      BY DEF Round
<1>3. ASSUME ~late', Alive(o)
      PROVE  /\ ~late /\ KeepsPace(s)
             /\ Lead(s)' = Lead(s) + 1 /\ Lead(o)' = Lead(o) - 1
  <2>1. ~late /\ KeepsPace(s)  BY <1>3 DEF Round
  <2>2. ahead' = IF s = "client" THEN ahead + 1 ELSE ahead - 1  BY <1>3 DEF Round
  <2> QED  BY <1>1, <2>1, <2>2 DEF Lead, Sides, Other, WatchdogTypeOK
<1>4. KeepsPace(s) /\ Alive(o) => Lead(s) <= 0 /\ (Lead(s) = 0 => tasks[o] = {})
      BY DEF KeepsPace
<1> HIDE DEF o
<1>5. /\ tasks'[o] = tasks[o] /\ tasks'[s] = {"SendSigUsr1", "CheckAndRevive"}
      /\ unheard'[s] = unheard[s] + 1 /\ unheard'[o] = unheard[o]
      BY <1>1, <1>2 DEF WatchdogTypeOK
<1>6. Pings(s) = 0 /\ Owes(s) = 0 /\ Pings(s)' = 1 /\ Owes(s)' = 1
      BY <1>2, <1>5 DEF Pings, Owes
<1>7. Pings(o)' = Pings(o) /\ Owes(o)' = Owes(o)  BY <1>2, <1>5 DEF Pings, Owes
<1>8. /\ Pings(o) \in {0, 1} /\ Owes(o) \in {0, 1}
      /\ g_heartbeats[s] \in Nat /\ g_heartbeats[o] \in Nat
      /\ unheard[s] \in Nat /\ unheard[o] \in Nat
      BY <1>1, CountsAre
<1>9. StartFits'
  <2>1. place["client"] # "none"
    <3>1. place[s] # "none"  BY <1>2
    <3> QED  BY <3>1 DEF Counted, StartFits
  <2> QED  BY <1>2, <2>1 DEF StartFits
<1>10. HeardFits'
  <2>1. g_heartbeats[s] + Pings(s) <= unheard[s] + 1 /\ g_heartbeats[o] + Pings(o) <= unheard[o] + 1
        BY <1>1 DEF Counted, HeardFits
  <2>2. /\ g_heartbeats'[s] + Pings(s)' <= unheard'[s] + 1
        /\ g_heartbeats'[o] + Pings(o)' <= unheard'[o] + 1
        BY <1>2, <1>5, <1>6, <1>7, <1>8, <2>1
  <2> QED  BY <1>1, <2>2 DEF HeardFits
<1>11. BeatsFit'
  <2> SUFFICES ASSUME ~late', \A t \in Sides : Alive(t)'  PROVE BeatsFit'  BY DEF BeatsFit
  <2>1. \A t \in Sides : Alive(t)  BY <1>2 DEF Alive, HandlersSet
  <2>2. /\ ~late /\ Lead(s) <= 0 /\ (Lead(s) = 0 => tasks[o] = {})
        /\ Lead(s)' = Lead(s) + 1 /\ Lead(o)' = Lead(o) - 1
        BY <1>1, <1>3, <1>4, <2>1
  <2>3. /\ Lead(o) <= 1 /\ g_heartbeats[s] + Pings(s) <= Lead(s) + 1 + Owes(o)
        /\ g_heartbeats[o] + Pings(o) <= Lead(o) + 1 + Owes(s)
        BY <1>1, <2>1, <2>2 DEF Counted, BeatsFit
  <2>4. Lead(s)' <= 1 /\ Lead(o)' <= 1 /\ (Lead(s)' = 1 => tasks'[o] = {}) /\ Lead(o)' # 1
        BY <1>1, <1>5, <2>2, <2>3
  <2>5. /\ g_heartbeats'[s] + Pings(s)' <= Lead(s)' + 1 + Owes(o)'
        /\ g_heartbeats'[o] + Pings(o)' <= Lead(o)' + 1 + Owes(s)'
        BY <1>1, <1>2, <1>6, <1>7, <1>8, <2>2, <2>3
  <2> QED  BY <1>1, <2>4, <2>5, BeatsKeep
<1> QED  BY <1>2, <1>9, <1>10, <1>11 DEF Counted

\* A ping takes the other's counts to zero.
LEMMA PingCounts ==
    ASSUME WatchdogTypeOK, Counted, NEW s \in Sides, SendSigUsr1(s), ~g_is_stopped[s]
    PROVE  Counted'
<1> DEFINE o == Other(s)
<1>1. /\ o \in Sides /\ o # s /\ Other(s) = o /\ Other(o) = s /\ \A t \in Sides : t = s \/ t = o
      /\ Lead(s) \in Int /\ Lead(o) = -Lead(s) /\ "client" \in Sides
      BY SidesAre DEF WatchdogTypeOK, Sides
<1>2. /\ place[s] = "runs" /\ "SendSigUsr1" \in tasks[s]
      /\ tasks' = [tasks EXCEPT ![s] = @ \ {"SendSigUsr1"}]
      /\ UNCHANGED <<g_is_stopped, ahead, late>>
      /\ mistakes' \subseteq mistakes \cup {"killed by a ping"}
      BY DEF SendSigUsr1, Runs, Ran
<1>3. place' \in NextTask(s, Interrupted(o))  BY DEF SendSigUsr1
<1>4. /\ g_heartbeats' = Signalled([g_heartbeats EXCEPT ![s] = @ + 1], o, 0)
      /\ unheard' = Signalled(unheard, o, 0)
      BY DEF SendSigUsr1
<1> HIDE DEF o
<1>5. /\ Interrupted(o)[s] = "runs"
      /\ Interrupted(o)[o] = IF place[o] = "starts" THEN "dead"
                             ELSE IF place[o] = "oversleeps" THEN "runs" ELSE place[o]
      BY <1>1, <1>2, InterruptedIs
<1>6. /\ place'[s] \in {"runs", "oversleeps"}
      /\ place'[o] = IF place[o] = "starts" THEN "dead"
                     ELSE IF place[o] = "oversleeps" THEN "runs" ELSE place[o]
  <2>1. /\ place'[s] \in {Interrupted(o)[s], "oversleeps"}
        /\ \A t \in Sides : t # s => place'[t] = Interrupted(o)[t]
        BY <1>1, <1>3, InterruptedIs, NextTaskIs
  <2> QED  BY <1>1, <1>5, <2>1
<1>7. /\ tasks'[o] = tasks[o] /\ "SendSigUsr1" \notin tasks'[s] /\ (tasks[s] = {} => tasks'[s] = {})
      BY <1>1, <1>2 DEF WatchdogTypeOK
<1>8. /\ Pings(s) = 1 /\ Owes(s) = 1 /\ Pings(s)' = 0 /\ Owes(s)' = 0
      /\ Pings(o)' = Pings(o) /\ Owes(o)' = Owes(o)
      BY <1>2, <1>7 DEF Pings, Owes
<1>9. /\ Pings(o) \in {0, 1} /\ Owes(o) \in {0, 1} /\ (tasks[o] = {} => Pings(o) = 0)
      /\ g_heartbeats[s] \in Nat /\ g_heartbeats[o] \in Nat
      /\ unheard[s] \in Nat /\ unheard[o] \in Nat
      BY <1>1, CountsAre
<1>10. /\ g_heartbeats'[s] = g_heartbeats[s] + 1 /\ unheard'[s] = unheard[s]
       /\ IF HandlersSet(o) THEN g_heartbeats'[o] = 0 /\ unheard'[o] = 0
          ELSE g_heartbeats'[o] = g_heartbeats[o] /\ unheard'[o] = unheard[o]
  <2>1. /\ [g_heartbeats EXCEPT ![s] = @ + 1] \in [Sides -> Nat]
        /\ [g_heartbeats EXCEPT ![s] = @ + 1][s] = g_heartbeats[s] + 1
        /\ [g_heartbeats EXCEPT ![s] = @ + 1][o] = g_heartbeats[o]
        BY <1>1 DEF WatchdogTypeOK
  <2>2. ASSUME NEW f \in [Sides -> Nat]
        PROVE  /\ Signalled(f, o, 0)[s] = f[s]
               /\ Signalled(f, o, 0)[o] = IF HandlersSet(o) THEN 0 ELSE f[o]
        BY <1>1 DEF Signalled
  <2>3. unheard \in [Sides -> Nat]  BY DEF WatchdogTypeOK
  <2> QED  BY <1>4, <2>1, <2>2, <2>3
<1>11. StartFits'
  <2>1. place["client"] # "none"  BY <1>2 DEF Counted, StartFits
  <2>2. place'["client"] # "none"  BY <1>1, <1>6, <2>1
  <2> QED  BY <2>2 DEF StartFits
<1>12. HeardFits'
  <2>1. g_heartbeats[s] + Pings(s) <= unheard[s] + 1 /\ g_heartbeats[o] + Pings(o) <= unheard[o] + 1
        BY <1>1 DEF Counted, HeardFits
  <2>2. /\ g_heartbeats'[s] + Pings(s)' <= unheard'[s] + 1
        /\ g_heartbeats'[o] + Pings(o)' <= unheard'[o] + 1
        BY <1>8, <1>9, <1>10, <2>1
  <2> QED  BY <1>1, <2>2 DEF HeardFits
<1>13. BeatsFit'
  <2> SUFFICES ASSUME ~late, \A t \in Sides : Alive(t)'  PROVE BeatsFit'
      BY <1>2 DEF BeatsFit
  <2>1. (\A t \in Sides : Alive(t)) /\ HandlersSet(o)
    <3>1. Alive(s) /\ Alive(o)'  BY <1>1, <1>2 DEF Alive, HandlersSet
    <3>2. HandlersSet(o)  BY <1>6, <3>1 DEF Alive, HandlersSet
    <3> QED  BY <1>1, <3>1, <3>2 DEF Alive
  <2>2. /\ Lead(s) <= 1 /\ Lead(o) <= 1 /\ (Lead(s) = 1 => tasks[o] = {})
        /\ Lead(o) = 1 => tasks[s] = {}
        /\ g_heartbeats[s] + Pings(s) <= Lead(s) + 1 + Owes(o)
        BY <1>1, <2>1 DEF Counted, BeatsFit
  <2>3. Lead(s)' = Lead(s) /\ Lead(o)' = Lead(o)  BY <1>2 DEF Lead
  <2>4. /\ g_heartbeats'[s] + Pings(s)' <= Lead(s)' + 1 + Owes(o)'
        /\ g_heartbeats'[o] + Pings(o)' <= Lead(o)' + 1 + Owes(s)'
    <3>1. g_heartbeats'[s] = g_heartbeats[s] + 1 /\ g_heartbeats'[o] = 0  BY <1>10, <2>1
    <3>2. g_heartbeats'[s] + Pings(s)' <= Lead(s)' + 1 + Owes(o)'
          BY <1>1, <1>8, <1>9, <2>2, <2>3, <3>1
    <3>3. Pings(o) <= Lead(o) + 1  BY <1>1, <1>9, <2>2
    <3> QED  BY <1>1, <1>8, <1>9, <2>3, <3>1, <3>2, <3>3
  <2> QED  BY <1>1, <1>7, <2>2, <2>3, <2>4, BeatsKeep
<1> QED  BY <1>2, <1>11, <1>12, <1>13 DEF Counted

\* Who counts more than three has not been heard of for as many rounds, and does not keep
\* pace if it lives; both start from nothing.
LEMMA ReviveCounts ==
    ASSUME WatchdogTypeOK, Counted, NEW s \in Sides, Runs(s, "CheckAndRevive"),
           g_heartbeats[s] > MAX_MISSED_HEARTBEATS, Revive(s)
    PROVE  Counted' /\ mistakes' = mistakes
<1> DEFINE o == Other(s)
<1>1. /\ o \in Sides /\ o # s /\ Other(s) = o /\ Other(o) = s /\ \A t \in Sides : t = s \/ t = o
      /\ Lead(s) \in Int /\ "client" \in Sides
      BY SidesAre DEF WatchdogTypeOK, Sides
<1>2. /\ place[s] = "runs" /\ mistakes' = mistakes \cup Mistakes(s)
      /\ place' = [place EXCEPT ![s] = "revives", ![o] = "starts"]
      /\ tasks' = [Ran(s, "CheckAndRevive") EXCEPT ![o] = {}]
      /\ g_heartbeats' = [t \in Sides |-> 0] /\ unheard' = [t \in Sides |-> 0] /\ ahead' = 0
      BY DEF Runs, Revive
<1>3. /\ Pings(s) \in {0, 1} /\ Owes(o) \in {0, 1}
      /\ g_heartbeats[s] \in Nat /\ unheard[s] \in Nat
      BY <1>1, CountsAre
<1>4. Mistakes(s) = {}
  <2>1. ~(unheard[s] < MAX_MISSED_HEARTBEATS)
    <3>1. g_heartbeats[s] + Pings(s) <= unheard[s] + 1  BY DEF Counted, HeardFits
    <3> QED  BY <1>3, <3>1, HeartbeatsAssumption
  <2>2. ~(Alive(o) /\ ~late)
    <3> SUFFICES ASSUME Alive(o), ~late  PROVE FALSE  OBVIOUS
    <3>1. \A t \in Sides : Alive(t)  BY <1>1, <1>2 DEF Alive, HandlersSet
    <3>2. Lead(s) <= 1 /\ g_heartbeats[s] + Pings(s) <= Lead(s) + 1 + Owes(o)
          BY <3>1 DEF Counted, BeatsFit
    <3> QED  BY <1>1, <1>3, <3>2, HeartbeatsAssumption
  <2> QED  BY <2>1, <2>2 DEF Mistakes
<1> HIDE DEF o
<1>5. /\ place'["client"] # "none" /\ tasks'[o] = {}
      /\ g_heartbeats'[s] = 0 /\ g_heartbeats'[o] = 0 /\ unheard'[s] = 0 /\ unheard'[o] = 0
  <2>1. place'[s] = "revives" /\ place'[o] = "starts"  BY <1>1, <1>2 DEF WatchdogTypeOK
  <2>2. Ran(s, "CheckAndRevive") \in [Sides -> SUBSET {"SendSigUsr1", "CheckAndRevive"}]
        BY DEF Ran, WatchdogTypeOK
  <2> QED  BY <1>1, <1>2, <2>1, <2>2
<1>6. Pings(s)' \in {0, 1} /\ Pings(o)' = 0 /\ Owes(s)' \in {0, 1} /\ Owes(o)' \in {0, 1}
      BY <1>5 DEF Pings, Owes
<1>7. StartFits' /\ HeardFits'
  <2>1. StartFits'  BY <1>5 DEF StartFits
  <2>2. /\ g_heartbeats'[s] + Pings(s)' <= unheard'[s] + 1
        /\ g_heartbeats'[o] + Pings(o)' <= unheard'[o] + 1
        BY <1>5, <1>6
  <2> QED  BY <1>1, <2>1, <2>2 DEF HeardFits
<1>8. BeatsFit'
  <2>1. Lead(s)' = 0 /\ Lead(o)' = 0
    <3>1. ahead' \in Int /\ ahead' <= 0 /\ ahead' >= 0  BY <1>2
    <3>2. \A n \in Int : n <= 0 /\ n >= 0 => -n = n  OBVIOUS
    <3>3. Lead(s)' = ahead' /\ Lead(o)' = ahead'  BY <3>1, <3>2 DEF Lead
    <3> QED  BY <1>2, <3>3
  <2> QED  BY <1>1, <1>5, <1>6, <2>1, BeatsKeep
<1> QED  BY <1>2, <1>4, <1>7, <1>8 DEF Counted

\* Every other step takes no ping from the counts that it does not take from what is owed.
LEMMA OthersCount ==
    ASSUME WatchdogTypeOK, Counted, NEW s \in Sides, SideGoes(s), ~Round(s),
           SendSigUsr1(s) => g_is_stopped[s]
    PROVE  Counted'
<1> DEFINE o == Other(s)
<1>1. /\ o \in Sides /\ o # s /\ Other(s) = o /\ Other(o) = s /\ \A t \in Sides : t = s \/ t = o
      /\ "client" \in Sides
      BY SidesAre DEF WatchdogTypeOK, Sides
<1>2. UNCHANGED <<g_heartbeats, unheard, ahead, late, mistakes>>
      BY DEF SideGoes, PostReady, OtherIsReady, CheckIsStop, SemaCleanUp, Killed, SendSigUsr1,
             CheckAndRevive, paceVars
<1>3. /\ tasks'[o] = tasks[o] /\ tasks'[s] \subseteq tasks[s]
      /\ g_is_stopped'[s] = g_is_stopped[s] /\ (g_is_stopped[o] => g_is_stopped'[o])
      /\ \/ Killed(s) \/ g_is_stopped[s]
         \/ "SendSigUsr1" \in tasks'[s] <=> "SendSigUsr1" \in tasks[s]
  <2>1. CASE PostReady(s) \/ OtherIsReady(s) \/ SemaCleanUp(s)
        BY <2>1 DEF PostReady, OtherIsReady, SemaCleanUp
  <2>2. CASE SendSigUsr1(s)  BY <1>1, <2>2 DEF SendSigUsr1, Ran, WatchdogTypeOK
  <2>3. CASE CheckAndRevive(s) /\ ~Revive(s)
        BY <1>1, <2>3 DEF CheckAndRevive, Ran, WatchdogTypeOK
  <2>4. CASE CheckIsStop(s)  BY <1>1, <2>4 DEF CheckIsStop, Signalled, WatchdogTypeOK
  <2>5. CASE Killed(s)  BY <1>1, <2>5 DEF Killed, WatchdogTypeOK
  <2> QED  BY <2>1, <2>2, <2>3, <2>4, <2>5 DEF SideGoes
<1>4. Killed(s) => Alive(s)  BY DEF Killed
<1> HIDE DEF o
<1>5. \/ place[s] \in {"starts", "waits", "runs", "oversleeps", "revives", "stops"} /\ place'[o] = place[o]
      \/ place[s] = "runs" /\ place'[o] \in {place[o], Interrupts(place[o])}
      BY <1>1, <1>4, PlacesMove DEF Alive, HandlersSet
<1>6. place'[s] # "none" /\ (Killed(s) => place'[s] = "dead")
  <2>1. place'[s] # "none"  BY <1>1, PlacesMove
  <2>2. Killed(s) => place'[s] = "dead"  BY <1>1 DEF Killed, WatchdogTypeOK
  <2> QED  BY <2>1, <2>2
<1>7. place'["client"] # "none"
  <2>1. place["client"] # "none"
    <3>1. place[s] # "none"  BY <1>5
    <3> QED  BY <3>1 DEF Counted, StartFits
  <2>2. place'[o] = "none" => place[o] = "none"  BY <1>5 DEF Interrupts
  <2> QED  BY <1>1, <1>6, <2>1, <2>2
<1>8. ASSUME Alive(s)', Alive(o)'
      PROVE  Alive(s) /\ Alive(o) /\ Owes(s) <= Owes(s)' /\ Owes(o) <= Owes(o)'
  <2>1. Alive(s)  BY <1>5 DEF Alive, HandlersSet
  <2>2. Alive(o)  BY <1>5, <1>8 DEF Alive, HandlersSet, Interrupts
  <2>3. ~Killed(s)  BY <1>6, <1>8 DEF Alive, HandlersSet
  <2> QED  BY <1>3, <2>1, <2>2, <2>3 DEF Owes
<1>9. \A t \in Sides : Pings(t)' <= Pings(t) /\ (tasks[t] = {} => tasks'[t] = {})
  <2>1. /\ Pings(s)' <= Pings(s) /\ Pings(o)' <= Pings(o)
        /\ tasks[s] = {} => tasks'[s] = {}
        BY <1>3 DEF Pings
  <2> QED  BY <1>1, <1>3, <2>1
<1> QED  BY <1>1, <1>2, <1>7, <1>8, <1>9, CountsStay

-----------------------------------------------------------------------------
(* The handshake. *)

\* What there is to show for the places and the posts, of a side and of the other.
LEMMA MetOfBoth ==
    ASSUME NEW s \in Sides, \A t \in Sides : t = s \/ t = Other(s),
           mistakes' = {}, SideFits(s)', SideFits(Other(s))'
    PROVE  Met'
<1> SUFFICES ASSUME NEW t \in Sides  PROVE SideFits(t)'  BY DEF Met
<1>1. CASE t = s  BY <1>1
<1>2. CASE t = Other(s)  BY <1>2
<1> QED  BY <1>1, <1>2

LEMMA GoesMet ==
    ASSUME WatchdogTypeOK, Met, NEW s \in Sides, SideGoes(s), Killed(s) => BothRun
    PROVE  Met'
<1> DEFINE o == Other(s)
<1>1. /\ o \in Sides /\ o # s /\ Other(s) = o /\ Other(o) = s /\ \A t \in Sides : t = s \/ t = o
      BY SidesAre DEF WatchdogTypeOK
<1>2. SideFits(s) /\ SideFits(o) /\ mistakes = {}  BY <1>1 DEF Met
<1> HIDE DEF o
<1>3. /\ place[s] \in {"none", "starts", "waits", "runs", "oversleeps", "revives", "stops", "ended", "dead"}
      /\ place[o] \in {"none", "starts", "waits", "runs", "oversleeps", "revives", "stops", "ended", "dead"}
      /\ posts[s] \in Nat /\ posts[o] \in Nat
      BY <1>1 DEF WatchdogTypeOK
<1>4. Killed(s) => place[s] \in {"runs", "oversleeps"} /\ place[o] \in {"runs", "oversleeps"}
      BY <1>1 DEF BothRun
<1>5. mistakes' = {}
  <2>1. mistakes' = mistakes \/ SendSigUsr1(s)
        BY DEF SideGoes, PostReady, OtherIsReady, Round, CheckAndRevive, CheckIsStop, SemaCleanUp, Killed
  <2>2. place[s] = "runs" => place[o] # "starts"  BY <1>1, <1>2 DEF SideFits
  <2>3. CASE SendSigUsr1(s)
    <3>1. place[s] = "runs" /\ (mistakes' = mistakes \/ mistakes' = mistakes \cup {})
          BY <1>1, <2>2, <2>3 DEF SendSigUsr1, Runs
    <3> QED  BY <1>2, <3>1
  <2> QED  BY <1>2, <2>1, <2>3
<1>6. SideFits(s)' /\ SideFits(o)'
  <2>1. CASE /\ place[s] = "starts" /\ place'[s] = "waits" /\ place'[o] = place[o]
             /\ posts'[s] = posts[s] + 1 /\ posts'[o] = posts[o]
        BY <1>1, <1>2, <1>3, <2>1 DEF SideFits
  <2>2. CASE /\ place[s] \in {"waits", "revives"} /\ place'[s] \in {"runs", "oversleeps"}
             /\ place'[o] = place[o] /\ posts[o] > 0
             /\ posts'[o] = posts[o] - 1 /\ posts'[s] = posts[s]
        BY <1>1, <1>2, <1>3, <2>2 DEF SideFits
  <2>3. CASE /\ place[s] = "runs" /\ place'[s] \in {"runs", "oversleeps", "stops"}
             /\ place'[o] \in {place[o], Interrupts(place[o])} /\ posts' = posts
        BY <1>1, <1>2, <1>3, <2>3 DEF SideFits, Interrupts
  <2>4. CASE place[s] = "stops" /\ place'[s] = "ended" /\ place'[o] = place[o] /\ posts' = posts
        BY <1>1, <1>2, <1>3, <2>4 DEF SideFits
  <2>5. CASE Killed(s) /\ place'[s] = "dead" /\ place'[o] = place[o] /\ posts' = posts
        BY <1>1, <1>2, <1>3, <1>4, <2>5 DEF SideFits
  <2> QED  BY <1>1, <2>1, <2>2, <2>3, <2>4, <2>5, PlacesMove
<1> QED  BY <1>1, <1>5, <1>6, MetOfBoth

\* Who runs revives one that runs too, or is dead or has ended: no post is left.
LEMMA ReviveMet ==
    ASSUME WatchdogTypeOK, Met, NEW s \in Sides, place[s] = "runs", Revive(s), ~early',
           mistakes' = {}
    PROVE  Met'
<1> DEFINE o == Other(s)
<1>1. /\ o \in Sides /\ o # s /\ Other(s) = o /\ Other(o) = s /\ \A t \in Sides : t = s \/ t = o
      BY SidesAre DEF WatchdogTypeOK
<1>2. SideFits(s) /\ SideFits(o)  BY <1>1 DEF Met
<1>3. /\ place' = [place EXCEPT ![s] = "revives", ![o] = "starts"]
      /\ posts' = [posts EXCEPT ![s] = @ + 1]
      BY DEF Revive
<1>4. ~Alive(o) \/ BothRun  BY DEF Revive, KillsToReplace
<1> HIDE DEF o
<1>5. /\ place'[s] = "revives" /\ place'[o] = "starts"
      /\ posts'[s] = posts[s] + 1 /\ posts'[o] = posts[o]
      BY <1>1, <1>3 DEF WatchdogTypeOK
<1>6. place[o] \in {"runs", "oversleeps", "none", "ended", "dead"}
      BY <1>1, <1>4 DEF BothRun, Alive, HandlersSet, WatchdogTypeOK
<1>7. posts[s] = 0 /\ posts[o] = 0  BY <1>1, <1>2, <1>6 DEF SideFits
<1>8. SideFits(s)' /\ SideFits(o)'  BY <1>1, <1>5, <1>7 DEF SideFits
<1> QED  BY <1>1, <1>8, MetOfBoth

LEMMA RevivesWhoIsSilent ==
    ASSUME WatchdogTypeOK, NEW s \in Sides, CheckAndRevive(s), Revive(s)
    PROVE  Runs(s, "CheckAndRevive") /\ g_heartbeats[s] > MAX_MISSED_HEARTBEATS
<1>1. Runs(s, "CheckAndRevive")  BY DEF CheckAndRevive
<1>2. place'[s] = "revives"
      BY SidesAre DEF Revive, WatchdogTypeOK
<1>3. ASSUME place' \in NextTask(s, place)  PROVE FALSE
  <2>1. place'[s] \in {place[s], "oversleeps"}  BY <1>3, NextTaskIs DEF WatchdogTypeOK
  <2> QED  BY <1>1, <1>2, <2>1 DEF Runs
<1> QED  BY <1>1, <1>3 DEF CheckAndRevive

LEMMA WatchdogStepKeeps ==
    ASSUME WatchdogTypeOK, Counted, early \/ Met, NEW s \in Sides, WatchdogStep(s) \/ Killed(s)
    PROVE  Counted' /\ (early' \/ Met')
<1>1. CASE CheckAndRevive(s) /\ Revive(s)
  <2>1. Runs(s, "CheckAndRevive") /\ g_heartbeats[s] > MAX_MISSED_HEARTBEATS
        BY <1>1, RevivesWhoIsSilent
  <2>2. Counted' /\ mistakes' = mistakes  BY <1>1, <2>1, ReviveCounts
  <2>3. ASSUME ~early'  PROVE Met'
    <3>1. ~early  BY <1>1, <2>3 DEF Revive, KillsToReplace
    <3>2. Met /\ mistakes' = {}  BY <2>2, <3>1 DEF Met
    <3>3. place[s] = "runs"  BY <2>1 DEF Runs
    <3> QED  BY <1>1, <2>3, <3>2, <3>3, ReviveMet
  <2> QED  BY <2>2, <2>3
<1>2. CASE SideGoes(s)
  <2>1. Counted'  BY <1>2, RoundCounts, PingCounts, OthersCount
  <2>2. ASSUME ~early'  PROVE Met'
    <3>1. Killed(s) => ~early /\ BothRun  BY <2>2 DEF Killed
    <3>2. ~early
      <4>1. early' = early \/ Killed(s)
            BY <1>2 DEF SideGoes, PostReady, OtherIsReady, Round, SendSigUsr1, CheckAndRevive,
               CheckIsStop, SemaCleanUp
      <4> QED  BY <2>2, <3>1, <4>1
    <3> QED  BY <1>1, <1>2, <3>1, <3>2, GoesMet
  <2> QED  BY <2>1, <2>2
<1> QED  BY <1>1, <1>2 DEF WatchdogStep, SideGoes

\* Main's: the first start, and the word to stop, which only adds to what a side owes.
LEMMA MainKeeps ==
    ASSUME WatchdogTypeOK, Counted, early \/ Met, WatchdogControllerStart \/ WatchdogControllerEnd
    PROVE  Counted' /\ (early' \/ Met')
<1>1. /\ "client" \in Sides /\ \A t \in Sides : Other(t) \in Sides
      /\ \A t \in Sides : t = "client" \/ t = Other("client")
      BY DEF Sides, Other
<1>2. CASE WatchdogControllerStart
  <2>1. /\ ahead = 0 /\ \A t \in Sides : g_heartbeats[t] = 0 /\ tasks[t] = {} /\ place[t] = "none"
        /\ UNCHANGED <<posts, g_heartbeats, unheard, tasks, g_is_stopped, ahead, mistakes, early>>
        BY <1>2 DEF WatchdogControllerStart, paceVars, Counted, StartFits
  <2>2. \A t \in Sides : place'[t] = "starts"  BY <1>2 DEF WatchdogControllerStart
  <2>3. StartFits'  BY <1>1, <2>2 DEF StartFits
  <2>4. HeardFits'  BY <2>1 DEF Counted, HeardFits, Pings
  <2>5. BeatsFit'
    <3>1. \A t \in Sides : Lead(t)' = 0
      <4>1. \A t \in Sides : Lead(t) = 0 /\ Lead(t)' = Lead(t)  BY <2>1, NoLead DEF Lead
      <4> QED  BY <4>1
    <3>2. \A t \in Sides : Pings(t)' = 0 /\ Owes(t)' \in {0, 1} /\ g_heartbeats'[t] = 0
          BY <2>1 DEF Pings, Owes
    <3> QED  BY <1>1, <3>1, <3>2 DEF BeatsFit
  <2>6. early' \/ Met'
    <3>1. CASE early  BY <2>1, <3>1
    <3>2. CASE Met
      <4>1. ASSUME NEW t \in Sides  PROVE SideFits(t)'
        <5>1. SideFits(t)  BY <3>2 DEF Met
        <5> QED  BY <1>1, <2>1, <2>2, <5>1 DEF SideFits
      <4> QED  BY <2>1, <3>2, <4>1 DEF Met
    <3> QED  BY <3>1, <3>2
  <2> QED  BY <2>1, <2>3, <2>4, <2>5, <2>6 DEF Counted
<1>3. CASE WatchdogControllerEnd
  <2>1. /\ UNCHANGED <<place, posts, g_heartbeats, unheard, tasks, ahead, late, mistakes, early>>
        /\ g_is_stopped' = [g_is_stopped EXCEPT !["client"] = TRUE]
        /\ place["client"] # "none"
        BY <1>3 DEF WatchdogControllerEnd, paceVars, Alive, HandlersSet
  <2>2. \A t \in Sides : Pings(t)' <= Pings(t) /\ Owes(t) <= Owes(t)' /\ Alive(t)' = Alive(t)
    <3>1. \A t \in Sides : g_is_stopped[t] => g_is_stopped'[t]  BY <1>1, <2>1 DEF WatchdogTypeOK
    <3>2. \A t \in Sides : Owes(t) <= Owes(t)'  BY <2>1, <3>1 DEF Owes
    <3>3. \A t \in Sides : Pings(t)' <= Pings(t)  BY <2>1 DEF Pings
    <3> QED  BY <2>1, <3>2, <3>3 DEF Alive, HandlersSet
  <2>3. Counted'  BY <2>1, <2>2, CountsStay
  <2>4. Met => Met'  BY <2>1 DEF Met, SideFits
  <2> QED  BY <2>1, <2>3, <2>4
<1> QED  BY <1>2, <1>3

LEMMA WatchdogKeeps == WatchdogInv /\ [WatchdogNext]_wdVars => WatchdogInv'
<1> SUFFICES ASSUME WatchdogInv, [WatchdogNext]_wdVars  PROVE WatchdogInv'  OBVIOUS
<1>1. WatchdogTypeOK /\ WatchdogTypeOK' /\ Counted /\ (early \/ Met)
      BY WatchdogTypes DEF WatchdogInv
<1>2. CASE UNCHANGED wdVars
  <2>1. UNCHANGED <<place, posts, g_heartbeats, g_is_stopped, unheard, tasks, ahead, late, mistakes,
                    early>>
        BY <1>2 DEF wdVars, paceVars
  <2>2. Counted'
        BY <1>1, <2>1 DEF Counted, StartFits, HeardFits, BeatsFit, Pings, Owes, Lead, Alive, HandlersSet
  <2>3. Met => Met'  BY <2>1 DEF Met, SideFits
  <2> QED  BY <1>1, <2>1, <2>2, <2>3 DEF WatchdogInv
<1>3. ASSUME NEW s \in Sides, WatchdogStep(s) \/ Killed(s)  PROVE WatchdogInv'
      BY <1>1, <1>3, WatchdogStepKeeps DEF WatchdogInv
<1>4. CASE WatchdogControllerStart \/ WatchdogControllerEnd
      BY <1>1, <1>4, MainKeeps DEF WatchdogInv
<1> QED  BY <1>2, <1>3, <1>4 DEF WatchdogNext

-----------------------------------------------------------------------------
(* Programs: each of them, whichever is run. *)

LEMMA WatchdogPromise == WatchdogInv => OnlyTheSilentAreRevived
BY DEF WatchdogInv, Counted, Met, OnlyTheSilentAreRevived

LEMMA PongPromise == PongInv => ServerIsNotHeldUp
BY DEF PongInv

ProgramsInv == ExercisesInv /\ WatchdogInv /\ PongInv /\ PairsInv

\* A step of one program is none of the others'.
LEMMA ProgramsAreApart ==
    [ProgramsNext]_programVars =>
        [Next]_vars /\ [WatchdogNext]_wdVars /\ [PongNext]_pongVars /\ [PairsNext]_pairVars
<1>1. CASE program = "ProducersConsumers" /\ Next /\ Alone(program)  BY <1>1 DEF Alone
<1>2. CASE program = "Watchdog" /\ WatchdogNext /\ Alone(program)  BY <1>2 DEF Alone
<1>3. CASE program = "PongServer" /\ PongNext /\ Alone(program)  BY <1>3 DEF Alone
<1>4. CASE program = "PingPongPairs" /\ PairsNext /\ Alone(program)  BY <1>4 DEF Alone
<1>5. CASE UNCHANGED programVars  BY <1>5 DEF programVars
<1> QED  BY <1>1, <1>2, <1>3, <1>4, <1>5 DEF ProgramsNext

\* The inductive invariants of the four programs hold of whichever is run: who has claimed
\* what in the exercises of producers_consumers.c, whose turn it is in the pairs, what the
\* pong server's set of descriptors names, and how far the watchdog's two counts can go, both
\* against the rounds begun unheard and, while they keep pace, against each other.
THEOREM ProgramsInvariance == ProgramsSpec => []ProgramsInv
<1>1. ProgramsInit => ProgramsInv
      BY ExercisesStart, WatchdogStart, PongStarts, PairsStart DEF ProgramsInit, ProgramsInv
<1>2. ProgramsInv /\ [ProgramsNext]_programVars => ProgramsInv'
      BY ProgramsAreApart, ExercisesKeep, WatchdogKeeps, PongKeeps, PairsKeep DEF ProgramsInv
<1> QED  BY <1>1, <1>2, PTL DEF ProgramsSpec

\* The two processes of a pair print in turn, by semaphores, by signals or by types of
\* messages, for any number of rounds: ipc_ping.c, ping.c, terminal_ping.c.
THEOREM PlayersTakeTurns == ProgramsSpec => []TurnsAreTaken
<1>1. ProgramsInv => TurnsAreTaken  BY PairsPromise DEF ProgramsInv
<1> QED  BY <1>1, ProgramsInvariance, PTL

\* However many clients there are and wherever they are killed, PingPongServer handles only
\* descriptors that are ready, and only a client that left before its pong ends it.
THEOREM ServerIsReady == ProgramsSpec => []ServerIsNotHeldUp
<1>1. ProgramsInv => ServerIsNotHeldUp  BY PongPromise DEF ProgramsInv
<1> QED  BY <1>1, ProgramsInvariance, PTL

\* CheckAndRevive kills no living process that kept pace, and none that was heard of within
\* as many rounds as its threshold, whatever the two schedulers do; and no SIGUSR1 comes before
\* its handler however often processes are killed once both run.  For any threshold from three
\* up.
THEOREM RevivalsAreDue == ProgramsSpec => []OnlyTheSilentAreRevived
<1>1. ProgramsInv => OnlyTheSilentAreRevived  BY WatchdogPromise DEF ProgramsInv
<1> QED  BY <1>1, ProgramsInvariance, PTL

\* No message of producers_consumers.c is left behind or taken twice (Ex2, Ex3, Ex5, Ex6),
\* for any numbers of threads and messages.
THEOREM MessagesArrive == ProgramsSpec => []MessagesAreConsumed
<1>1. ProgramsInv => MessagesAreConsumed  BY ExercisesPromise DEF ProgramsInv
<1> QED  BY <1>1, ProgramsInvariance, PTL

\* The ring of EX4 is read in the order it was written, and no reader and writer of EX5 are
\* ever at the same slot.
THEOREM RingsAreRespected == ProgramsSpec => []BuffersAreRespected
<1>1. ProgramsInv => BuffersAreRespected  BY ExercisesPromise DEF ProgramsInv
<1> QED  BY <1>1, ProgramsInvariance, PTL

\* The ring of exercise 5 implements the abstract bounded queue: each of its steps is a step
\* of the queue or leaves it alone, and so is each step of another program.
THEOREM ProgramsRingIsAQueue == ProgramsSpec => Ex5ImplementsQueue
<1>1. ProgramsInit => Queue!Init  BY Ex5StartsAQueue DEF ProgramsInit, Init
<1>2. ProgramsInv /\ [ProgramsNext]_programVars => [Queue!Next]_<<Elements5, Returned5>>
      BY ProgramsAreApart, ExercisesQueue DEF ProgramsInv
<1> QED  BY <1>1, <1>2, ProgramsInvariance, PTL
         DEF ProgramsSpec, Ex5ImplementsQueue, Queue!Spec, Elements5, Returned5

=============================================================================
