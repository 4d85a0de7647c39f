------------------------------ MODULE ByteQueue ------------------------------
(***************************************************************************)
(* What circular_buffer.h promises: bytes are read in the order they were  *)
(* written, a write takes as many as there is space for, a read gives as   *)
(* many as there are, and both say how many.                               *)
(*                                                                         *)
(* While the queue is astray the promise is kept in number only: which     *)
(* bytes it holds is open.  An empty queue is not astray.                  *)
(***************************************************************************)
EXTENDS Integers, SequencesExt, FiniteSetsExt

CONSTANTS Bytes, MaxCall, Space

VARIABLES held, reply, astray

Taken(src) == SubSeq(src, 1, Min({Len(src), Space - Len(held)}))
Given(n) == SubSeq(held, 1, Min({n, Len(held)}))
Kept(n) == SubSeq(held, Len(Given(n)) + 1, Len(held))

Init == held = <<>> /\ reply = <<>> /\ astray = FALSE

Write(src) == /\ reply' = <<"write", src, Len(Taken(src))>>
              /\ Len(held') = Len(held) + Len(Taken(src))
              /\ astray \/ held' = held \o Taken(src)

Read(n) == /\ reply' = <<"read", Given(n), Len(Given(n))>>
           /\ Len(held') = Len(Kept(n))
           /\ astray \/ held' = Kept(n)

Flush == held' = <<>> /\ reply' = <<>>

Next == /\ held' = <<>> => astray' = FALSE
        /\ \/ Flush
           \/ \E src \in BoundedSeq(Bytes, MaxCall) : Write(src)
           \/ \E n \in 0 .. MaxCall : Read(n)

Spec == Init /\ [][Next]_<<held, reply, astray>>
=============================================================================
