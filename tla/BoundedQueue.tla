---------------------------- MODULE BoundedQueue ----------------------------
(***************************************************************************)
(* What a finite synchronised queue promises: a first-in first-out queue   *)
(* of at most Capacity elements, each of which one reader gets.            *)
(***************************************************************************)
EXTENDS Integers, Sequences

CONSTANTS Elements, Capacity, Readers

VARIABLES
    elements,   \* what is in the queue
    returned    \* what each reader has got from it

Init == /\ elements = <<>>
        /\ returned = [r \in Readers |-> <<>>]

Put == /\ Len(elements) < Capacity
       /\ \E e \in Elements : elements' = Append(elements, e)
       /\ UNCHANGED returned

Get(r) == /\ elements # <<>>
          /\ returned' = [returned EXCEPT ![r] = Append(@, Head(elements))]
          /\ elements' = Tail(elements)

Next == Put \/ \E r \in Readers : Get(r)

Spec == Init /\ [][Next]_<<elements, returned>>
=============================================================================
