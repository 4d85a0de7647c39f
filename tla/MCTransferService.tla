------------------------- MODULE MCTransferService -------------------------
(* Constants of the runs of TransferService. *)
EXTENDS TransferService, TLC

CONSTANTS alice, bob, mallory, r1, r2, r3

OneBalance == [u \in Users |-> IF u = alice THEN 2 ELSE 1]

Symmetry == Permutations(Requests)
=============================================================================
