--------------------------- MODULE AtomicTransfer ---------------------------
(***************************************************************************)
(* What the transfer service promises: money moves from one account to     *)
(* another in one indivisible step, together with the ledger row that      *)
(* records it.  There are no connections, row locks, statements or         *)
(* failures here; a transfer happens completely or not at all.             *)
(***************************************************************************)
EXTENDS Integers

CONSTANTS
    Users,           \* accounts (a row of the users table, named by e-mail)
    Requests,        \* transfer requests; a request moves money at most once
    Amounts,         \* amounts the validation layer lets through, in cents
    InitialBalance,  \* balances before the first transfer, in cents
    MaxBalance       \* the largest value of the balance column, in cents

VARIABLES
    balance,         \* committed balance of every account
    ledger           \* committed rows of the transactions table

abstractVars == <<balance, ledger>>

Row == [id : Requests, sender : Users, receiver : Users, amount : Amounts]

Recorded(r) == \E row \in ledger : row.id = r

Start ==
    /\ balance = InitialBalance
    /\ ledger = {}

Transfer(r, s, t, a) ==
    /\ s # t
    /\ ~Recorded(r)
    /\ balance[s] >= a
    /\ balance[t] + a <= MaxBalance
    /\ balance' = [balance EXCEPT ![s] = @ - a, ![t] = @ + a]
    /\ ledger' = ledger \cup
                   {[id |-> r, sender |-> s, receiver |-> t, amount |-> a]}

TransferNext == \E r \in Requests, s, t \in Users, a \in Amounts : Transfer(r, s, t, a)

AtomicSpec == Start /\ [][TransferNext]_abstractVars
=============================================================================
