----------------------------- MODULE MCBankServer -----------------------------
(* Constants of the run of BankServer. *)
EXTENDS BankServer, TLC

CONSTANTS alice, bob, carol, r1, r2, k1, k2, k3, k4, d1

OneBalance == [u \in Users |-> IF u = alice THEN 2 ELSE 1]

KindOfCall == [k \in Calls |-> CASE k \in {k1, k2} -> "register" [] k = k3 -> "verify" [] k = k4 -> "login"]
\* Two transfers fill the pool: what comes with them finds no connection.
TheMixes == {{r1, r2, "FAULT"}, {r1, r2, d1}, {r1, r2, k1},
             {r1, k1, d1, "FAULT"}, {r1, k1, bob, "SIGTERM", "FAULT"},
             {k1, k2, k3, k4, "FAULT"}, {k1, k3, k4, r1, "FAULT"}}
=============================================================================
