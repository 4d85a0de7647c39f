------------------------------ MODULE BankServer ------------------------------
(***************************************************************************)
(* The Bank API as server.js starts it: the handlers of transfers, of      *)
(* authentication and of the dashboard in one Node process on one pool.    *)
(* A transfer and a dashboard need the token of a login; a registration    *)
(* gives an address the row the transfers find.                            *)
(*                                                                         *)
(* SIGTERM closes the HTTP server: no request comes in any more, and the   *)
(* process exits once the last connection is gone, those that Socket.IO    *)
(* has upgraded included.                                                  *)
(***************************************************************************)
EXTENDS AuthService

CONSTANTS
    Dashboards,   \* HTTP requests to GET /api/dashboard
    Mixes         \* bound: what may come in one behaviour, sets of requests, of addresses
                  \* that connect a socket, "SIGTERM" and "FAULT"

ASSUME MixesAssumption ==
    Mixes \subseteq SUBSET (Requests \cup Calls \cup Dashboards \cup Users \cup {"SIGTERM", "FAULT"})

VARIABLES
    dashPc,    \* where each dashboard request is in getUserDashboard
    viewer,    \* whose token it carries
    shown,     \* the balance and the transactions it has read
    sockets,   \* addresses with a Socket.IO client in their room
    coming,    \* what may come in this behaviour
    process    \* "up", "closing" after SIGTERM, "exited"

serverVars == <<dashPc, viewer, shown, sockets, coming, process>>
bankVars == <<vars, authVars, serverVars>>

Nothing == [balance |-> None, rows |-> {}]

BankInit ==
    /\ Init /\ AuthInit
    /\ dashPc = [d \in Dashboards |-> "idle"]
    /\ viewer = [d \in Dashboards |-> None]
    /\ shown = [d \in Dashboards |-> Nothing]
    /\ sockets = {} /\ coming \in Mixes /\ process = "up"

-----------------------------------------------------------------------------
\* authenticateJWT lets the owner of a token through to transferMoney.  The address of the
\* receiver is registered by then, or it is nobody's.
BankSubmit(r) ==
    /\ process = "up" /\ r \in coming /\ Submit(r)
    /\ job'[r].from \in tokens /\ job'[r].to \in Registered \cup Strangers
    /\ UNCHANGED <<authVars, serverVars>>

BankStatement(r) == Statement(r) /\ UNCHANGED <<authVars, serverVars>>

BankReceive(k) == process = "up" /\ k \in coming /\ Receive(k) /\ UNCHANGED <<vars, serverVars>>
BankCallStep(k) == CallStep(k) /\ UNCHANGED <<vars, serverVars>>

BankQueryRejects(k) ==
    /\ "FAULT" \in coming /\ faults < MaxFaults /\ faults' = faults + 1
    /\ QueryRejects(k)
    /\ UNCHANGED <<tables, dbVars, pc, appVars, reply, held, down, pushed, serverVars>>

-----------------------------------------------------------------------------
(* getUserDashboard: two statements through the pool, in two snapshots.    *)

GetDashboard(d) ==
    /\ process = "up" /\ d \in coming /\ dashPc[d] = "idle"
    /\ \E u \in tokens : viewer' = [viewer EXCEPT ![d] = u]
    /\ dashPc' = [dashPc EXCEPT ![d] = "findById"]
    /\ UNCHANGED <<vars, authVars, shown, sockets, coming, process>>

OwnRows(d) == {row \in ledger : viewer[d] \in {row.sender, row.receiver}}

FindById(d) ==
    /\ dashPc[d] = "findById" /\ ConnectionIsFree
    /\ shown' = [shown EXCEPT ![d].balance = balance[viewer[d]]]
    /\ dashPc' = [dashPc EXCEPT ![d] = "findByUserId"]
    /\ UNCHANGED <<vars, authVars, viewer, sockets, coming, process>>

\* Bug: the rows where the user is the receiver are left out.
FindByUserId_SentOnly(d) ==
    /\ dashPc[d] = "findByUserId" /\ ConnectionIsFree
    /\ shown' = [shown EXCEPT ![d].rows = {row \in OwnRows(d) : row.sender = viewer[d]}]
    /\ dashPc' = [dashPc EXCEPT ![d] = "done"]
    /\ UNCHANGED <<vars, authVars, viewer, sockets, coming, process>>

FindByUserId(d) ==
    /\ dashPc[d] = "findByUserId" /\ ConnectionIsFree
    /\ shown' = [shown EXCEPT ![d].rows = OwnRows(d)]
    /\ dashPc' = [dashPc EXCEPT ![d] = "done"]
    /\ UNCHANGED <<vars, authVars, viewer, sockets, coming, process>>

DashboardTimeout(d) ==
    /\ dashPc[d] \in {"findById", "findByUserId"} /\ ~ConnectionIsFree
    /\ dashPc' = [dashPc EXCEPT ![d] = "error"]
    /\ UNCHANGED <<vars, authVars, viewer, shown, sockets, coming, process>>

DashboardStep(d) == FindById(d) \/ FindByUserId(d) \/ DashboardTimeout(d)
DashboardInProgress(d) == dashPc[d] \in {"findById", "findByUserId"}

-----------------------------------------------------------------------------
\* The handshake's token names the room; a client may leave at any time.
JoinRoom(u) == /\ process = "up" /\ u \in (tokens \cap coming) \ sockets
               /\ sockets' = sockets \cup {u}
               /\ UNCHANGED <<vars, authVars, dashPc, viewer, shown, coming, process>>
LeaveRoom(u) == /\ u \in sockets
                /\ sockets' = sockets \ {u}
                /\ UNCHANGED <<vars, authVars, dashPc, viewer, shown, coming, process>>

SIGTERM == /\ "SIGTERM" \in coming /\ process = "up" /\ process' = "closing"
           /\ UNCHANGED <<vars, authVars, dashPc, viewer, shown, sockets, coming>>

NothingInProgress ==
    /\ \A r \in Requests : ~InProgress(r)
    /\ \A k \in Calls : ~CallInProgress(k)
    /\ \A d \in Dashboards : ~DashboardInProgress(d)

\* server.close has seen every connection end: process.exit(0).
Exit == /\ process = "closing" /\ sockets = {} /\ NothingInProgress
        /\ process' = "exited"
        /\ UNCHANGED <<vars, authVars, dashPc, viewer, shown, sockets, coming>>

\* The process is killed and started again by its supervisor: initTables changes no row
\* that exists, and tokens stay valid.
BankCrash ==
    /\ "FAULT" \in coming /\ faults < MaxFaults /\ process # "exited"
    /\ faults' = faults + 1
    /\ pc' = [r \in Requests |-> IF InProgress(r) THEN "dead" ELSE pc[r]]
    /\ down' = down \cup held
    /\ held' = {}
    /\ callPc' = [k \in Calls |-> IF CallInProgress(k) THEN "dead" ELSE callPc[k]]
    /\ dashPc' = [d \in Dashboards |-> IF DashboardInProgress(d) THEN "dead" ELSE dashPc[d]]
    /\ sockets' = {} /\ process' = "up"
    /\ UNCHANGED <<tables, dbVars, appVars, reply, pushed, account, form, callReply, mailed,
                   tokens, viewer, shown, coming>>

-----------------------------------------------------------------------------
BankNext ==
    \/ \E r \in Requests :
         \/ BankSubmit(r) \/ BankStatement(r)
         \/ "FAULT" \in coming /\ LoseConnection(r) /\ UNCHANGED <<authVars, serverVars>>
    \/ \E k \in Calls : BankReceive(k) \/ BankCallStep(k) \/ BankQueryRejects(k)
    \/ \E d \in Dashboards : GetDashboard(d) \/ DashboardStep(d)
    \/ \E u \in Users : JoinRoom(u) \/ LeaveRoom(u)
    \/ SIGTERM \/ Exit \/ BankCrash

\* As in TransferService: the database answers, and the event loop resumes every await.
BankSpec ==
    /\ BankInit /\ [][BankNext]_bankVars
    /\ \A r \in Requests : WF_bankVars(BankStatement(r))
    /\ \A k \in Calls : WF_bankVars(BankCallStep(k))
    /\ \A d \in Dashboards : WF_bankVars(DashboardStep(d))
    /\ WF_bankVars(Exit)

-----------------------------------------------------------------------------
(* Properties.                                                             *)

\* Money leaves an account only after its owner has read the mail of the registration that
\* made it: each token, and each sender in the ledger, belongs to a seeded account or to a
\* verified one whose password and mailed code are of the same registration.
SendersAreVerified ==
    \A u \in (tokens \cup {row.sender : row \in ledger}) \ Seeded :
        /\ account[u] # None /\ account[u].verified
        /\ [to |-> u, code |-> account[u].password] \in mailed

\* The two reads of a dashboard are not of one snapshot; still, whatever transfers commit
\* in between, the balance it shows is the initial one and some of the transactions it
\* shows: no transaction that is in the balance is missing from the list.
DashboardsAreExplained ==
    \A d \in Dashboards : dashPc[d] = "done" =>
        \E rows \in SUBSET shown[d].rows :
            shown[d].balance = BalanceBy(viewer[d], rows)

\* Every transfer, call of authentication and dashboard is answered (or the process was
\* killed under it), opposite transfers that lock each other's rows and a pool whose
\* connections are all lent out included; and after SIGTERM the process exits once its
\* sockets are gone.
EveryRequestIsAnswered ==
    /\ EveryRequestEnds
    /\ \A k \in Calls : (callPc[k] = "find") ~> (callPc[k] \in {"done", "dead"})
    /\ \A d \in Dashboards : (dashPc[d] = "findById") ~> (dashPc[d] \in {"done", "error", "dead"})
    /\ (process = "closing" /\ sockets = {}) ~> (process = "exited" \/ process = "up")
-----------------------------------------------------------------------------
(* The inductive invariant behind them, with those of the parts.           *)

\* Money is only moved by the owner of a token.
SendersOK ==
    /\ \A r \in Requests : pc[r] # "idle" => job[r].from \in tokens
    /\ \A row \in ledger : row.sender \in tokens

\* Between its two statements a dashboard holds a balance that some of the rows explain
\* which the second statement is going to find.
DashboardOK(d) ==
    /\ dashPc[d] # "idle" => viewer[d] \in Users
    /\ dashPc[d] = "findByUserId" =>
         \E rows \in SUBSET OwnRows(d) : shown[d].balance = BalanceBy(viewer[d], rows)
    /\ dashPc[d] = "done" =>
         \E rows \in SUBSET shown[d].rows : shown[d].balance = BalanceBy(viewer[d], rows)

ServerTypeOK ==
    /\ viewer \in [Dashboards -> Users \cup {None}]
    /\ dashPc \in [Dashboards -> {"idle", "findById", "findByUserId", "done", "error", "dead"}]
    /\ shown \in [Dashboards -> [balance : Int \cup {None}, rows : SUBSET Atomic!Row]]

DashboardInv == ServerTypeOK /\ \A d \in Dashboards : DashboardOK(d)
=============================================================================
