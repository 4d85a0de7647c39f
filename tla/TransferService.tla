--------------------------- MODULE TransferService ---------------------------
(***************************************************************************)
(* TransactionService.transferMoney, run by many concurrent HTTP requests  *)
(* of one Node process against one PostgreSQL database (READ COMMITTED).   *)
(*                                                                         *)
(* Every `await` of the code is a point where other requests run, so every *)
(* statement is an action.  The part of PostgreSQL the code relies on is   *)
(* modelled with it: a row has one committed version (balance) and at most *)
(* one uncommitted version (pending), which belongs to the transaction     *)
(* holding the row lock (owner); an UPDATE waits for that lock and then    *)
(* works on the newest committed version; an error aborts the transaction  *)
(* and frees its locks; the deadlock detector aborts one waiter of a cycle.*)
(* A connection may break at any await, and the Node process may be killed.*)
(***************************************************************************)
EXTENDS Integers, FiniteSets

CONSTANTS
    Users,           \* e-mails with an account
    Strangers,       \* e-mails without one
    Requests,        \* HTTP requests to POST /api/transactions/transfer
    Amounts,         \* amounts, in cents
    InitialBalance,  \* balances at start, in cents
    MaxBalance,      \* NUMERIC(15, 2): the largest balance, in cents
    PoolSize,        \* connections of the pg pool (max)
    MaxFaults,       \* bound on broken connections and process kills
    None             \* "no value": an unlocked row, a job not submitted yet

Emails == Users \cup Strangers

ASSUME AmountsAssumption == Amounts \subseteq Nat \ {0}
ASSUME BalanceAssumption ==
    /\ MaxBalance \in Nat
    /\ InitialBalance \in [Users -> 0 .. MaxBalance]
ASSUME NoneAssumption ==
    None \notin Requests \cup Users \cup Strangers \cup Nat
ASSUME UsersAssumption == Users \cap Strangers = {}
ASSUME SizesAssumption == PoolSize \in Nat \ {0} /\ MaxFaults \in Nat

VARIABLES
    (* the users and transactions tables *)
    balance, ledger,
    (* uncommitted row versions and the transactions that hold them *)
    owner, pending, inserted, session,
    (* the Node process: one activation of transferMoney per request *)
    pc, job, seen, fetched, reply,
    (* the pg pool and the connections that broke while lent out *)
    held, down, faults,
    (* balance_updated events handed to Socket.IO *)
    pushed

tables  == <<balance, ledger>>
dbVars  == <<owner, pending, inserted, session>>
appVars == <<job, seen, fetched>>
vars    == <<balance, ledger, owner, pending, inserted, session, pc, job,
             seen, fetched, reply, held, down, faults, pushed>>

Atomic == INSTANCE AtomicTransfer

Jobs == [from : Users, to : Emails, amount : Amounts]

Labels == {"idle", "connect", "begin", "findSender", "findReceiver", "debit",
           "credit", "fetch", "insert", "commit", "rollback", "done", "dead"}

InProgress(r) == pc[r] \notin {"idle", "done", "dead"}

-----------------------------------------------------------------------------
(* PostgreSQL, as far as the statements of transferMoney use it.           *)

\* The version of u's row a statement of r's transaction works on.
Current(r, u) == IF owner[u] = r THEN pending[u] ELSE balance[u]

\* The locks of r's transaction go, and its row versions with them.
FreeRows(r) == owner' = [u \in Users |-> IF owner[u] = r THEN None ELSE owner[u]]

\* A statement failed: the transaction is aborted on the spot, but the session
\* answers nothing except ROLLBACK until it gets one.
AbortTransaction(r) ==
    /\ session' = [session EXCEPT ![r] = "failed"]
    /\ inserted' = inserted \ {r}
    /\ FreeRows(r)
    /\ UNCHANGED pending

\* UPDATE users SET balance = new WHERE id = u.  The column type and
\* CHECK (balance >= 0) bound the new value.
UpdateBalance(r, u, new, next) ==
    /\ owner[u] \in {None, r}
    /\ \/ /\ new \in 0 .. MaxBalance
          /\ owner' = [owner EXCEPT ![u] = r]
          /\ pending' = [pending EXCEPT ![u] = new]
          /\ pc' = [pc EXCEPT ![r] = next]
          /\ UNCHANGED <<inserted, session>>
       \/ /\ new \notin 0 .. MaxBalance
          /\ AbortTransaction(r)
          /\ pc' = [pc EXCEPT ![r] = "rollback"]

\* The row the UPDATE in flight is for, and whether it waits for another transaction.
Wanted(r)  == IF pc[r] = "debit" THEN job[r].from ELSE job[r].to
Blocked(r) == pc[r] \in {"debit", "credit"} /\ owner[Wanted(r)] \notin {None, r}

\* r waits in a cycle: a set of waiters, each waiting for another of them.
InDeadlock(r) ==
    \E S \in SUBSET Requests :
        /\ r \in S
        /\ \A q \in S : Blocked(q)
        /\ {owner[Wanted(q)] : q \in S} = S

-----------------------------------------------------------------------------
(* transferMoney, statement by statement.                                  *)

Init ==
    /\ balance = InitialBalance
    /\ ledger = {}
    /\ owner = [u \in Users |-> None]
    /\ pending = InitialBalance
    /\ inserted = {}
    /\ session = [r \in Requests |-> "none"]
    /\ pc = [r \in Requests |-> "idle"]
    /\ job = [r \in Requests |-> None]
    /\ seen = [r \in Requests |-> None]
    /\ fetched = [r \in Requests |-> None]
    /\ reply = [r \in Requests |-> "none"]
    /\ held = {}
    /\ down = {}
    /\ faults = 0
    /\ pushed = {}

\* Bug: the same-account check is missing.
Submit_SelfTransfer(r) ==
    /\ pc[r] = "idle"
    /\ \E j \in Jobs : job' = [job EXCEPT ![r] = j]
    /\ pc' = [pc EXCEPT ![r] = "connect"]
    /\ UNCHANGED <<tables, dbVars, seen, fetched, reply, held, down, faults, pushed>>

\* processTransfer calls transferMoney; the same account twice is refused before
\* a connection is taken.
Submit(r) ==
    /\ pc[r] = "idle"
    /\ \E j \in Jobs :
         /\ job' = [job EXCEPT ![r] = j]
         /\ \/ /\ j.from = j.to
               /\ pc' = [pc EXCEPT ![r] = "done"]
               /\ reply' = [reply EXCEPT ![r] = "error"]
            \/ /\ j.from # j.to
               /\ pc' = [pc EXCEPT ![r] = "connect"]
               /\ UNCHANGED reply
    /\ UNCHANGED <<tables, dbVars, seen, fetched, held, down, faults, pushed>>

\* await dbPool.connect(): an idle connection is lent out, ...
Connect(r) ==
    /\ pc[r] = "connect"
    /\ Cardinality(held) < PoolSize
    /\ held' = held \cup {r}
    /\ pc' = [pc EXCEPT ![r] = "begin"]
    /\ UNCHANGED <<tables, dbVars, appVars, reply, down, faults, pushed>>

\* ... or none becomes idle within connectionTimeoutMillis and connect() rejects.
ConnectTimeout(r) ==
    /\ pc[r] = "connect"
    /\ Cardinality(held) >= PoolSize
    /\ pc' = [pc EXCEPT ![r] = "done"]
    /\ reply' = [reply EXCEPT ![r] = "error"]
    /\ UNCHANGED <<tables, dbVars, appVars, held, down, faults, pushed>>

Begin(r) ==
    /\ pc[r] = "begin"
    /\ session' = [session EXCEPT ![r] = "open"]
    /\ pc' = [pc EXCEPT ![r] = "findSender"]
    /\ UNCHANGED <<tables, owner, pending, inserted, appVars, reply, held, down,
                   faults, pushed>>

\* The sender's row is read without a lock.
FindSender(r) ==
    /\ pc[r] = "findSender"
    /\ seen' = [seen EXCEPT ![r] = Current(r, job[r].from)]
    /\ pc' = [pc EXCEPT ![r] = "findReceiver"]
    /\ UNCHANGED <<tables, dbVars, job, fetched, reply, held, down, faults, pushed>>

\* The receiver's row, then the checks, which run without an await: both accounts
\* exist, and the balance read in the previous step covers the amount.
FindReceiver(r) ==
    /\ pc[r] = "findReceiver"
    /\ IF job[r].to \in Users /\ seen[r] >= job[r].amount
       THEN pc' = [pc EXCEPT ![r] = "debit"]
       ELSE pc' = [pc EXCEPT ![r] = "rollback"]
    /\ UNCHANGED <<tables, dbVars, appVars, reply, held, down, faults, pushed>>

\* Bug: the new balance is computed from the one read earlier (a lost update).
Debit_FromRead(r) ==
    /\ pc[r] = "debit"
    /\ UpdateBalance(r, job[r].from, seen[r] - job[r].amount, "credit")
    /\ UNCHANGED <<tables, appVars, reply, held, down, faults, pushed>>

Debit(r) ==
    /\ pc[r] = "debit"
    /\ UpdateBalance(r, job[r].from, Current(r, job[r].from) - job[r].amount, "credit")
    /\ UNCHANGED <<tables, appVars, reply, held, down, faults, pushed>>

Credit(r) ==
    /\ pc[r] = "credit"
    /\ UpdateBalance(r, job[r].to, Current(r, job[r].to) + job[r].amount, "fetch")
    /\ UNCHANGED <<tables, appVars, reply, held, down, faults, pushed>>

\* Bug: the receiver's balance is read through the pool, outside the transaction.
FetchReceiver_ThroughPool(r) ==
    /\ pc[r] = "fetch"
    /\ fetched' = [fetched EXCEPT ![r] = balance[job[r].to]]
    /\ pc' = [pc EXCEPT ![r] = "insert"]
    /\ UNCHANGED <<tables, dbVars, job, seen, reply, held, down, faults, pushed>>

\* SELECT balance, on the transaction's own connection.
FetchReceiver(r) ==
    /\ pc[r] = "fetch"
    /\ fetched' = [fetched EXCEPT ![r] = Current(r, job[r].to)]
    /\ pc' = [pc EXCEPT ![r] = "insert"]
    /\ UNCHANGED <<tables, dbVars, job, seen, reply, held, down, faults, pushed>>

\* Bug: the event is emitted before COMMIT is sent.
InsertRow_EmitsEarly(r) ==
    /\ pc[r] = "insert"
    /\ inserted' = inserted \cup {r}
    /\ session' = [session EXCEPT ![r] = "committing"]
    /\ pc' = [pc EXCEPT ![r] = "commit"]
    /\ pushed' = pushed \cup {[id |-> r, to |-> job[r].to, balance |-> fetched[r]]}
    /\ UNCHANGED <<tables, owner, pending, appVars, reply, held, down, faults>>

\* Bug: COMMIT is forgotten; the client is released inside its transaction.
InsertRow_NoCommit(r) ==
    /\ pc[r] = "insert"
    /\ inserted' = inserted \cup {r}
    /\ pc' = [pc EXCEPT ![r] = "done"]
    /\ reply' = [reply EXCEPT ![r] = "ok"]
    /\ held' = held \ {r}
    /\ UNCHANGED <<tables, owner, pending, session, appVars, down, faults, pushed>>

\* transactionRepository.create answers and COMMIT is sent.
InsertRow(r) ==
    /\ pc[r] = "insert"
    /\ inserted' = inserted \cup {r}
    /\ session' = [session EXCEPT ![r] = "committing"]
    /\ pc' = [pc EXCEPT ![r] = "commit"]
    /\ UNCHANGED <<tables, owner, pending, appVars, reply, held, down, faults, pushed>>

LedgerRow(r) == [id |-> r, sender |-> job[r].from, receiver |-> job[r].to,
                 amount |-> job[r].amount]

\* The server executes COMMIT, whether or not the answer will reach the client.
Commit(r) ==
    /\ session[r] = "committing"
    /\ balance' = [u \in Users |-> Current(r, u)]
    /\ ledger' = IF r \in inserted THEN ledger \cup {LedgerRow(r)} ELSE ledger
    /\ inserted' = inserted \ {r}
    /\ session' = [session EXCEPT ![r] = "none"]
    /\ FreeRows(r)
    /\ UNCHANGED <<pending, pc, appVars, reply, held, down, faults, pushed>>

\* Bug: COMMIT is not awaited.
Finish_NotAwaited(r) ==
    /\ pc[r] = "commit"
    /\ held' = held \ {r}
    /\ pc' = [pc EXCEPT ![r] = "done"]
    /\ reply' = [reply EXCEPT ![r] = "ok"]
    /\ UNCHANGED <<tables, dbVars, appVars, down, faults, pushed>>

\* COMMIT is answered: emit balance_updated, release the client, answer 200.
Finish(r) ==
    /\ pc[r] = "commit" /\ session[r] = "none"
    /\ pushed' = pushed \cup {[id |-> r, to |-> job[r].to, balance |-> fetched[r]]}
    /\ held' = held \ {r}
    /\ pc' = [pc EXCEPT ![r] = "done"]
    /\ reply' = [reply EXCEPT ![r] = "ok"]
    /\ UNCHANGED <<tables, dbVars, appVars, down, faults>>

\* Bug: the catch block forgets ROLLBACK.
Rollback_Forgotten(r) ==
    /\ pc[r] = "rollback" /\ r \notin down
    /\ held' = held \ {r}
    /\ pc' = [pc EXCEPT ![r] = "done"]
    /\ reply' = [reply EXCEPT ![r] = "failed"]
    /\ UNCHANGED <<tables, dbVars, appVars, down, faults, pushed>>

\* The catch and finally blocks: ROLLBACK, 'Transfer failed: ...', release.
Rollback(r) ==
    /\ pc[r] = "rollback" /\ r \notin down
    /\ session' = [session EXCEPT ![r] = "none"]
    /\ inserted' = inserted \ {r}
    /\ FreeRows(r)
    /\ held' = held \ {r}
    /\ pc' = [pc EXCEPT ![r] = "done"]
    /\ reply' = [reply EXCEPT ![r] = "failed"]
    /\ UNCHANGED <<tables, pending, appVars, down, faults, pushed>>

\* On a broken connection ROLLBACK rejects too: its error leaves the catch block
\* in place of 'Transfer failed', and finally still releases the client.
RollbackRejected(r) ==
    /\ pc[r] = "rollback" /\ r \in down
    /\ held' = held \ {r}
    /\ pc' = [pc EXCEPT ![r] = "done"]
    /\ reply' = [reply EXCEPT ![r] = "error"]
    /\ UNCHANGED <<tables, dbVars, appVars, down, faults, pushed>>

-----------------------------------------------------------------------------
(* The environment.                                                        *)

\* The detector aborts r's transaction: its UPDATE rejects with 40P01.
DeadlockAbort(r) ==
    /\ InDeadlock(r)
    /\ AbortTransaction(r)
    /\ pc' = [pc EXCEPT ![r] = "rollback"]
    /\ UNCHANGED <<tables, appVars, reply, held, down, faults, pushed>>

\* The connection breaks: the statement in flight rejects in the client.
LoseConnection(r) ==
    /\ r \in held \ down
    /\ faults < MaxFaults
    /\ faults' = faults + 1
    /\ down' = down \cup {r}
    /\ pc' = [pc EXCEPT ![r] = "rollback"]
    /\ UNCHANGED <<tables, dbVars, appVars, reply, held, pushed>>

\* The Node process is killed and started again with an empty pool.
Crash ==
    /\ faults < MaxFaults
    /\ \E r \in Requests : InProgress(r)
    /\ faults' = faults + 1
    /\ pc' = [r \in Requests |-> IF InProgress(r) THEN "dead" ELSE pc[r]]
    /\ down' = down \cup held
    /\ held' = {}
    /\ UNCHANGED <<tables, dbVars, appVars, reply, pushed>>

\* The server notices that the client is gone and ends the session.
EndSession(r) ==
    /\ r \in down /\ session[r] # "none"
    /\ session' = [session EXCEPT ![r] = "none"]
    /\ inserted' = inserted \ {r}
    /\ FreeRows(r)
    /\ UNCHANGED <<tables, pending, pc, appVars, reply, held, down, faults, pushed>>

-----------------------------------------------------------------------------
Statement(r) ==
    \/ Connect(r) \/ ConnectTimeout(r) \/ Begin(r) \/ FindSender(r)
    \/ FindReceiver(r) \/ Debit(r) \/ Credit(r) \/ FetchReceiver(r)
    \/ InsertRow(r) \/ Commit(r) \/ Finish(r) \/ Rollback(r)
    \/ RollbackRejected(r) \/ DeadlockAbort(r) \/ EndSession(r)

\* Every request answered or cut off, every session closed: nothing is left to do.
Quiet ==
    /\ \A r \in Requests : pc[r] \in {"done", "dead"} /\ session[r] = "none"
    /\ UNCHANGED vars

Next ==
    \/ \E r \in Requests : Submit(r) \/ Statement(r) \/ LoseConnection(r)
    \/ Crash
    \/ Quiet

Spec == Init /\ [][Next]_vars

\* PostgreSQL answers statements and resolves deadlocks, the event loop resumes
\* every settled await; nothing obliges a client to send a request.
FairSpec == Spec /\ \A r \in Requests : WF_vars(Statement(r))
-----------------------------------------------------------------------------
(* Properties.                                                             *)

TypeOK ==
    /\ balance \in [Users -> 0 .. MaxBalance]
    /\ ledger \subseteq Atomic!Row
    /\ owner \in [Users -> Requests \cup {None}]
    /\ pending \in [Users -> 0 .. MaxBalance]
    /\ inserted \subseteq Requests
    /\ session \in [Requests -> {"none", "open", "failed", "committing"}]
    /\ pc \in [Requests -> Labels]
    /\ job \in [Requests -> Jobs \cup {None}]
    /\ seen \in [Requests -> (0 .. MaxBalance) \cup {None}]
    /\ fetched \in [Requests -> (0 .. MaxBalance) \cup {None}]
    /\ reply \in [Requests -> {"none", "ok", "failed", "error"}]
    /\ held \subseteq Requests
    /\ down \subseteq Requests
    /\ faults \in 0 .. MaxFaults
    /\ pushed \subseteq [id : Requests, to : Emails, balance : 0 .. MaxBalance]

\* The amounts of a set of rows, added up: a row of n cents has n of them to count.
Cents(rows) == UNION {{row} \X (1 .. row.amount) : row \in rows}
Total(rows) == Cardinality(Cents(rows))

\* u's balance as a set of rows tells it: the initial one plus what came in minus what
\* went out.
BalanceBy(u, rows) == InitialBalance[u] + Total({row \in rows : row.receiver = u})
                                        - Total({row \in rows : row.sender = u})

\* The ledger is the account: at every moment each committed balance is what the ledger
\* says it is, whatever transfers overlap, fail, deadlock or lose their connection half
\* way.
LedgerExplainsBalances == \A u \in Users : balance[u] = BalanceBy(u, ledger)

\* A row lock is only ever held by a transaction that is still open, and an answered
\* request leaves neither an open transaction on the connection it returned nor the
\* connection out of the pool: the next borrower starts clean.  (A broken connection
\* is dropped by the pool; the server ends its session by itself.)
ReturnedConnectionsAreClean ==
    /\ \A u \in Users : owner[u] # None => session[owner[u]] \in {"open", "committing"}
    /\ \A r \in Requests \ down :
         /\ session[r] # "none" => r \in held
         /\ r \in held => InProgress(r)

\* What the caller is told is what happened: 200 only for a transfer that is in the
\* ledger, and 'Transfer failed' (400) only for one that is not there and whose
\* transaction is over, so it never will be.
RepliesMatchLedger ==
    \A r \in Requests :
        /\ reply[r] = "ok" => LedgerRow(r) \in ledger
        /\ reply[r] = "failed" => ~Atomic!Recorded(r) /\ session[r] = "none"

\* No event for a transfer that could still be rolled back: balance_updated reaches
\* the receiver named in a committed row only, with the balance read before COMMIT.
PushedTransfersAreCommitted ==
    \A e \in pushed :
        \E row \in ledger : row.id = e.id /\ row.receiver = e.to /\ e.balance = fetched[e.id]

\* "The exact updated balance": the balance read inside the transaction, which the
\* event carries, is the receiver's balance at the moment the transfer commits,
\* however many other transfers to or from the receiver are in flight.
FetchedBalanceIsExact ==
    [][\A r \in Requests :
         (Atomic!Recorded(r)' /\ ~Atomic!Recorded(r)) => fetched[r] = balance'[job[r].to]]_vars

\* transferMoney implements the indivisible transfer: every step either changes
\* neither table or is exactly one covered transfer between two accounts, recorded.
ImplementsAtomicTransfer == Atomic!AtomicSpec

\* Every request that came in is answered (or the process was killed under it): no
\* wait for a connection, a row lock or an opposite transfer lasts for ever.
EveryRequestEnds ==
    \A r \in Requests : (pc[r] = "connect") ~> (pc[r] \in {"done", "dead"})

\* The catch block's comment, read literally: once transferMoney has thrown, the
\* transfer has no effect on any table.
ThrownTransfersAreReverted ==
    \A r \in Requests : reply[r] \in {"failed", "error"} => ~Atomic!Recorded(r)
-----------------------------------------------------------------------------
(* The inductive invariant behind the properties: where a request stands in *)
(* the code determines what its transaction has done and which rows it owns.*)

OwnsOnly(r, rows) == \A u \in Users : owner[u] = r => u \in rows

Debited(r) ==
    /\ owner[job[r].from] = r
    /\ pending[job[r].from] = balance[job[r].from] - job[r].amount

Credited(r) ==
    /\ owner[job[r].to] = r
    /\ pending[job[r].to] = balance[job[r].to] + job[r].amount

Applied(r) == Debited(r) /\ Credited(r) /\ OwnsOnly(r, {job[r].from, job[r].to})

\* The submitted transfer is between two accounts once the checks are passed.
JobOK(r) ==
    /\ pc[r] # "idle" => job[r] \in Jobs
    /\ pc[r] \notin {"idle", "done"} \/ session[r] # "none" => job[r].from # job[r].to
    /\ pc[r] \in {"debit", "credit", "fetch", "insert", "commit"} => job[r].to \in Users

\* Rows are owned, and COMMIT is in flight, only as the session says.
SessionOK(r) ==
    /\ session[r] \in {"none", "failed"} => OwnsOnly(r, {})
    /\ session[r] # "none" => pc[r] \notin {"idle", "connect", "begin"}
    /\ session[r] = "committing" =>
         /\ job[r].to \in Users /\ Applied(r)
         /\ fetched[r] = pending[job[r].to]
         /\ r \in inserted

\* Position in the code, on a connection that is up.
StageOK(r) == r \notin down =>
    /\ pc[r] \in {"findSender", "findReceiver", "debit"} => OwnsOnly(r, {})
    /\ pc[r] \in {"findSender", "findReceiver", "debit", "credit", "fetch", "insert"} =>
         session[r] = "open"
    /\ pc[r] = "findReceiver" => seen[r] # None
    /\ pc[r] = "credit" => Debited(r) /\ OwnsOnly(r, {job[r].from})
    /\ pc[r] \in {"fetch", "insert"} => Applied(r)
    /\ pc[r] = "insert" => fetched[r] = pending[job[r].to]
    /\ pc[r] = "commit" =>
         /\ fetched[r] # None
         /\ session[r] = "committing" \/ (session[r] = "none" /\ LedgerRow(r) \in ledger)
    /\ pc[r] = "rollback" => session[r] \in {"open", "failed"}
    /\ pc[r] \in {"done", "dead"} => session[r] = "none"

\* Ledger rows: written by requests whose transaction is over, with their job in it.
LedgerOK(r) ==
    /\ Atomic!Recorded(r) => session[r] = "none" /\ LedgerRow(r) \in ledger
    /\ Atomic!Recorded(r) => pc[r] \in {"commit", "rollback", "done", "dead"}

\* The pool's view: a lent connection belongs to a running request, a broken one to
\* a request that has nothing left but to fail.
PoolOK(r) ==
    /\ r \in held => pc[r] \notin {"idle", "connect", "done", "dead"}
    /\ r \in down => pc[r] \in {"rollback", "done", "dead"}
    /\ pc[r] \notin {"idle", "connect", "done", "dead"} => r \in held

ReplyOK(r) ==
    /\ reply[r] # "none" => pc[r] = "done"
    /\ reply[r] = "ok" => LedgerRow(r) \in ledger
    /\ reply[r] = "failed" => ~Atomic!Recorded(r) /\ session[r] = "none"

IndInv ==
    /\ TypeOK
    /\ \A r \in Requests : JobOK(r) /\ SessionOK(r) /\ StageOK(r)
                            /\ LedgerOK(r) /\ PoolOK(r) /\ ReplyOK(r)
    /\ PushedTransfersAreCommitted
=============================================================================
