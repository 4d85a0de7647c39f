------------------------ MODULE TransferServiceProofs ------------------------
(***************************************************************************)
(* Proofs about TransferService, for any sets of accounts and requests,    *)
(* any pool size and any number of faults.  Every action gets a lemma that *)
(* it preserves the inductive invariant IndInv, one step per conjunct; the *)
(* theorems at the end read the properties off the invariant.              *)
(***************************************************************************)
EXTENDS TransferService, FiniteSetTheorems, TLAPS

USE AmountsAssumption, BalanceAssumption, NoneAssumption, UsersAssumption, SizesAssumption

\* A new request has no transaction and no connection.
LEMMA SubmitStep == ASSUME IndInv, NEW r \in Requests, Submit(r) PROVE IndInv'
<1> USE DEF IndInv
<1>1. TypeOK'
  BY DEF Submit, tables, dbVars, appVars, TypeOK, Labels
<1>2. ASSUME NEW q \in Requests PROVE JobOK(q)'
  BY DEF Submit, tables, dbVars, appVars, TypeOK, JobOK, SessionOK, Jobs, Emails
<1>3. ASSUME NEW q \in Requests PROVE SessionOK(q)'
  BY DEF Submit, tables, dbVars, appVars, TypeOK, SessionOK, Applied, Debited,
         Credited, OwnsOnly, Jobs
<1>4. ASSUME NEW q \in Requests PROVE StageOK(q)'
  <2>1. CASE q = r
    <3>1. session'[r] = "none"
      BY DEF Submit, dbVars, TypeOK, SessionOK
    <3>2. pc'[r] \in {"connect", "done"}
      BY DEF Submit, TypeOK
    <3>3. QED
      BY <2>1, <3>1, <3>2 DEF StageOK
  <2>2. CASE q # r
    BY <2>2 DEF Submit, tables, dbVars, TypeOK, StageOK, Applied, Debited, Credited, OwnsOnly, LedgerRow, Atomic!Recorded
  <2>3. QED
    BY <2>1, <2>2
<1>5. ASSUME NEW q \in Requests PROVE LedgerOK(q)'
  BY DEF Submit, tables, dbVars, appVars, TypeOK, LedgerOK, LedgerRow,
         Atomic!Recorded
<1>6. ASSUME NEW q \in Requests PROVE PoolOK(q)'
  BY DEF Submit, tables, dbVars, appVars, TypeOK, PoolOK
<1>7. ASSUME NEW q \in Requests PROVE ReplyOK(q)'
  <2>1. CASE q = r
    BY <2>1 DEF Submit, tables, dbVars, TypeOK, ReplyOK
  <2>2. CASE q # r
    BY <2>2 DEF Submit, tables, dbVars, TypeOK, ReplyOK, LedgerRow, Atomic!Recorded
  <2>3. QED
    BY <2>1, <2>2
<1>8. PushedTransfersAreCommitted'
  BY DEF Submit, tables, dbVars, appVars, TypeOK, PushedTransfersAreCommitted,
         LedgerRow, Atomic!Recorded
<1>9. QED
  BY <1>1, <1>2, <1>3, <1>4, <1>5, <1>6, <1>7, <1>8

\* A lent connection belongs to a request that is running.
LEMMA ConnectStep == ASSUME IndInv, NEW r \in Requests, Connect(r) PROVE IndInv'
<1> USE DEF IndInv
<1>1. TypeOK'
  BY DEF Connect, tables, dbVars, appVars, TypeOK, Labels
<1>2. ASSUME NEW q \in Requests PROVE JobOK(q)'
  BY DEF Connect, tables, dbVars, appVars, TypeOK, JobOK, SessionOK, Jobs, Emails
<1>3. ASSUME NEW q \in Requests PROVE SessionOK(q)'
  BY DEF Connect, tables, dbVars, appVars, TypeOK, SessionOK, Applied, Debited,
         Credited, OwnsOnly
<1>4. ASSUME NEW q \in Requests PROVE StageOK(q)'
  BY DEF Connect, tables, dbVars, appVars, TypeOK, StageOK, SessionOK, JobOK,
         LedgerOK, PoolOK, Applied, Debited, Credited, OwnsOnly, Current, Jobs,
         LedgerRow, Atomic!Recorded
<1>5. ASSUME NEW q \in Requests PROVE LedgerOK(q)'
  BY DEF Connect, tables, dbVars, appVars, TypeOK, LedgerOK, LedgerRow,
         Atomic!Recorded
<1>6. ASSUME NEW q \in Requests PROVE PoolOK(q)'
  BY DEF Connect, tables, dbVars, appVars, TypeOK, PoolOK
<1>7. ASSUME NEW q \in Requests PROVE ReplyOK(q)'
  BY DEF Connect, tables, dbVars, appVars, TypeOK, ReplyOK, LedgerOK, LedgerRow,
         Atomic!Recorded
<1>8. PushedTransfersAreCommitted'
  BY DEF Connect, tables, dbVars, appVars, TypeOK, PushedTransfersAreCommitted,
         LedgerRow, Atomic!Recorded
<1>9. QED
  BY <1>1, <1>2, <1>3, <1>4, <1>5, <1>6, <1>7, <1>8

\* A request without a connection ends without a transaction.
LEMMA ConnectTimeoutStep == ASSUME IndInv, NEW r \in Requests, ConnectTimeout(r) PROVE IndInv'
<1> USE DEF IndInv
<1>1. TypeOK'
  BY DEF ConnectTimeout, tables, dbVars, appVars, TypeOK, Labels
<1>2. ASSUME NEW q \in Requests PROVE JobOK(q)'
  BY DEF ConnectTimeout, tables, dbVars, appVars, TypeOK, JobOK, SessionOK, Jobs,
         Emails
<1>3. ASSUME NEW q \in Requests PROVE SessionOK(q)'
  BY DEF ConnectTimeout, tables, dbVars, appVars, TypeOK, SessionOK, Applied,
         Debited, Credited, OwnsOnly
<1>4. ASSUME NEW q \in Requests PROVE StageOK(q)'
  BY DEF ConnectTimeout, tables, dbVars, appVars, TypeOK, StageOK, SessionOK,
         JobOK, LedgerOK, PoolOK, Applied, Debited, Credited, OwnsOnly, Current,
         Jobs, LedgerRow, Atomic!Recorded
<1>5. ASSUME NEW q \in Requests PROVE LedgerOK(q)'
  BY DEF ConnectTimeout, tables, dbVars, appVars, TypeOK, LedgerOK, LedgerRow,
         Atomic!Recorded
<1>6. ASSUME NEW q \in Requests PROVE PoolOK(q)'
  BY DEF ConnectTimeout, tables, dbVars, appVars, TypeOK, PoolOK
<1>7. ASSUME NEW q \in Requests PROVE ReplyOK(q)'
  BY DEF ConnectTimeout, tables, dbVars, appVars, TypeOK, ReplyOK, LedgerOK,
         LedgerRow, Atomic!Recorded
<1>8. PushedTransfersAreCommitted'
  BY DEF ConnectTimeout, tables, dbVars, appVars, TypeOK,
         PushedTransfersAreCommitted, LedgerRow, Atomic!Recorded
<1>9. QED
  BY <1>1, <1>2, <1>3, <1>4, <1>5, <1>6, <1>7, <1>8

\* BEGIN opens a transaction that owns nothing.
LEMMA BeginStep == ASSUME IndInv, NEW r \in Requests, Begin(r) PROVE IndInv'
<1> USE DEF IndInv
<1>1. TypeOK'
  BY DEF Begin, tables, dbVars, appVars, TypeOK, Labels
<1>2. ASSUME NEW q \in Requests PROVE JobOK(q)'
  BY DEF Begin, tables, dbVars, appVars, TypeOK, JobOK, SessionOK, Jobs, Emails
<1>3. ASSUME NEW q \in Requests PROVE SessionOK(q)'
  BY DEF Begin, tables, dbVars, appVars, TypeOK, SessionOK, Applied, Debited,
         Credited, OwnsOnly
<1>4. ASSUME NEW q \in Requests PROVE StageOK(q)'
  BY DEF Begin, tables, dbVars, appVars, TypeOK, StageOK, SessionOK, JobOK,
         LedgerOK, PoolOK, Applied, Debited, Credited, OwnsOnly, Current, Jobs,
         LedgerRow, Atomic!Recorded
<1>5. ASSUME NEW q \in Requests PROVE LedgerOK(q)'
  BY DEF Begin, tables, dbVars, appVars, TypeOK, LedgerOK, LedgerRow,
         Atomic!Recorded
<1>6. ASSUME NEW q \in Requests PROVE PoolOK(q)'
  BY DEF Begin, tables, dbVars, appVars, TypeOK, PoolOK
<1>7. ASSUME NEW q \in Requests PROVE ReplyOK(q)'
  BY DEF Begin, tables, dbVars, appVars, TypeOK, ReplyOK, LedgerOK, LedgerRow,
         Atomic!Recorded
<1>8. PushedTransfersAreCommitted'
  BY DEF Begin, tables, dbVars, appVars, TypeOK, PushedTransfersAreCommitted,
         LedgerRow, Atomic!Recorded
<1>9. QED
  BY <1>1, <1>2, <1>3, <1>4, <1>5, <1>6, <1>7, <1>8

\* Reading the sender changes no table.
LEMMA FindSenderStep == ASSUME IndInv, NEW r \in Requests, FindSender(r) PROVE IndInv'
<1> USE DEF IndInv
<1>1. TypeOK'
  BY DEF FindSender, tables, dbVars, appVars, TypeOK, Labels, Current, JobOK, Jobs
<1>2. ASSUME NEW q \in Requests PROVE JobOK(q)'
  BY DEF FindSender, tables, dbVars, appVars, TypeOK, JobOK, SessionOK, Jobs, Emails
<1>3. ASSUME NEW q \in Requests PROVE SessionOK(q)'
  BY DEF FindSender, tables, dbVars, appVars, TypeOK, SessionOK, Applied, Debited,
         Credited, OwnsOnly
<1>4. ASSUME NEW q \in Requests PROVE StageOK(q)'
  BY DEF FindSender, tables, dbVars, appVars, TypeOK, StageOK, SessionOK, JobOK,
         LedgerOK, PoolOK, Applied, Debited, Credited, OwnsOnly, Current, Jobs,
         LedgerRow, Atomic!Recorded
<1>5. ASSUME NEW q \in Requests PROVE LedgerOK(q)'
  BY DEF FindSender, tables, dbVars, appVars, TypeOK, LedgerOK, LedgerRow,
         Atomic!Recorded
<1>6. ASSUME NEW q \in Requests PROVE PoolOK(q)'
  BY DEF FindSender, tables, dbVars, appVars, TypeOK, PoolOK
<1>7. ASSUME NEW q \in Requests PROVE ReplyOK(q)'
  BY DEF FindSender, tables, dbVars, appVars, TypeOK, ReplyOK, LedgerOK, LedgerRow,
         Atomic!Recorded
<1>8. PushedTransfersAreCommitted'
  BY DEF FindSender, tables, dbVars, appVars, TypeOK, PushedTransfersAreCommitted,
         LedgerRow, Atomic!Recorded
<1>9. QED
  BY <1>1, <1>2, <1>3, <1>4, <1>5, <1>6, <1>7, <1>8

\* The checks let only transfers between two accounts through.
LEMMA FindReceiverStep == ASSUME IndInv, NEW r \in Requests, FindReceiver(r) PROVE IndInv'
<1> USE DEF IndInv
<1>1. TypeOK'
  BY DEF FindReceiver, tables, dbVars, appVars, TypeOK, Labels
<1>2. ASSUME NEW q \in Requests PROVE JobOK(q)'
  BY DEF FindReceiver, tables, dbVars, appVars, TypeOK, JobOK, SessionOK, Jobs,
         Emails
<1>3. ASSUME NEW q \in Requests PROVE SessionOK(q)'
  BY DEF FindReceiver, tables, dbVars, appVars, TypeOK, SessionOK, Applied,
         Debited, Credited, OwnsOnly
<1>4. ASSUME NEW q \in Requests PROVE StageOK(q)'
  BY DEF FindReceiver, tables, dbVars, appVars, TypeOK, StageOK, SessionOK, JobOK,
         LedgerOK, PoolOK, Applied, Debited, Credited, OwnsOnly, Current, Jobs,
         LedgerRow, Atomic!Recorded
<1>5. ASSUME NEW q \in Requests PROVE LedgerOK(q)'
  BY DEF FindReceiver, tables, dbVars, appVars, TypeOK, LedgerOK, LedgerRow,
         Atomic!Recorded
<1>6. ASSUME NEW q \in Requests PROVE PoolOK(q)'
  BY DEF FindReceiver, tables, dbVars, appVars, TypeOK, PoolOK
<1>7. ASSUME NEW q \in Requests PROVE ReplyOK(q)'
  BY DEF FindReceiver, tables, dbVars, appVars, TypeOK, ReplyOK, LedgerOK,
         LedgerRow, Atomic!Recorded
<1>8. PushedTransfersAreCommitted'
  BY DEF FindReceiver, tables, dbVars, appVars, TypeOK,
         PushedTransfersAreCommitted, LedgerRow, Atomic!Recorded
<1>9. QED
  BY <1>1, <1>2, <1>3, <1>4, <1>5, <1>6, <1>7, <1>8

\* The first UPDATE owns the sender's row, or aborts.
LEMMA DebitStep == ASSUME IndInv, NEW r \in Requests, Debit(r) PROVE IndInv'
<1> USE DEF IndInv
<1>1. TypeOK'
  BY DEF Debit, tables, dbVars, appVars, UpdateBalance, AbortTransaction, FreeRows,
         TypeOK, Labels
<1>2. ASSUME NEW q \in Requests PROVE JobOK(q)'
  BY DEF Debit, tables, dbVars, appVars, UpdateBalance, AbortTransaction, FreeRows,
         TypeOK, JobOK, SessionOK, Jobs, Emails
<1>3. ASSUME NEW q \in Requests PROVE SessionOK(q)'
  <2>1. CASE q = r
    BY <2>1 DEF Debit, tables, dbVars, appVars, UpdateBalance, AbortTransaction, FreeRows, TypeOK, SessionOK, StageOK, PoolOK, OwnsOnly
  <2>2. CASE q # r
    BY <2>2 DEF Debit, tables, dbVars, appVars, UpdateBalance, AbortTransaction, FreeRows, TypeOK, JobOK, Jobs, SessionOK, Applied, Debited, Credited, OwnsOnly
  <2>3. QED
    BY <2>1, <2>2
<1>4. ASSUME NEW q \in Requests PROVE StageOK(q)'
  BY DEF Debit, tables, dbVars, appVars, UpdateBalance, AbortTransaction, FreeRows,
         TypeOK, StageOK, SessionOK, JobOK, LedgerOK, PoolOK, Applied, Debited,
         Credited, OwnsOnly, Current, Jobs, LedgerRow, Atomic!Recorded
<1>5. ASSUME NEW q \in Requests PROVE LedgerOK(q)'
  BY DEF Debit, tables, dbVars, appVars, UpdateBalance, AbortTransaction, FreeRows,
         TypeOK, LedgerOK, LedgerRow, Atomic!Recorded
<1>6. ASSUME NEW q \in Requests PROVE PoolOK(q)'
  BY DEF Debit, tables, dbVars, appVars, UpdateBalance, AbortTransaction, FreeRows,
         TypeOK, PoolOK
<1>7. ASSUME NEW q \in Requests PROVE ReplyOK(q)'
  BY DEF Debit, tables, dbVars, appVars, UpdateBalance, AbortTransaction, FreeRows,
         TypeOK, ReplyOK, LedgerOK, LedgerRow, Atomic!Recorded
<1>8. PushedTransfersAreCommitted'
  BY DEF Debit, tables, dbVars, appVars, UpdateBalance, AbortTransaction, FreeRows,
         TypeOK, PushedTransfersAreCommitted, LedgerRow, Atomic!Recorded
<1>9. QED
  BY <1>1, <1>2, <1>3, <1>4, <1>5, <1>6, <1>7, <1>8

\* The second UPDATE owns the receiver's row too, or aborts.
LEMMA CreditStep == ASSUME IndInv, NEW r \in Requests, Credit(r) PROVE IndInv'
<1> USE DEF IndInv
<1>1. TypeOK'
  BY DEF Credit, tables, dbVars, appVars, UpdateBalance, AbortTransaction,
         FreeRows, TypeOK, Labels
<1>2. ASSUME NEW q \in Requests PROVE JobOK(q)'
  BY DEF Credit, tables, dbVars, appVars, UpdateBalance, AbortTransaction,
         FreeRows, TypeOK, JobOK, SessionOK, Jobs, Emails
<1>3. ASSUME NEW q \in Requests PROVE SessionOK(q)'
  <2>1. CASE q = r
    BY <2>1 DEF Credit, tables, dbVars, appVars, UpdateBalance, AbortTransaction, FreeRows, TypeOK, SessionOK, StageOK, PoolOK, OwnsOnly
  <2>2. CASE q # r
    BY <2>2 DEF Credit, tables, dbVars, appVars, UpdateBalance, AbortTransaction, FreeRows, TypeOK, JobOK, Jobs, SessionOK, Applied, Debited, Credited, OwnsOnly
  <2>3. QED
    BY <2>1, <2>2
<1>4. ASSUME NEW q \in Requests PROVE StageOK(q)'
  BY DEF Credit, tables, dbVars, appVars, UpdateBalance, AbortTransaction,
         FreeRows, TypeOK, StageOK, SessionOK, JobOK, LedgerOK, PoolOK, Applied,
         Debited, Credited, OwnsOnly, Current, Jobs, LedgerRow, Atomic!Recorded
<1>5. ASSUME NEW q \in Requests PROVE LedgerOK(q)'
  BY DEF Credit, tables, dbVars, appVars, UpdateBalance, AbortTransaction,
         FreeRows, TypeOK, LedgerOK, LedgerRow, Atomic!Recorded
<1>6. ASSUME NEW q \in Requests PROVE PoolOK(q)'
  BY DEF Credit, tables, dbVars, appVars, UpdateBalance, AbortTransaction,
         FreeRows, TypeOK, PoolOK
<1>7. ASSUME NEW q \in Requests PROVE ReplyOK(q)'
  BY DEF Credit, tables, dbVars, appVars, UpdateBalance, AbortTransaction,
         FreeRows, TypeOK, ReplyOK, LedgerOK, LedgerRow, Atomic!Recorded
<1>8. PushedTransfersAreCommitted'
  BY DEF Credit, tables, dbVars, appVars, UpdateBalance, AbortTransaction,
         FreeRows, TypeOK, PushedTransfersAreCommitted, LedgerRow, Atomic!Recorded
<1>9. QED
  BY <1>1, <1>2, <1>3, <1>4, <1>5, <1>6, <1>7, <1>8

\* The balance read back is the receiver's uncommitted one.
LEMMA FetchReceiverStep == ASSUME IndInv, NEW r \in Requests, FetchReceiver(r) PROVE IndInv'
<1> USE DEF IndInv
<1>1. TypeOK'
  BY DEF FetchReceiver, tables, dbVars, appVars, TypeOK, Labels, Current, JobOK,
         Jobs
<1>2. ASSUME NEW q \in Requests PROVE JobOK(q)'
  BY DEF FetchReceiver, tables, dbVars, appVars, TypeOK, JobOK, SessionOK, Jobs,
         Emails
<1>3. ASSUME NEW q \in Requests PROVE SessionOK(q)'
  BY DEF FetchReceiver, tables, dbVars, appVars, TypeOK, SessionOK, Applied,
         Debited, Credited, OwnsOnly, StageOK, PoolOK
<1>4. ASSUME NEW q \in Requests PROVE StageOK(q)'
  BY DEF FetchReceiver, tables, dbVars, appVars, TypeOK, StageOK, SessionOK, JobOK,
         LedgerOK, PoolOK, Applied, Debited, Credited, OwnsOnly, Current, Jobs,
         LedgerRow, Atomic!Recorded
<1>5. ASSUME NEW q \in Requests PROVE LedgerOK(q)'
  BY DEF FetchReceiver, tables, dbVars, appVars, TypeOK, LedgerOK, LedgerRow,
         Atomic!Recorded
<1>6. ASSUME NEW q \in Requests PROVE PoolOK(q)'
  BY DEF FetchReceiver, tables, dbVars, appVars, TypeOK, PoolOK
<1>7. ASSUME NEW q \in Requests PROVE ReplyOK(q)'
  BY DEF FetchReceiver, tables, dbVars, appVars, TypeOK, ReplyOK, LedgerOK,
         LedgerRow, Atomic!Recorded
<1>8. PushedTransfersAreCommitted'
  <2>1. ~Atomic!Recorded(r)
    BY DEF FetchReceiver, LedgerOK
  <2>2. ASSUME NEW e \in pushed
        PROVE  \E row \in ledger : row.id = e.id /\ row.receiver = e.to /\ e.balance = fetched'[e.id]
    <3>1. PICK row \in ledger : row.id = e.id /\ row.receiver = e.to /\ e.balance = fetched[e.id]
      BY DEF PushedTransfersAreCommitted
    <3>2. e.id # r /\ e.id \in Requests
      BY <2>1, <3>1 DEF Atomic!Recorded, TypeOK
    <3>3. QED
      BY <3>1, <3>2 DEF FetchReceiver, TypeOK
  <2>3. QED
    BY <2>2 DEF FetchReceiver, tables, PushedTransfersAreCommitted
<1>9. QED
  BY <1>1, <1>2, <1>3, <1>4, <1>5, <1>6, <1>7, <1>8

\* COMMIT is sent by a transaction that is complete.
LEMMA InsertRowStep == ASSUME IndInv, NEW r \in Requests, InsertRow(r) PROVE IndInv'
<1> USE DEF IndInv
<1>1. TypeOK'
  BY DEF InsertRow, tables, dbVars, appVars, TypeOK, Labels
<1>2. ASSUME NEW q \in Requests PROVE JobOK(q)'
  BY DEF InsertRow, tables, dbVars, appVars, TypeOK, JobOK, SessionOK, Jobs, Emails
<1>3. ASSUME NEW q \in Requests PROVE SessionOK(q)'
  BY DEF InsertRow, tables, dbVars, appVars, TypeOK, SessionOK, Applied, Debited,
         Credited, OwnsOnly, StageOK, JobOK, PoolOK
<1>4. ASSUME NEW q \in Requests PROVE StageOK(q)'
  BY DEF InsertRow, tables, dbVars, appVars, TypeOK, StageOK, SessionOK, JobOK,
         LedgerOK, PoolOK, Applied, Debited, Credited, OwnsOnly, Current, Jobs,
         LedgerRow, Atomic!Recorded
<1>5. ASSUME NEW q \in Requests PROVE LedgerOK(q)'
  BY DEF InsertRow, tables, dbVars, appVars, TypeOK, LedgerOK, LedgerRow,
         Atomic!Recorded
<1>6. ASSUME NEW q \in Requests PROVE PoolOK(q)'
  BY DEF InsertRow, tables, dbVars, appVars, TypeOK, PoolOK
<1>7. ASSUME NEW q \in Requests PROVE ReplyOK(q)'
  BY DEF InsertRow, tables, dbVars, appVars, TypeOK, ReplyOK, LedgerOK, LedgerRow,
         Atomic!Recorded
<1>8. PushedTransfersAreCommitted'
  BY DEF InsertRow, tables, dbVars, appVars, TypeOK, PushedTransfersAreCommitted,
         LedgerRow, Atomic!Recorded
<1>9. QED
  BY <1>1, <1>2, <1>3, <1>4, <1>5, <1>6, <1>7, <1>8

\* An answered COMMIT has put the row into the ledger.
LEMMA FinishStep == ASSUME IndInv, NEW r \in Requests, Finish(r) PROVE IndInv'
<1> USE DEF IndInv
<1>1. TypeOK'
  <2>1. fetched[r] \in 0 .. MaxBalance /\ job[r].to \in Emails
    <3>1. r \notin down /\ job[r] \in Jobs
      BY DEF Finish, PoolOK, JobOK
    <3>2. fetched[r] # None
      BY <3>1 DEF Finish, StageOK
    <3>3. QED
      BY <3>1, <3>2 DEF TypeOK, Jobs
  <2>2. pushed' \subseteq [id : Requests, to : Emails, balance : 0 .. MaxBalance]
    BY <2>1 DEF Finish, TypeOK
  <2>3. QED
    BY <2>2 DEF Finish, tables, dbVars, appVars, TypeOK, Labels
<1>2. ASSUME NEW q \in Requests PROVE JobOK(q)'
  BY DEF Finish, tables, dbVars, appVars, TypeOK, JobOK, SessionOK, Jobs, Emails
<1>3. ASSUME NEW q \in Requests PROVE SessionOK(q)'
  BY DEF Finish, tables, dbVars, appVars, TypeOK, SessionOK, Applied, Debited,
         Credited, OwnsOnly
<1>4. ASSUME NEW q \in Requests PROVE StageOK(q)'
  BY DEF Finish, tables, dbVars, appVars, TypeOK, StageOK, SessionOK, JobOK,
         LedgerOK, PoolOK, Applied, Debited, Credited, OwnsOnly, Current, Jobs,
         LedgerRow, Atomic!Recorded
<1>5. ASSUME NEW q \in Requests PROVE LedgerOK(q)'
  BY DEF Finish, tables, dbVars, appVars, TypeOK, LedgerOK, LedgerRow,
         Atomic!Recorded
<1>6. ASSUME NEW q \in Requests PROVE PoolOK(q)'
  BY DEF Finish, tables, dbVars, appVars, TypeOK, PoolOK
<1>7. ASSUME NEW q \in Requests PROVE ReplyOK(q)'
  <2>1. CASE q = r
    BY <2>1 DEF Finish, tables, appVars, TypeOK, ReplyOK, StageOK, PoolOK, LedgerRow
  <2>2. CASE q # r
    BY <2>2 DEF Finish, tables, dbVars, appVars, TypeOK, ReplyOK, LedgerRow, Atomic!Recorded
  <2>3. QED
    BY <2>1, <2>2
<1>8. PushedTransfersAreCommitted'
  <2>1. LedgerRow(r) \in ledger
    BY DEF Finish, StageOK, PoolOK
  <2>2. ASSUME NEW e \in pushed'
        PROVE  \E row \in ledger : row.id = e.id /\ row.receiver = e.to /\ e.balance = fetched[e.id]
    <3>1. CASE e \in pushed
      BY <3>1 DEF PushedTransfersAreCommitted
    <3>2. CASE e = [id |-> r, to |-> job[r].to, balance |-> fetched[r]]
      BY <2>1, <3>2 DEF LedgerRow
    <3>3. QED
      BY <3>1, <3>2 DEF Finish
  <2>3. QED
    BY <2>2 DEF Finish, tables, appVars, PushedTransfersAreCommitted
<1>9. QED
  BY <1>1, <1>2, <1>3, <1>4, <1>5, <1>6, <1>7, <1>8

\* ROLLBACK leaves nothing behind.
LEMMA RollbackStep == ASSUME IndInv, NEW r \in Requests, Rollback(r) PROVE IndInv'
<1> USE DEF IndInv
<1>1. TypeOK'
  BY DEF Rollback, tables, dbVars, appVars, FreeRows, TypeOK, Labels
<1>2. ASSUME NEW q \in Requests PROVE JobOK(q)'
  BY DEF Rollback, tables, dbVars, appVars, FreeRows, TypeOK, JobOK, SessionOK,
         Jobs, Emails
<1>3. ASSUME NEW q \in Requests PROVE SessionOK(q)'
  <2>1. CASE q = r
    BY <2>1 DEF Rollback, tables, appVars, FreeRows, TypeOK, SessionOK, OwnsOnly
  <2>2. CASE q # r
    BY <2>2 DEF Rollback, tables, appVars, FreeRows, TypeOK, JobOK, Jobs, SessionOK, Applied, Debited, Credited, OwnsOnly
  <2>3. QED
    BY <2>1, <2>2
<1>4. ASSUME NEW q \in Requests PROVE StageOK(q)'
  BY DEF Rollback, tables, dbVars, appVars, FreeRows, TypeOK, StageOK, SessionOK,
         JobOK, LedgerOK, PoolOK, Applied, Debited, Credited, OwnsOnly, Current,
         Jobs, LedgerRow, Atomic!Recorded
<1>5. ASSUME NEW q \in Requests PROVE LedgerOK(q)'
  BY DEF Rollback, tables, dbVars, appVars, FreeRows, TypeOK, LedgerOK, LedgerRow,
         Atomic!Recorded
<1>6. ASSUME NEW q \in Requests PROVE PoolOK(q)'
  BY DEF Rollback, tables, dbVars, appVars, FreeRows, TypeOK, PoolOK
<1>7. ASSUME NEW q \in Requests PROVE ReplyOK(q)'
  <2>1. CASE q = r
    <3>1. ~Atomic!Recorded(r)
      BY DEF Rollback, StageOK, LedgerOK
    <3>2. ~Atomic!Recorded(r)'
      BY <3>1 DEF Rollback, tables, Atomic!Recorded
    <3>3. QED
      BY <2>1, <3>2 DEF Rollback, TypeOK, ReplyOK
  <2>2. CASE q # r
    BY <2>2 DEF Rollback, tables, appVars, TypeOK, ReplyOK, LedgerRow, Atomic!Recorded
  <2>3. QED
    BY <2>1, <2>2
<1>8. PushedTransfersAreCommitted'
  BY DEF Rollback, tables, dbVars, appVars, FreeRows, TypeOK,
         PushedTransfersAreCommitted, LedgerRow, Atomic!Recorded
<1>9. QED
  BY <1>1, <1>2, <1>3, <1>4, <1>5, <1>6, <1>7, <1>8

\* A rejected ROLLBACK leaves the session to the server.
LEMMA RollbackRejectedStep == ASSUME IndInv, NEW r \in Requests, RollbackRejected(r) PROVE IndInv'
<1> USE DEF IndInv
<1>1. TypeOK'
  BY DEF RollbackRejected, tables, dbVars, appVars, TypeOK, Labels
<1>2. ASSUME NEW q \in Requests PROVE JobOK(q)'
  BY DEF RollbackRejected, tables, dbVars, appVars, TypeOK, JobOK, SessionOK, Jobs,
         Emails
<1>3. ASSUME NEW q \in Requests PROVE SessionOK(q)'
  BY DEF RollbackRejected, tables, dbVars, appVars, TypeOK, SessionOK, Applied,
         Debited, Credited, OwnsOnly
<1>4. ASSUME NEW q \in Requests PROVE StageOK(q)'
  BY DEF RollbackRejected, tables, dbVars, appVars, TypeOK, StageOK, SessionOK,
         JobOK, LedgerOK, PoolOK, Applied, Debited, Credited, OwnsOnly, Current,
         Jobs, LedgerRow, Atomic!Recorded
<1>5. ASSUME NEW q \in Requests PROVE LedgerOK(q)'
  BY DEF RollbackRejected, tables, dbVars, appVars, TypeOK, LedgerOK, LedgerRow,
         Atomic!Recorded
<1>6. ASSUME NEW q \in Requests PROVE PoolOK(q)'
  BY DEF RollbackRejected, tables, dbVars, appVars, TypeOK, PoolOK
<1>7. ASSUME NEW q \in Requests PROVE ReplyOK(q)'
  BY DEF RollbackRejected, tables, dbVars, appVars, TypeOK, ReplyOK, LedgerOK,
         LedgerRow, Atomic!Recorded
<1>8. PushedTransfersAreCommitted'
  BY DEF RollbackRejected, tables, dbVars, appVars, TypeOK,
         PushedTransfersAreCommitted, LedgerRow, Atomic!Recorded
<1>9. QED
  BY <1>1, <1>2, <1>3, <1>4, <1>5, <1>6, <1>7, <1>8

\* A deadlock victim owns nothing any more.
LEMMA DeadlockAbortStep == ASSUME IndInv, NEW r \in Requests, DeadlockAbort(r) PROVE IndInv'
<1> USE DEF IndInv
<1>1. TypeOK'
  BY DEF DeadlockAbort, tables, dbVars, appVars, AbortTransaction, FreeRows,
         InDeadlock, Blocked, TypeOK, Labels
<1>2. ASSUME NEW q \in Requests PROVE JobOK(q)'
  BY DEF DeadlockAbort, tables, dbVars, appVars, AbortTransaction, FreeRows,
         InDeadlock, Blocked, TypeOK, JobOK, SessionOK, Jobs, Emails
<1>3. ASSUME NEW q \in Requests PROVE SessionOK(q)'
  <2>1. CASE q = r
    BY <2>1 DEF DeadlockAbort, InDeadlock, Blocked, AbortTransaction, tables, appVars, FreeRows, TypeOK, SessionOK, OwnsOnly
  <2>2. CASE q # r
    BY <2>2 DEF DeadlockAbort, AbortTransaction, tables, appVars, FreeRows, TypeOK, JobOK, Jobs, SessionOK, Applied, Debited, Credited, OwnsOnly
  <2>3. QED
    BY <2>1, <2>2
<1>4. ASSUME NEW q \in Requests PROVE StageOK(q)'
  BY DEF DeadlockAbort, tables, dbVars, appVars, AbortTransaction, FreeRows,
         InDeadlock, Blocked, TypeOK, StageOK, SessionOK, JobOK, LedgerOK, PoolOK,
         Applied, Debited, Credited, OwnsOnly, Current, Jobs, LedgerRow,
         Atomic!Recorded
<1>5. ASSUME NEW q \in Requests PROVE LedgerOK(q)'
  BY DEF DeadlockAbort, tables, dbVars, appVars, AbortTransaction, FreeRows,
         InDeadlock, Blocked, TypeOK, LedgerOK, LedgerRow, Atomic!Recorded
<1>6. ASSUME NEW q \in Requests PROVE PoolOK(q)'
  BY DEF DeadlockAbort, tables, dbVars, appVars, AbortTransaction, FreeRows,
         InDeadlock, Blocked, TypeOK, PoolOK
<1>7. ASSUME NEW q \in Requests PROVE ReplyOK(q)'
  BY DEF DeadlockAbort, tables, dbVars, appVars, AbortTransaction, FreeRows,
         InDeadlock, Blocked, TypeOK, ReplyOK, LedgerOK, LedgerRow, Atomic!Recorded
<1>8. PushedTransfersAreCommitted'
  BY DEF DeadlockAbort, tables, dbVars, appVars, AbortTransaction, FreeRows,
         InDeadlock, Blocked, TypeOK, PushedTransfersAreCommitted, LedgerRow,
         Atomic!Recorded
<1>9. QED
  BY <1>1, <1>2, <1>3, <1>4, <1>5, <1>6, <1>7, <1>8

\* A broken connection changes nothing on the server.
LEMMA LoseConnectionStep == ASSUME IndInv, NEW r \in Requests, LoseConnection(r) PROVE IndInv'
<1> USE DEF IndInv
<1>1. TypeOK'
  BY DEF LoseConnection, tables, dbVars, appVars, TypeOK, Labels
<1>2. ASSUME NEW q \in Requests PROVE JobOK(q)'
  BY DEF LoseConnection, dbVars, appVars, TypeOK, JobOK, PoolOK
<1>3. ASSUME NEW q \in Requests PROVE SessionOK(q)'
  BY DEF LoseConnection, tables, dbVars, appVars, TypeOK, SessionOK, Applied,
         Debited, Credited, OwnsOnly
<1>4. ASSUME NEW q \in Requests PROVE StageOK(q)'
  BY DEF LoseConnection, tables, dbVars, appVars, TypeOK, StageOK, SessionOK,
         JobOK, LedgerOK, PoolOK, Applied, Debited, Credited, OwnsOnly, Current,
         Jobs, LedgerRow, Atomic!Recorded
<1>5. ASSUME NEW q \in Requests PROVE LedgerOK(q)'
  BY DEF LoseConnection, tables, dbVars, appVars, TypeOK, LedgerOK, LedgerRow,
         Atomic!Recorded
<1>6. ASSUME NEW q \in Requests PROVE PoolOK(q)'
  BY DEF LoseConnection, tables, dbVars, appVars, TypeOK, PoolOK
<1>7. ASSUME NEW q \in Requests PROVE ReplyOK(q)'
  BY DEF LoseConnection, tables, dbVars, appVars, TypeOK, ReplyOK, LedgerOK,
         LedgerRow, Atomic!Recorded, PoolOK
<1>8. PushedTransfersAreCommitted'
  BY DEF LoseConnection, tables, dbVars, appVars, TypeOK,
         PushedTransfersAreCommitted, LedgerRow, Atomic!Recorded
<1>9. QED
  BY <1>1, <1>2, <1>3, <1>4, <1>5, <1>6, <1>7, <1>8

\* An ended session owns nothing.
LEMMA EndSessionStep == ASSUME IndInv, NEW r \in Requests, EndSession(r) PROVE IndInv'
<1> USE DEF IndInv
<1>1. TypeOK'
  BY DEF EndSession, tables, dbVars, appVars, FreeRows, TypeOK, Labels
<1>2. ASSUME NEW q \in Requests PROVE JobOK(q)'
  BY DEF EndSession, tables, dbVars, appVars, FreeRows, TypeOK, JobOK, SessionOK,
         Jobs, Emails
<1>3. ASSUME NEW q \in Requests PROVE SessionOK(q)'
  <2>1. CASE q = r
    BY <2>1 DEF EndSession, tables, appVars, FreeRows, TypeOK, SessionOK, OwnsOnly
  <2>2. CASE q # r
    BY <2>2 DEF EndSession, tables, appVars, FreeRows, TypeOK, JobOK, Jobs, SessionOK, Applied, Debited, Credited, OwnsOnly
  <2>3. QED
    BY <2>1, <2>2
<1>4. ASSUME NEW q \in Requests PROVE StageOK(q)'
  BY DEF EndSession, tables, dbVars, appVars, FreeRows, TypeOK, StageOK, SessionOK,
         JobOK, LedgerOK, PoolOK, Applied, Debited, Credited, OwnsOnly, Current,
         Jobs, LedgerRow, Atomic!Recorded
<1>5. ASSUME NEW q \in Requests PROVE LedgerOK(q)'
  BY DEF EndSession, tables, dbVars, appVars, FreeRows, TypeOK, LedgerOK,
         LedgerRow, Atomic!Recorded
<1>6. ASSUME NEW q \in Requests PROVE PoolOK(q)'
  BY DEF EndSession, tables, dbVars, appVars, FreeRows, TypeOK, PoolOK
<1>7. ASSUME NEW q \in Requests PROVE ReplyOK(q)'
  BY DEF EndSession, tables, dbVars, appVars, FreeRows, TypeOK, ReplyOK, LedgerOK,
         LedgerRow, Atomic!Recorded
<1>8. PushedTransfersAreCommitted'
  BY DEF EndSession, tables, dbVars, appVars, FreeRows, TypeOK,
         PushedTransfersAreCommitted, LedgerRow, Atomic!Recorded
<1>9. QED
  BY <1>1, <1>2, <1>3, <1>4, <1>5, <1>6, <1>7, <1>8

\* A killed process changes nothing on the server.
LEMMA CrashStep == ASSUME IndInv, Crash PROVE IndInv'
<1> USE DEF IndInv
<1>1. TypeOK'
  BY DEF Crash, tables, dbVars, appVars, InProgress, TypeOK, Labels
<1>2. ASSUME NEW q \in Requests PROVE JobOK(q)'
  BY DEF Crash, tables, dbVars, appVars, InProgress, TypeOK, JobOK, SessionOK,
         Jobs, Emails
<1>3. ASSUME NEW q \in Requests PROVE SessionOK(q)'
  BY DEF Crash, tables, dbVars, appVars, InProgress, TypeOK, SessionOK, Applied,
         Debited, Credited, OwnsOnly
<1>4. ASSUME NEW q \in Requests PROVE StageOK(q)'
  BY DEF Crash, tables, dbVars, appVars, InProgress, TypeOK, StageOK, SessionOK,
         JobOK, LedgerOK, PoolOK, Applied, Debited, Credited, OwnsOnly, Current,
         Jobs, LedgerRow, Atomic!Recorded
<1>5. ASSUME NEW q \in Requests PROVE LedgerOK(q)'
  BY DEF Crash, tables, dbVars, appVars, InProgress, TypeOK, LedgerOK, LedgerRow,
         Atomic!Recorded
<1>6. ASSUME NEW q \in Requests PROVE PoolOK(q)'
  BY DEF Crash, tables, dbVars, appVars, InProgress, TypeOK, PoolOK
<1>7. ASSUME NEW q \in Requests PROVE ReplyOK(q)'
  BY DEF Crash, tables, dbVars, appVars, InProgress, TypeOK, ReplyOK, LedgerOK,
         LedgerRow, Atomic!Recorded
<1>8. PushedTransfersAreCommitted'
  BY DEF Crash, tables, dbVars, appVars, InProgress, TypeOK,
         PushedTransfersAreCommitted, LedgerRow, Atomic!Recorded
<1>9. QED
  BY <1>1, <1>2, <1>3, <1>4, <1>5, <1>6, <1>7, <1>8

\* COMMIT installs one transaction's rows and disturbs no other transaction.
LEMMA CommitStep == ASSUME IndInv, NEW r \in Requests, Commit(r) PROVE IndInv'
<1> USE DEF IndInv
<1>1. /\ job[r] \in Jobs /\ job[r].to \in Users /\ job[r].from # job[r].to
      /\ Applied(r) /\ r \in inserted /\ ~Atomic!Recorded(r)
  BY DEF Commit, SessionOK, JobOK, LedgerOK
<1>2. /\ ledger' = ledger \cup {LedgerRow(r)}
      /\ balance' = [u \in Users |-> Current(r, u)]
      /\ job' = job /\ fetched' = fetched /\ seen' = seen /\ pc' = pc
  BY <1>1 DEF Commit, appVars
<1>3. LedgerRow(r) \in Atomic!Row
  BY <1>1 DEF LedgerRow, Atomic!Row, Jobs
<1>4. TypeOK'
  BY <1>2, <1>3 DEF Commit, appVars, FreeRows, Current, TypeOK
<1>5. ASSUME NEW q \in Requests
      PROVE  /\ LedgerRow(q)' = LedgerRow(q)
             /\ q # r => (Atomic!Recorded(q)' <=> Atomic!Recorded(q))
  BY <1>2 DEF LedgerRow, Atomic!Recorded
<1>6. ASSUME NEW q \in Requests, q # r, job[q] \in Jobs
      PROVE  /\ Debited(q) => Debited(q)'
             /\ job[q].to \in Users /\ Credited(q) => Credited(q)'
             /\ \A rows : OwnsOnly(q, rows) => OwnsOnly(q, rows)'
  <2>1. \A u \in Users : owner[u] = q => owner'[u] = q /\ balance'[u] = balance[u]
    BY <1>2, <1>6 DEF Commit, FreeRows, Current, TypeOK
  <2>2. \A u \in Users : owner'[u] = q => owner[u] = q
    BY <1>6 DEF Commit, FreeRows, TypeOK, NoneAssumption
  <2>3. pending' = pending /\ job[q].from \in Users
    BY <1>6 DEF Commit, Jobs
  <2>4. QED
    BY <1>2, <2>1, <2>2, <2>3 DEF Debited, Credited, OwnsOnly
<1>7. ASSUME NEW q \in Requests PROVE JobOK(q)'
  BY <1>2 DEF Commit, TypeOK, JobOK
<1>8. ASSUME NEW q \in Requests PROVE SessionOK(q)'
  <2>1. CASE q = r
    BY <2>1 DEF Commit, FreeRows, TypeOK, SessionOK, OwnsOnly
  <2>2. CASE q # r
    <3>1. pc[q] # "idle" => job[q] \in Jobs
      BY DEF JobOK
    <3>2. OwnsOnly(q, {}) => OwnsOnly(q, {})'
      BY <2>2 DEF Commit, FreeRows, TypeOK, OwnsOnly
    <3>3. session[q] = "committing" => Applied(q)'
      BY <1>2, <1>6, <2>2, <3>1 DEF SessionOK, Applied
    <3>4. QED
      BY <1>2, <2>2, <3>2, <3>3 DEF Commit, TypeOK, SessionOK
  <2>3. QED
    BY <2>1, <2>2
<1>9. ASSUME NEW q \in Requests PROVE StageOK(q)'
  <2>1. CASE q = r
    <3>1. r \notin down => pc[r] = "commit"
      BY DEF Commit, TypeOK, Labels, JobOK, SessionOK, StageOK, PoolOK
    <3>2. QED
      BY <1>2, <1>5, <2>1, <3>1 DEF Commit, TypeOK, StageOK
  <2>2. CASE q # r
    <3>1. pc[q] # "idle" => job[q] \in Jobs
      BY DEF JobOK
    <3>2. OwnsOnly(q, {}) => OwnsOnly(q, {})'
      BY <2>2 DEF Commit, FreeRows, TypeOK, OwnsOnly
    <3>3. pc[q] = "credit" => (Debited(q) /\ OwnsOnly(q, {job[q].from})
                                => (Debited(q) /\ OwnsOnly(q, {job[q].from}))')
      BY <1>2, <1>6, <2>2, <3>1
    <3>4. pc[q] \in {"fetch", "insert"} => (Applied(q) => Applied(q)')
      BY <1>2, <1>6, <2>2, <3>1 DEF Applied, JobOK
    <3>5. LedgerRow(q) \in ledger => (LedgerRow(q) \in ledger)'
      BY <1>2, <1>5
    <3>6. /\ session'[q] = session[q] /\ pending' = pending /\ down' = down
          /\ pc' = pc /\ job' = job /\ fetched' = fetched /\ seen' = seen
      BY <1>2, <2>2 DEF Commit, TypeOK
    <3>7. QED
      BY <3>2, <3>3, <3>4, <3>5, <3>6 DEF StageOK
  <2>3. QED
    BY <2>1, <2>2
<1>10. ASSUME NEW q \in Requests PROVE LedgerOK(q)'
  <2>1. CASE q = r
    <3>1. pc[r] \in {"commit", "rollback", "done", "dead"}
      BY DEF Commit, TypeOK, Labels, SessionOK, StageOK, PoolOK
    <3>2. QED
      BY <1>2, <1>5, <2>1, <3>1 DEF Commit, TypeOK, LedgerOK
  <2>2. CASE q # r
    BY <1>2, <1>5, <2>2 DEF Commit, TypeOK, LedgerOK
  <2>3. QED
    BY <2>1, <2>2
<1>11. ASSUME NEW q \in Requests PROVE PoolOK(q)'
  BY <1>2 DEF Commit, PoolOK
<1>12. ASSUME NEW q \in Requests PROVE ReplyOK(q)'
  <2>1. CASE q = r
    BY <1>2, <1>5, <2>1 DEF Commit, TypeOK, ReplyOK
  <2>2. CASE q # r
    BY <1>2, <1>5, <2>2 DEF Commit, TypeOK, ReplyOK
  <2>3. QED
    BY <2>1, <2>2
<1>13. PushedTransfersAreCommitted'
  BY <1>2 DEF Commit, PushedTransfersAreCommitted
<1>14. QED
  BY <1>4, <1>7, <1>8, <1>9, <1>10, <1>11, <1>12, <1>13

\* Nothing is in progress initially.
LEMMA InitInv == Init => IndInv
  BY DEF Init, IndInv, TypeOK, Labels, JobOK, SessionOK, StageOK, LedgerOK, PoolOK, ReplyOK,
         OwnsOnly, Atomic!Recorded, PushedTransfersAreCommitted

\* A step that changes no variable preserves the invariant.
LEMMA StutterInv == ASSUME IndInv, UNCHANGED vars PROVE IndInv'
<1> USE DEF IndInv, vars
<1>1. TypeOK' /\ PushedTransfersAreCommitted'
  BY DEF TypeOK, PushedTransfersAreCommitted
<1>2. ASSUME NEW q \in Requests PROVE (JobOK(q) /\ SessionOK(q) /\ PoolOK(q))'
  BY DEF JobOK, SessionOK, PoolOK, Applied, Debited, Credited, OwnsOnly
<1>3. ASSUME NEW q \in Requests PROVE (StageOK(q) /\ LedgerOK(q) /\ ReplyOK(q))'
  BY DEF StageOK, LedgerOK, ReplyOK, Applied, Debited, Credited, OwnsOnly, LedgerRow, Atomic!Recorded
<1>4. QED
  BY <1>1, <1>2, <1>3

\* Every step of the service preserves the invariant.
LEMMA NextInv == ASSUME IndInv, [Next]_vars PROVE IndInv'
<1>1. ASSUME NEW r \in Requests, Submit(r) \/ Statement(r) \/ LoseConnection(r)
      PROVE  IndInv'
  BY <1>1, SubmitStep, ConnectStep, ConnectTimeoutStep, BeginStep, FindSenderStep,
     FindReceiverStep, DebitStep, CreditStep, FetchReceiverStep, InsertRowStep, CommitStep,
     FinishStep, RollbackStep, RollbackRejectedStep, DeadlockAbortStep, LoseConnectionStep,
     EndSessionStep DEF Statement
<1>2. QED
  BY <1>1, CrashStep, StutterInv DEF Next, Quiet

\* The invariant holds throughout: where a request stands determines what its
\* transaction has done, for any number of requests, accounts, connections and faults.
THEOREM Invariance == Spec => []IndInv
<1>1. IndInv /\ [Next]_vars => IndInv'
  BY NextInv
<1>2. QED
  BY <1>1, InitInv, PTL DEF Spec

-----------------------------------------------------------------------------
(* The properties.                                                         *)

\* Every variable keeps its type; in particular no committed balance is ever negative
\* or too large for its column.
THEOREM TypeCorrect == Spec => []TypeOK
<1>1. IndInv => TypeOK
  BY DEF IndInv
<1>2. QED
  BY <1>1, Invariance, PTL

\* A lock belongs to an open transaction, an open transaction to a lent connection, and a
\* lent connection to a request that is running.
LEMMA CleanByInv == ASSUME IndInv PROVE ReturnedConnectionsAreClean
<1>1. ASSUME NEW u \in Users, owner[u] # None
      PROVE  session[owner[u]] \in {"open", "committing"}
  <2>1. owner[u] \in Requests
    BY <1>1 DEF IndInv, TypeOK
  <2>2. SessionOK(owner[u]) /\ session[owner[u]] \in {"none", "open", "failed", "committing"}
    BY <2>1 DEF IndInv, TypeOK
  <2>3. QED
    BY <2>2 DEF SessionOK, OwnsOnly
<1>2. ASSUME NEW r \in Requests \ down
      PROVE  /\ session[r] # "none" => r \in held
             /\ r \in held => InProgress(r)
  <2>1. SessionOK(r) /\ StageOK(r) /\ PoolOK(r) /\ pc[r] \in Labels
    BY DEF IndInv, TypeOK
  <2>2. QED
    BY <2>1 DEF SessionOK, StageOK, PoolOK, Labels, InProgress
<1>3. QED
  BY <1>1, <1>2 DEF ReturnedConnectionsAreClean

\* An answered request leaves no transaction open on the connection it gives back, and
\* gives it back.
THEOREM ConnectionsClean == Spec => []ReturnedConnectionsAreClean
  BY CleanByInv, Invariance, PTL

\* 200 means recorded; 'Transfer failed' means not recorded, for good.
THEOREM RepliesTruthful == Spec => []RepliesMatchLedger
<1>1. IndInv => RepliesMatchLedger
  BY DEF IndInv, RepliesMatchLedger, ReplyOK
<1>2. QED
  BY <1>1, Invariance, PTL

\* balance_updated is emitted for committed transfers only.
THEOREM PushesTruthful == Spec => []PushedTransfersAreCommitted
<1>1. IndInv => PushedTransfersAreCommitted
  BY DEF IndInv
<1>2. QED
  BY <1>1, Invariance, PTL

\* The only step that changes a table is a COMMIT in flight.
LEMMA OnlyCommitWrites ==
  ASSUME Next PROVE UNCHANGED tables \/ \E r \in Requests : Commit(r)
  BY DEF Next, Statement, Submit, Connect, ConnectTimeout, Begin, FindSender, FindReceiver,
         Debit, Credit, FetchReceiver, InsertRow, Finish, Rollback, RollbackRejected,
         DeadlockAbort, LoseConnection, EndSession, Crash, Quiet, vars, tables

\* What COMMIT installs: both accounts moved by the amount, every other one untouched,
\* and the row that says so.
LEMMA CommitEffect ==
  ASSUME IndInv, NEW r \in Requests, Commit(r)
  PROVE  /\ job[r] \in Jobs /\ job[r].to \in Users
         /\ Atomic!Transfer(r, job[r].from, job[r].to, job[r].amount)
         /\ balance'[job[r].to] = fetched[r]
<1>1. TypeOK /\ SessionOK(r) /\ JobOK(r) /\ LedgerOK(r)
  BY DEF IndInv
<1>2. /\ job[r] \in Jobs /\ job[r].to \in Users /\ job[r].from # job[r].to
      /\ Applied(r) /\ r \in inserted /\ ~Atomic!Recorded(r)
      /\ fetched[r] = pending[job[r].to]
  BY <1>1 DEF Commit, SessionOK, JobOK, LedgerOK
<1> DEFINE s == job[r].from  t == job[r].to  a == job[r].amount
<1>3. s \in Users /\ t \in Users /\ a \in Nat /\ s # t
  BY <1>2 DEF Jobs
<1>4. balance' = [u \in Users |-> Current(r, u)]
  BY DEF Commit
<1>5. /\ Current(r, s) = balance[s] - a /\ Current(r, t) = balance[t] + a
      /\ Current(r, t) = fetched[r]
  BY <1>2 DEF Current, Applied, Debited, Credited
<1>6. \A u \in Users \ {s, t} : Current(r, u) = balance[u]
  BY <1>2 DEF Current, Applied, OwnsOnly
<1>7. Current(r, s) \in 0 .. MaxBalance /\ Current(r, t) \in 0 .. MaxBalance
  BY <1>1, <1>3 DEF TypeOK, Current
<1>8. balance[s] >= a /\ balance[t] + a <= MaxBalance
  BY <1>1, <1>3, <1>5, <1>7 DEF TypeOK
<1>9. balance' = [balance EXCEPT ![s] = @ - a, ![t] = @ + a]
  BY <1>1, <1>3, <1>4, <1>5, <1>6 DEF TypeOK
<1>10. ledger' = ledger \cup {[id |-> r, sender |-> s, receiver |-> t, amount |-> a]}
  BY <1>2 DEF Commit, LedgerRow
<1>11. QED
  BY <1>2, <1>3, <1>4, <1>5, <1>8, <1>9, <1>10 DEF Atomic!Transfer

\* A step of the service is one indivisible transfer or changes neither table.
LEMMA StepIsTransfer ==
  ASSUME IndInv, [Next]_vars
  PROVE  [Atomic!TransferNext]_(Atomic!abstractVars)
<1>1. CASE \E r \in Requests : Commit(r)
  <2>1. PICK r \in Requests : Commit(r)
    BY <1>1
  <2>2. QED
    BY <2>1, CommitEffect DEF Atomic!TransferNext, Jobs
<1>2. CASE UNCHANGED tables
  BY <1>2 DEF Atomic!abstractVars, tables
<1>3. QED
  BY <1>1, <1>2, OnlyCommitWrites DEF vars, tables

\* transferMoney implements the indivisible transfer, for any number of concurrent
\* requests and whatever connection breaks or process dies between two statements.
THEOREM Atomicity == Spec => ImplementsAtomicTransfer
<1>1. Init => Atomic!Start
  BY DEF Init, Atomic!Start
<1>2. IndInv /\ [Next]_vars => [Atomic!TransferNext]_(Atomic!abstractVars)
  BY StepIsTransfer
<1>3. QED
  BY <1>1, <1>2, Invariance, PTL DEF Spec, ImplementsAtomicTransfer, Atomic!AtomicSpec

\* The balance sent to the receiver is the one the transfer left it with.
THEOREM FetchedExact == Spec => FetchedBalanceIsExact
<1> DEFINE Exact == \A r \in Requests :
              (Atomic!Recorded(r)' /\ ~Atomic!Recorded(r)) => fetched[r] = balance'[job[r].to]
<1>1. IndInv /\ [Next]_vars => [Exact]_vars
  <2> SUFFICES ASSUME IndInv, Next, NEW q \in Requests,
                      Atomic!Recorded(q)', ~Atomic!Recorded(q)
               PROVE  fetched[q] = balance'[job[q].to]
    OBVIOUS
  <2>1. PICK r \in Requests : Commit(r)
    BY OnlyCommitWrites DEF tables, Atomic!Recorded
  <2>2. ledger' \subseteq ledger \cup {LedgerRow(r)}
    BY <2>1 DEF Commit
  <2>3. q = r
    BY <2>2 DEF Atomic!Recorded, LedgerRow
  <2>4. QED
    BY <2>1, <2>3, CommitEffect
<1>2. QED
  BY <1>1, Invariance, PTL DEF Spec, FetchedBalanceIsExact

-----------------------------------------------------------------------------
(* The ledger as the account of every balance: adding up rows.             *)

\* A row of n cents has n of them.
LEMMA RowCents ==
  ASSUME NEW row, NEW n \in Nat
  PROVE  IsFiniteSet({row} \X (1 .. n)) /\ Cardinality({row} \X (1 .. n)) = n
<1>1. IsFiniteSet({row}) /\ Cardinality({row}) = 1
  BY FS_Singleton
<1>2. IsFiniteSet(1 .. n) /\ Cardinality(1 .. n) = n
  BY FS_Interval
<1> DEFINE S == {row}  T == 1 .. n
<1> HIDE DEF S, T
<1>3. IsFiniteSet(S \X T) /\ Cardinality(S \X T) = Cardinality(S) * Cardinality(T)
  <2>1. IsFiniteSet(S) /\ IsFiniteSet(T)
    BY <1>1, <1>2 DEF S, T
  <2>2. QED
    BY <2>1, FS_Product
<1>4. Cardinality(S) * Cardinality(T) = n
  <2>1. Cardinality(S) = 1 /\ Cardinality(T) = n
    BY <1>1, <1>2 DEF S, T
  <2>2. QED
    BY <2>1
<1>5. QED
  BY <1>3, <1>4 DEF S, T

\* Finitely many rows have finitely many cents.
LEMMA CentsFinite ==
  ASSUME NEW rows, IsFiniteSet(rows), \A row \in rows : row.amount \in Nat
  PROVE  IsFiniteSet(Cents(rows)) /\ Total(rows) \in Nat
<1> DEFINE f == [row \in rows |-> {row} \X (1 .. row.amount)]
           S == {{row} \X (1 .. row.amount) : row \in rows}
<1>1. f \in Surjection(rows, S)
  BY DEF Surjection
<1>2. IsFiniteSet(S)
  BY <1>1, FS_Surjection
<1>3. ASSUME NEW row \in rows PROVE IsFiniteSet({row} \X (1 .. row.amount))
  <2>1. row.amount \in Nat
    OBVIOUS
  <2>2. QED
    BY <2>1, RowCents
<1>4. IsFiniteSet(UNION S)
  <2>1. \A T \in S : IsFiniteSet(T)
    BY <1>3
  <2> HIDE DEF S
  <2>2. QED
    BY <1>2, <2>1, FS_UNION
<1>5. QED
  BY <1>4, FS_CardinalityType DEF Cents, Total

\* A row that is added adds its amount.
LEMMA TotalOfNewRow ==
  ASSUME NEW rows, IsFiniteSet(rows), \A row \in rows : row.amount \in Nat,
         NEW new, new \notin rows, new.amount \in Nat
  PROVE  Total(rows \cup {new}) = Total(rows) + new.amount
<1> DEFINE C == {new} \X (1 .. new.amount)
<1>1. Cents(rows \cup {new}) = Cents(rows) \cup C
  BY DEF Cents
<1>2. Cents(rows) \cap C = {}
  <2>1. \A c \in Cents(rows) : c[1] \in rows
    BY DEF Cents
  <2>2. \A c \in C : c[1] = new
    OBVIOUS
  <2>3. QED
    BY <2>1, <2>2
<1>3. IsFiniteSet(C) /\ Cardinality(C) = new.amount
  BY RowCents
<1>4. IsFiniteSet(Cents(rows)) /\ Cardinality(Cents(rows)) \in Nat
  BY CentsFinite DEF Total
<1>5. Cardinality(Cents(rows) \cup C) = Cardinality(Cents(rows)) + Cardinality(C) - 0
  <2> HIDE DEF C
  <2>1. Cardinality(Cents(rows) \cup C)
          = Cardinality(Cents(rows)) + Cardinality(C) - Cardinality(Cents(rows) \cap C)
    BY <1>3, <1>4, FS_Union
  <2>2. QED
    BY <1>2, <2>1, FS_EmptySet
<1>6. Total(rows \cup {new}) = Cardinality(Cents(rows) \cup C) /\ Total(rows) = Cardinality(Cents(rows))
  BY <1>1 DEF Total
<1> HIDE DEF C
<1>7. QED
  BY <1>3, <1>4, <1>5, <1>6

\* No rows, no money.
LEMMA TotalOfNone == Total({}) = 0
  BY FS_EmptySet DEF Total, Cents

\* The amounts of ledger rows are numbers of cents.
LEMMA RowAmounts ==
  ASSUME TypeOK, NEW rows \in SUBSET ledger
  PROVE  \A row \in rows : row.amount \in Nat
<1>1. \A row \in ledger : row.amount \in Amounts
  BY DEF TypeOK, Atomic!Row
<1>2. QED
  BY <1>1, AmountsAssumption

\* What the ledger has to keep for its account to stay right.
LedgerInv == IsFiniteSet(ledger) /\ LedgerExplainsBalances

\* One transfer: the new row explains what the two accounts gained and lost, and says
\* nothing of the others.
LEMMA TransferExplained ==
  ASSUME TypeOK, LedgerInv,
         NEW r \in Requests, NEW s \in Users, NEW t \in Users, NEW a \in Amounts,
         Atomic!Transfer(r, s, t, a)
  PROVE  LedgerInv'
<1> DEFINE new == [id |-> r, sender |-> s, receiver |-> t, amount |-> a]
           In(u) == {row \in ledger : row.receiver = u}
           Out(u) == {row \in ledger : row.sender = u}
<1>1. /\ s # t /\ new \notin ledger /\ ledger' = ledger \cup {new}
      /\ balance' = [balance EXCEPT ![s] = @ - a, ![t] = @ + a]
      /\ a \in Nat
  BY DEF Atomic!Transfer, Atomic!Recorded
<1>2. IsFiniteSet(ledger')
  BY <1>1, FS_AddElement DEF LedgerInv
<1>3. ASSUME NEW u \in Users
      PROVE  balance'[u] = BalanceBy(u, ledger')
  <2>1. /\ IsFiniteSet(In(u)) /\ IsFiniteSet(Out(u))
        /\ \A row \in In(u) : row.amount \in Nat
        /\ \A row \in Out(u) : row.amount \in Nat
    BY FS_Subset, RowAmounts DEF LedgerInv
  <2>2. /\ Total(In(u)) \in Nat /\ Total(Out(u)) \in Nat
        /\ Total(In(u) \cup {new}) = Total(In(u)) + a
        /\ Total(Out(u) \cup {new}) = Total(Out(u)) + a
    <3>1. new \notin In(u) /\ new \notin Out(u) /\ new.amount = a
      BY <1>1
    <3> HIDE DEF new, In, Out
    <3>2. QED
      BY <1>1, <2>1, <3>1, CentsFinite, TotalOfNewRow
  <2>3. {row \in ledger' : row.receiver = u} = IF u = t THEN In(u) \cup {new} ELSE In(u)
    BY <1>1
  <2>4. {row \in ledger' : row.sender = u} = IF u = s THEN Out(u) \cup {new} ELSE Out(u)
    BY <1>1
  <2>5. balance[u] = InitialBalance[u] + Total(In(u)) - Total(Out(u))
    BY DEF LedgerInv, LedgerExplainsBalances, BalanceBy
  <2>6. balance'[u] = IF u = s THEN balance[u] - a ELSE IF u = t THEN balance[u] + a
                      ELSE balance[u]
    BY <1>1 DEF TypeOK
  <2>7. InitialBalance[u] \in Nat
    BY BalanceAssumption
  <2>8. BalanceBy(u, ledger') = InitialBalance[u]
                                 + Total(IF u = t THEN In(u) \cup {new} ELSE In(u))
                                 - Total(IF u = s THEN Out(u) \cup {new} ELSE Out(u))
    BY <2>3, <2>4 DEF BalanceBy
  <2> HIDE DEF new, In, Out
  <2>9. QED
    <3>1. CASE u = t
      BY <1>1, <2>2, <2>5, <2>6, <2>7, <2>8, <3>1
    <3>2. CASE u = s
      BY <1>1, <2>2, <2>5, <2>6, <2>7, <2>8, <3>2
    <3>3. CASE u # s /\ u # t
      BY <2>5, <2>6, <2>8, <3>3
    <3>4. QED
      BY <3>1, <3>2, <3>3
<1>4. QED
  BY <1>2, <1>3 DEF LedgerInv, LedgerExplainsBalances

\* One step of the service: a transfer, or nothing the ledger is about.
LEMMA LedgerStep == ASSUME IndInv, LedgerInv, [Next]_vars PROVE LedgerInv'
<1>1. CASE \E r \in Requests : Commit(r)
  <2>1. PICK r \in Requests : Commit(r)
    BY <1>1
  <2>2. job[r].from \in Users /\ job[r].amount \in Amounts
    BY <2>1, CommitEffect DEF Jobs
  <2>3. TypeOK
    BY DEF IndInv
  <2>4. QED
    BY <2>1, <2>2, <2>3, CommitEffect, TransferExplained
<1>2. CASE UNCHANGED tables
  BY <1>2 DEF tables, LedgerInv, LedgerExplainsBalances
<1>3. QED
  BY <1>1, <1>2, OnlyCommitWrites DEF vars, tables

\* An empty ledger explains the balances of the start.
LEMMA LedgerInit == Init => LedgerInv
<1> SUFFICES ASSUME Init PROVE LedgerInv
  OBVIOUS
<1>1. ledger = {} /\ balance = InitialBalance
  BY DEF Init
<1>2. ASSUME NEW u \in Users PROVE balance[u] = BalanceBy(u, ledger)
  <2>1. InitialBalance[u] \in Nat
    BY BalanceAssumption
  <2>2. {row \in ledger : row.receiver = u} = {} /\ {row \in ledger : row.sender = u} = {}
    BY <1>1
  <2>3. QED
    BY <1>1, <2>1, <2>2, TotalOfNone DEF BalanceBy
<1>3. QED
  BY <1>1, <1>2, FS_EmptySet DEF LedgerInv, LedgerExplainsBalances

\* The ledger is the account: at every moment, whatever transfers overlap, fail,
\* deadlock or lose their connection, each committed balance is the initial one plus
\* what the ledger says came in minus what it says went out.
THEOREM LedgerIsTheAccount == Spec => []LedgerExplainsBalances
<1>1. IndInv /\ LedgerInv /\ [Next]_vars => LedgerInv'
  BY LedgerStep
<1>2. LedgerInv => LedgerExplainsBalances
  BY DEF LedgerInv
<1>3. QED
  BY <1>1, <1>2, LedgerInit, Invariance, PTL DEF Spec
=============================================================================
