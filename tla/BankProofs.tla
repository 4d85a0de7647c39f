------------------------------ MODULE BankProofs ------------------------------
(***************************************************************************)
(* Proofs about BankServer, the composition: what TransferService promises *)
(* alone it promises in the server too, next to registrations, logins,     *)
(* dashboards and SIGTERM; and the properties of the composition itself.   *)
(* The invariants come in layers, each proved from those before it:        *)
(* IndInv (transfers), LedgerInv (the ledger), AuthInv (accounts),         *)
(* SendersOK (who moves money) and DashboardInv (what is shown).           *)
(***************************************************************************)
EXTENDS BankServer, TransferServiceProofs

USE AuthAssumption, MixesAssumption

-----------------------------------------------------------------------------
(* The transfers in the server.                                            *)

\* A broken connection under a handler of authentication counts as a fault, and is
\* nothing else to the transfers.
LEMMA FaultStep ==
  ASSUME IndInv, faults' \in 0 .. MaxFaults,
         UNCHANGED <<tables, dbVars, pc, appVars, reply, held, down, pushed>>
  PROVE  IndInv'
<1> USE DEF IndInv, tables, dbVars, appVars
<1>1. TypeOK' /\ PushedTransfersAreCommitted'
  BY DEF TypeOK, PushedTransfersAreCommitted
<1>2. ASSUME NEW q \in Requests PROVE (JobOK(q) /\ SessionOK(q) /\ PoolOK(q))'
  BY DEF JobOK, SessionOK, PoolOK, Applied, Debited, Credited, OwnsOnly
<1>3. ASSUME NEW q \in Requests PROVE (StageOK(q) /\ LedgerOK(q) /\ ReplyOK(q))'
  BY DEF StageOK, LedgerOK, ReplyOK, Applied, Debited, Credited, OwnsOnly, LedgerRow,
         Atomic!Recorded
<1>4. QED
  BY <1>1, <1>2, <1>3

\* Only the faults are touched: the transfers' part of a step that is none of theirs.
OnlyFaults ==
    /\ faults' \in 0 .. MaxFaults
    /\ UNCHANGED <<tables, dbVars, pc, appVars, reply, held, down, pushed>>

\* When the process dies without a transfer in progress, no connection is lent to one.
LEMMA BankCrashStep ==
  ASSUME IndInv, BankCrash
  PROVE  Crash \/ OnlyFaults
<1>1. CASE \E r \in Requests : InProgress(r)
  BY <1>1 DEF BankCrash, Crash
<1>2. CASE \A r \in Requests : ~InProgress(r)
  <2>1. held = {}
    <3>1. \A r \in held : r \in Requests /\ InProgress(r)
      BY DEF IndInv, TypeOK, PoolOK, InProgress
    <3>2. QED
      BY <1>2, <3>1
  <2>2. pc' = pc
    <3>1. pc \in [Requests -> Labels]
      BY DEF IndInv, TypeOK
    <3>2. pc' = [r \in Requests |-> pc[r]]
      BY <1>2 DEF BankCrash
    <3>3. QED
      BY <3>1, <3>2
  <2>3. faults' \in 0 .. MaxFaults
    BY SizesAssumption DEF BankCrash, IndInv, TypeOK
  <2>4. QED
    BY <2>1, <2>2, <2>3 DEF BankCrash, OnlyFaults
<1>3. QED
  BY <1>1, <1>2

\* A step of the server is a step of the transfers or leaves them alone, but for the
\* count of faults.
LEMMA ServerStep ==
  ASSUME IndInv, [BankNext]_bankVars
  PROVE  [Next]_vars \/ OnlyFaults
<1>1. ASSUME NEW k \in Calls, BankQueryRejects(k) PROVE OnlyFaults
  BY <1>1, SizesAssumption DEF BankQueryRejects, OnlyFaults, IndInv, TypeOK
<1>2. ASSUME NEW r \in Requests,
             BankSubmit(r) \/ BankStatement(r) \/ LoseConnection(r)
      PROVE  Next
  BY <1>2 DEF BankSubmit, BankStatement, Next
<1>3. ASSUME NEW k \in Calls, BankReceive(k) \/ BankCallStep(k) PROVE UNCHANGED vars
  BY <1>3 DEF BankReceive, BankCallStep
<1>4. ASSUME NEW d \in Dashboards, GetDashboard(d) \/ DashboardStep(d) PROVE UNCHANGED vars
  BY <1>4 DEF GetDashboard, DashboardStep, FindById, FindByUserId, DashboardTimeout
<1>5. ASSUME NEW u \in Users, JoinRoom(u) \/ LeaveRoom(u) PROVE UNCHANGED vars
  BY <1>5 DEF JoinRoom, LeaveRoom
<1>6. ASSUME SIGTERM \/ Exit PROVE UNCHANGED vars
  BY <1>6 DEF SIGTERM, Exit
<1>7. ASSUME UNCHANGED bankVars PROVE UNCHANGED vars
  BY <1>7 DEF bankVars
<1>8. QED
  BY <1>1, <1>2, <1>3, <1>4, <1>5, <1>6, <1>7, BankCrashStep DEF BankNext, Next

\* The transfers' invariant holds in the server, whatever handlers run between two of
\* their statements.
THEOREM ServerInvariance == BankSpec => []IndInv
<1>1. BankInit => IndInv
  BY InitInv DEF BankInit
<1>2. IndInv /\ [BankNext]_bankVars => IndInv'
  BY ServerStep, NextInv, FaultStep DEF OnlyFaults
<1>3. QED
  BY <1>1, <1>2, PTL DEF BankSpec

\* In the server, too, transferMoney implements the indivisible transfer.
THEOREM ServerAtomicity == BankSpec => ImplementsAtomicTransfer
<1>1. BankInit => Atomic!Start
  BY DEF BankInit, Init, Atomic!Start
<1>2. IndInv /\ [BankNext]_bankVars => [Atomic!TransferNext]_(Atomic!abstractVars)
  BY ServerStep, StepIsTransfer DEF OnlyFaults, tables, Atomic!abstractVars
<1>3. QED
  BY <1>1, <1>2, ServerInvariance, PTL DEF BankSpec, ImplementsAtomicTransfer, Atomic!AtomicSpec

\* In the server, too, the ledger is the account.
LEMMA ServerLedger == BankSpec => []LedgerInv
<1>1. BankInit => LedgerInv
  BY LedgerInit DEF BankInit
<1>2. IndInv /\ LedgerInv /\ [BankNext]_bankVars => LedgerInv'
  <2>1. ASSUME LedgerInv, OnlyFaults PROVE LedgerInv'
    BY <2>1 DEF OnlyFaults, tables, LedgerInv, LedgerExplainsBalances
  <2>2. QED
    BY <2>1, ServerStep, LedgerStep
<1>3. QED
  BY <1>1, <1>2, ServerInvariance, PTL DEF BankSpec

\* What the transfers promise alone they promise in the server: connections come back
\* clean, replies and events tell the truth, and the ledger is the account.
THEOREM ServerPromises ==
  BankSpec => [](/\ ReturnedConnectionsAreClean /\ RepliesMatchLedger
                 /\ PushedTransfersAreCommitted /\ LedgerExplainsBalances)
<1>1. IndInv => ReturnedConnectionsAreClean
  BY CleanByInv
<1>2. IndInv => RepliesMatchLedger /\ PushedTransfersAreCommitted
  BY DEF IndInv, RepliesMatchLedger, ReplyOK
<1>3. LedgerInv => LedgerExplainsBalances
  BY DEF LedgerInv
<1>4. QED
  BY <1>1, <1>2, <1>3, ServerInvariance, ServerLedger, PTL

-----------------------------------------------------------------------------
(* Authentication.                                                         *)

\* What a call at a statement is about, and a row that is there.
LEMMA AddressOfCall ==
  ASSUME AuthInv, NEW k \in Calls, callPc[k] # "idle"
  PROVE  form[k] \in Form /\ form[k].user \in Users
  BY DEF AuthInv, CallOK, Form

\* A row is made for an address that has none: nothing was known of that address, and the
\* row names the registration that made it.
LEMMA RowMade ==
  ASSUME AuthInv, NEW k \in Calls, callPc[k] = "create", Found(k) = None,
         account' = [account EXCEPT ![form[k].user] =
                       [verified |-> FALSE, otp |-> k, password |-> k]],
         Goes(k, "mail") \/ Answer(k, "error"),
         UNCHANGED <<form, mailed, tokens>>
  PROVE  AuthInv'
<1> USE DEF AuthInv
<1> DEFINE w == form[k].user
           row == [verified |-> FALSE, otp |-> k, password |-> k]
<1>1. /\ form[k] \in Form /\ w \in Users /\ account[w] = None /\ w \notin Seeded
      /\ Kind[k] = "register"
  BY AddressOfCall DEF Found, AccountOK, CallOK, HasRow, IsVerified
<1>2. row \in AccountRow /\ row # None /\ row.password = k /\ row.otp = k /\ ~row.verified
  <2>1. row \in AccountRow
    BY DEF AccountRow
  <2>2. row # None
    BY <2>1
  <2>3. row.password = k /\ row.otp = k /\ ~row.verified
    OBVIOUS
  <2>4. QED
    BY <2>1, <2>2, <2>3
<1>3. /\ account'[w] = row
      /\ \A u \in Users \ {w} : account'[u] = account[u]
      /\ account' \in [Users -> AccountRow \cup {None}]
  BY <1>1, <1>2 DEF AuthTypeOK
<1>4. /\ callPc' \in [Calls -> Places] /\ callPc'[k] \in {"mail", "done"}
      /\ \A q \in Calls \ {k} : callPc'[q] = callPc[q] /\ callReply'[q] = callReply[q]
      /\ callReply' \in [Calls -> Answers]
      /\ callReply'[k] # "created"
      /\ callReply'[k] # "none" => callPc'[k] = "done"
  BY DEF Goes, Answer, AuthTypeOK, Places, Answers, CallOK
<1> HIDE DEF row
<1>5. AuthTypeOK'
  BY <1>3, <1>4 DEF AuthTypeOK
<1>6. ASSUME NEW u \in Users PROVE AccountOK(u)'
  <2>1. CASE u = w
    BY <1>1, <1>2, <1>3, <1>4, <2>1 DEF AccountOK, HasRow, IsVerified, CodeWasMailed
  <2>2. CASE u # w
    BY <1>3, <1>4, <2>2 DEF AccountOK, HasRow, IsVerified, CodeWasMailed
  <2>3. QED
    BY <2>1, <2>2
<1>7. ASSUME NEW m \in mailed' PROVE MailOK(m)'
  BY <1>4 DEF AuthTypeOK, MailOK
<1>8. ASSUME NEW u \in Users PROVE /\ IsVerified(u) => u # w /\ IsVerified(u)'
                                   /\ HasRow(u) => u # w /\ account'[u] = account[u]
  BY <1>1, <1>3 DEF HasRow, IsVerified
<1>9. ASSUME NEW q \in Calls PROVE CallOK(q)'
  <2>1. CASE q = k
    BY <1>1, <1>2, <1>3, <1>4, <2>1 DEF CallOK, HasRow
  <2>2. CASE q # k
    <3>1. callPc[q] # "idle" => form[q].user \in Users
      BY AddressOfCall
    <3>2. callPc'[q] = callPc[q] /\ callReply'[q] = callReply[q]
      BY <1>4, <2>2
    <3>3. callPc[q] # "idle" /\ HasRow(form[q].user) =>
             account'[form[q].user] = account[form[q].user]
      BY <1>8, <3>1
    <3>4. CallOK(q)
      OBVIOUS
    <3>5. callPc[q] = "mail" \/ callReply[q] = "created" =>
             HasRow(form[q].user)' /\ account'[form[q].user].password = q
      BY <3>3, <3>4 DEF CallOK, HasRow
    <3>6. ASSUME callPc[q] = "update"
          PROVE  HasRow(form[q].user)' /\ CodeWasMailed(form[q].user)'
      <4>1. HasRow(form[q].user) /\ CodeWasMailed(form[q].user)
        BY <3>4, <3>6 DEF CallOK
      <4>2. account'[form[q].user] # None /\ account'[form[q].user].password = account[form[q].user].password
        BY <3>3, <3>6, <4>1 DEF HasRow
      <4>3. [to |-> form[q].user, code |-> account'[form[q].user].password] \in mailed
        BY <4>1, <4>2, Zenon DEF CodeWasMailed
      <4>4. form' = form /\ mailed' = mailed
        OBVIOUS
      <4>5. QED
        BY <4>2, <4>3, <4>4, Zenon DEF HasRow, CodeWasMailed
    <3>7. callPc[q] = "compare" => IsVerified(form[q].user)'
      BY <3>3, <3>4 DEF CallOK, HasRow, IsVerified
    <3>8. QED
      BY <3>2, <3>4, <3>5, <3>6, <3>7 DEF CallOK
  <2>3. QED
    BY <2>1, <2>2
<1>10. ASSUME NEW u \in tokens' PROVE IsVerified(u)'
  BY <1>8 DEF AuthTypeOK
<1>11. QED
  BY <1>5, <1>6, <1>7, <1>9, <1>10

\* A row is marked verified: whoever marks it knows that its code was mailed, and the
\* row's password stays.
LEMMA RowVerified ==
  ASSUME AuthInv, NEW k \in Calls, callPc[k] = "update",
         account' = [account EXCEPT ![form[k].user].verified = TRUE,
                                    ![form[k].user].otp = None],
         Answer(k, "ok") \/ Answer(k, "error"),
         UNCHANGED <<form, mailed, tokens>>
  PROVE  AuthInv'
<1> USE DEF AuthInv
<1> DEFINE w == form[k].user
<1>1. /\ form[k] \in Form /\ w \in Users /\ account[w] \in AccountRow /\ w \notin Seeded
      /\ HasRow(w) /\ CodeWasMailed(w) /\ Kind[k] = "verify"
  BY AddressOfCall DEF CallOK, AuthTypeOK, HasRow
<1>2. /\ account'[w] \in AccountRow /\ account'[w] # None
      /\ account'[w].password = account[w].password /\ account'[w].verified = TRUE
      /\ \A u \in Users \ {w} : account'[u] = account[u]
      /\ account' \in [Users -> AccountRow \cup {None}]
  <2>1. account'[w] = [account[w] EXCEPT !.verified = TRUE, !.otp = None]
    BY <1>1 DEF AuthTypeOK
  <2> DEFINE old == account[w]
             new == [old EXCEPT !.verified = TRUE, !.otp = None]
  <2>a. old \in [verified : BOOLEAN, otp : Calls \cup {None}, password : Calls \cup {None}]
    BY <1>1 DEF AccountRow
  <2> HIDE DEF old
  <2>b. new \in AccountRow
    BY <2>a DEF AccountRow
  <2>c. new.password = old.password /\ new.verified = TRUE
    BY <2>a
  <2>2. account'[w] \in AccountRow
    BY <2>1, <2>b DEF old
  <2>3. account'[w].password = account[w].password /\ account'[w].verified = TRUE
    BY <2>1, <2>c DEF old
  <2>4. /\ \A u \in Users \ {w} : account'[u] = account[u]
        /\ account' = [u \in Users |-> account'[u]]
    BY <1>1 DEF AuthTypeOK
  <2>d. ASSUME NEW u \in Users PROVE account'[u] \in AccountRow \cup {None}
    <3>1. CASE u = w
      BY <2>2, <3>1
    <3>2. CASE u # w
      BY <2>4, <3>2 DEF AuthTypeOK
    <3>3. QED
      BY <3>1, <3>2
  <2> HIDE DEF w
  <2>5. account' \in [Users -> AccountRow \cup {None}]
    BY <2>d, <2>4
  <2> USE DEF w
  <2>6. QED
    BY <2>2, <2>3, <2>4, <2>5
<1>3. /\ callPc' \in [Calls -> Places] /\ callPc'[k] = "done"
      /\ \A q \in Calls \ {k} : callPc'[q] = callPc[q] /\ callReply'[q] = callReply[q]
      /\ callReply' \in [Calls -> Answers]
      /\ callReply'[k] # "created"
  BY DEF Answer, AuthTypeOK, Places, Answers
<1>4. ASSUME NEW u \in Users
      PROVE  /\ HasRow(u) => HasRow(u)' /\ account'[u].password = account[u].password
             /\ IsVerified(u) => IsVerified(u)'
  BY <1>2 DEF HasRow, IsVerified
<1>5. AuthTypeOK'
  BY <1>2, <1>3 DEF AuthTypeOK
<1>6. ASSUME NEW u \in Users PROVE AccountOK(u)'
  <2>1. CASE u = w
    <3>1. account[w].password \in Calls /\ Kind[account[w].password] = "register"
          /\ callPc[account[w].password] \in {"mail", "done", "dead"}
          /\ form[account[w].password].user = w
      BY <1>1 DEF AccountOK
    <3>2. callPc'[account[w].password] \in {"mail", "done", "dead"}
      BY <1>3, <3>1
    <3>3. HasRow(u)' /\ IsVerified(u)' /\ CodeWasMailed(u)'
      BY <1>1, <1>2, <2>1 DEF IsVerified, HasRow, CodeWasMailed
    <3> DEFINE j == account[w].password
    <3>4. account'[u].password = j
      BY <1>2, <2>1
    <3>5. j \in Calls /\ Kind[j] = "register" /\ callPc'[j] \in {"mail", "done", "dead"}
          /\ form'[j].user = u
      BY <2>1, <3>1, <3>2
    <3> HIDE DEF j
    <3>6. QED
      BY <3>3, <3>4, <3>5 DEF AccountOK
  <2>2. CASE u # w
    BY <1>2, <1>3, <2>2 DEF AccountOK, HasRow, IsVerified, CodeWasMailed
  <2>3. QED
    BY <2>1, <2>2
<1>7. ASSUME NEW m \in mailed' PROVE MailOK(m)'
  BY <1>3 DEF AuthTypeOK, MailOK
<1>8. ASSUME NEW q \in Calls PROVE CallOK(q)'
  <2>1. CASE q = k
    BY <1>1, <1>3, <2>1 DEF CallOK
  <2>2. CASE q # k
    <3>1. callPc[q] # "idle" => form[q].user \in Users
      BY AddressOfCall
    <3>2. callPc'[q] = callPc[q] /\ callReply'[q] = callReply[q]
      BY <1>3, <2>2
    <3>3. callPc[q] # "idle" =>
            /\ HasRow(form[q].user) => HasRow(form[q].user)'
                 /\ account'[form[q].user].password = account[form[q].user].password
            /\ IsVerified(form[q].user) => IsVerified(form[q].user)'
      BY <1>4, <3>1 DEF HasRow, IsVerified
    <3>4. CallOK(q)
      OBVIOUS
    <3>5. callPc[q] = "mail" \/ callReply[q] = "created" =>
             HasRow(form[q].user)' /\ account'[form[q].user].password = q
      BY <3>3, <3>4 DEF CallOK, HasRow
    <3>6. ASSUME callPc[q] = "update"
          PROVE  HasRow(form[q].user)' /\ CodeWasMailed(form[q].user)'
      <4>1. HasRow(form[q].user) /\ CodeWasMailed(form[q].user)
        BY <3>4, <3>6 DEF CallOK
      <4>2. account'[form[q].user] # None /\ account'[form[q].user].password = account[form[q].user].password
        BY <3>3, <3>6, <4>1 DEF HasRow
      <4>3. [to |-> form[q].user, code |-> account'[form[q].user].password] \in mailed
        BY <4>1, <4>2, Zenon DEF CodeWasMailed
      <4>4. form' = form /\ mailed' = mailed
        OBVIOUS
      <4>5. QED
        BY <4>2, <4>3, <4>4, Zenon DEF HasRow, CodeWasMailed
    <3>7. callPc[q] = "compare" => IsVerified(form[q].user)'
      BY <3>3, <3>4 DEF CallOK, HasRow, IsVerified
    <3>8. QED
      BY <3>2, <3>4, <3>5, <3>6, <3>7 DEF CallOK
  <2>3. QED
    BY <2>1, <2>2
<1>9. ASSUME NEW u \in tokens' PROVE IsVerified(u)'
  BY <1>4 DEF AuthTypeOK
<1>10. QED
  BY <1>5, <1>6, <1>7, <1>8, <1>9

\* A statement that is refused or rejects without effect: the call ends, no row changes.
LEMMA CallRejected ==
  ASSUME AuthInv, NEW k \in Calls, callPc[k] \in {"find", "create", "update"},
         Answer(k, "error"), UNCHANGED <<account, form, mailed, tokens>>
  PROVE  AuthInv'
<1> USE DEF AuthInv
<1>1. AuthTypeOK'
  BY DEF Answer, AuthTypeOK, Places, Answers
<1>2. ASSUME NEW u \in Users PROVE AccountOK(u)'
  BY DEF Answer, AuthTypeOK, AccountOK, HasRow, IsVerified, CodeWasMailed
<1>3. ASSUME NEW m \in mailed' PROVE MailOK(m)'
  BY DEF Answer, AuthTypeOK, MailOK
<1>4. ASSUME NEW q \in Calls PROVE CallOK(q)'
  BY DEF Answer, AuthTypeOK, CallOK, HasRow, IsVerified, CodeWasMailed
<1>5. ASSUME NEW u \in tokens' PROVE IsVerified(u)'
  BY DEF Answer, AuthTypeOK, HasRow, IsVerified
<1>6. QED
  BY <1>1, <1>2, <1>3, <1>4, <1>5

\* A new request chooses its body: a wrong secret, a mailed code or a password.
LEMMA ReceiveStep == ASSUME AuthInv, NEW k \in Calls, Receive(k) PROVE AuthInv'
<1> USE DEF AuthInv
<1>1. AuthTypeOK'
  <2>1. PICK body \in [user : Applicants, secret : Secrets(k)] : form' = [form EXCEPT ![k] = body]
    BY DEF Receive
  <2>2. Secrets(k) \subseteq Calls
    BY DEF Secrets, AuthTypeOK
  <2>3. body \in Form
    BY <2>2 DEF Form
  <2>4. form' \in [Calls -> Form \cup {None}]
    BY <2>1, <2>3 DEF AuthTypeOK
  <2>5. QED
    BY <2>4 DEF Receive, Goes, AuthTypeOK, Places
<1>2. ASSUME NEW u \in Users PROVE AccountOK(u)'
  BY DEF Receive, Answer, Goes, Found, AuthTypeOK, AccountOK, CallOK, MailOK, HasRow, IsVerified,
         CodeWasMailed
<1>3. ASSUME NEW m \in mailed' PROVE MailOK(m)'
  BY DEF Receive, Answer, Goes, Found, AuthTypeOK, MailOK, CallOK, Form
<1>4. ASSUME NEW q \in Calls PROVE CallOK(q)'
  <2>1. PICK body \in [user : Applicants, secret : Secrets(k)] : form' = [form EXCEPT ![k] = body]
    BY DEF Receive
  <2>2. Secrets(k) \subseteq Calls
    BY DEF Secrets, AuthTypeOK
  <2>3. Kind[k] = "verify" => body.secret = k \/ \E m \in mailed : m.code = body.secret
    BY DEF Secrets
  <2>4. body \in Form
    BY <2>2 DEF Form
  <2>5. CASE q = k
    <3>1. form'[k] = body /\ callPc'[k] = "find" /\ callReply'[k] = callReply[k] /\ mailed' = mailed
      BY <2>1 DEF Receive, Goes, AuthTypeOK
    <3>2. callReply[k] = "none"
      BY DEF Receive, CallOK
    <3>3. QED
      BY <2>3, <2>4, <2>5, <3>1, <3>2 DEF CallOK
  <2>6. CASE q # k
    BY <2>6 DEF Receive, Goes, AuthTypeOK, CallOK, HasRow, IsVerified, CodeWasMailed
  <2>7. QED
    BY <2>5, <2>6
<1>5. ASSUME NEW u \in tokens' PROVE IsVerified(u)'
  BY DEF Receive, Answer, Goes, Found, AuthTypeOK, Form, CallOK, HasRow, IsVerified
<1>6. QED
  BY <1>1, <1>2, <1>3, <1>4, <1>5

\* The first statement of a registration changes no row.
LEMMA RegisterFindStep == ASSUME AuthInv, NEW k \in Calls, RegisterFind(k) PROVE AuthInv'
<1> USE DEF AuthInv
<1>1. AuthTypeOK'
  BY DEF RegisterFind, Answer, Goes, Found, AuthTypeOK, Places, Answers
<1>2. ASSUME NEW u \in Users PROVE AccountOK(u)'
  BY DEF RegisterFind, Answer, Goes, Found, AuthTypeOK, AccountOK, CallOK, MailOK, HasRow, IsVerified,
         CodeWasMailed
<1>3. ASSUME NEW m \in mailed' PROVE MailOK(m)'
  BY DEF RegisterFind, Answer, Goes, Found, AuthTypeOK, MailOK, CallOK, Form
<1>4. ASSUME NEW q \in Calls PROVE CallOK(q)'
  BY DEF RegisterFind, Answer, Goes, Found, AuthTypeOK, Form, AccountOK, CallOK, MailOK, HasRow, IsVerified,
         CodeWasMailed
<1>5. ASSUME NEW u \in tokens' PROVE IsVerified(u)'
  BY DEF RegisterFind, Answer, Goes, Found, AuthTypeOK, Form, CallOK, HasRow, IsVerified
<1>6. QED
  BY <1>1, <1>2, <1>3, <1>4, <1>5

\* A registration makes the row of an address that has none, or ends.
LEMMA CreateStep == ASSUME AuthInv, NEW k \in Calls, Create(k) PROVE AuthInv'
  BY RowMade, CallRejected DEF Create

\* The code of a registration goes to the address it registers.
LEMMA SendOTPStep == ASSUME AuthInv, NEW k \in Calls, SendOTP(k) PROVE AuthInv'
<1> USE DEF AuthInv
<1>1. AuthTypeOK'
  <2>1. [to |-> form[k].user, code |-> k] \in [to : Users, code : Calls]
    BY AddressOfCall DEF SendOTP
  <2>2. QED
    BY <2>1 DEF SendOTP, Answer, AuthTypeOK, Places, Answers
<1>2. ASSUME NEW u \in Users PROVE AccountOK(u)'
  BY DEF SendOTP, Answer, Goes, Found, AuthTypeOK, AccountOK, CallOK, MailOK, HasRow, IsVerified,
         CodeWasMailed
<1>3. ASSUME NEW m \in mailed' PROVE MailOK(m)'
  BY DEF SendOTP, Answer, Goes, Found, AuthTypeOK, MailOK, CallOK, Form
<1>4. ASSUME NEW q \in Calls PROVE CallOK(q)'
  BY DEF SendOTP, Answer, Goes, Found, AuthTypeOK, Form, AccountOK, CallOK, MailOK, HasRow, IsVerified,
         CodeWasMailed
<1>5. ASSUME NEW u \in tokens' PROVE IsVerified(u)'
  BY DEF SendOTP, Answer, Goes, Found, AuthTypeOK, Form, CallOK, HasRow, IsVerified
<1>6. QED
  BY <1>1, <1>2, <1>3, <1>4, <1>5

\* A mail that is not sent changes no row.
LEMMA SendOTPFailsStep == ASSUME AuthInv, NEW k \in Calls, SendOTPFails(k) PROVE AuthInv'
<1> USE DEF AuthInv
<1>1. AuthTypeOK'
  BY DEF SendOTPFails, Answer, Goes, Found, AuthTypeOK, Places, Answers
<1>2. ASSUME NEW u \in Users PROVE AccountOK(u)'
  BY DEF SendOTPFails, Answer, Goes, Found, AuthTypeOK, AccountOK, CallOK, MailOK, HasRow, IsVerified,
         CodeWasMailed
<1>3. ASSUME NEW m \in mailed' PROVE MailOK(m)'
  BY DEF SendOTPFails, Answer, Goes, Found, AuthTypeOK, MailOK, CallOK, Form
<1>4. ASSUME NEW q \in Calls PROVE CallOK(q)'
  BY DEF SendOTPFails, Answer, Goes, Found, AuthTypeOK, Form, AccountOK, CallOK, MailOK, HasRow, IsVerified,
         CodeWasMailed
<1>5. ASSUME NEW u \in tokens' PROVE IsVerified(u)'
  BY DEF SendOTPFails, Answer, Goes, Found, AuthTypeOK, Form, CallOK, HasRow, IsVerified
<1>6. QED
  BY <1>1, <1>2, <1>3, <1>4, <1>5

\* A code that is found right was mailed to the address.
LEMMA VerifyFindStep == ASSUME AuthInv, NEW k \in Calls, VerifyFind(k) PROVE AuthInv'
<1> USE DEF AuthInv
<1>1. AuthTypeOK'
  BY DEF VerifyFind, Answer, Goes, Found, AuthTypeOK, Places, Answers
<1>2. ASSUME NEW u \in Users PROVE AccountOK(u)'
  BY DEF VerifyFind, Answer, Goes, Found, AuthTypeOK, AccountOK, CallOK, MailOK, HasRow, IsVerified,
         CodeWasMailed
<1>3. ASSUME NEW m \in mailed' PROVE MailOK(m)'
  BY DEF VerifyFind, Answer, Goes, Found, AuthTypeOK, MailOK, CallOK, Form
<1>4. ASSUME NEW q \in Calls PROVE CallOK(q)'
  BY DEF VerifyFind, Answer, Goes, Found, AuthTypeOK, Form, AccountOK, CallOK, MailOK, HasRow, IsVerified,
         CodeWasMailed
<1>5. ASSUME NEW u \in tokens' PROVE IsVerified(u)'
  BY DEF VerifyFind, Answer, Goes, Found, AuthTypeOK, Form, CallOK, HasRow, IsVerified
<1>6. QED
  BY <1>1, <1>2, <1>3, <1>4, <1>5

\* Verifying keeps the row's password.
LEMMA MarkAsVerifiedStep == ASSUME AuthInv, NEW k \in Calls, MarkAsVerified(k) PROVE AuthInv'
  BY RowVerified DEF MarkAsVerified

\* Only the owner of a verified account gets to the comparison.
LEMMA LoginFindStep == ASSUME AuthInv, NEW k \in Calls, LoginFind(k) PROVE AuthInv'
<1> USE DEF AuthInv
<1>1. AuthTypeOK'
  BY DEF LoginFind, Answer, Goes, Found, AuthTypeOK, Places, Answers
<1>2. ASSUME NEW u \in Users PROVE AccountOK(u)'
  BY DEF LoginFind, Answer, Goes, Found, AuthTypeOK, AccountOK, CallOK, MailOK, HasRow, IsVerified,
         CodeWasMailed
<1>3. ASSUME NEW m \in mailed' PROVE MailOK(m)'
  BY DEF LoginFind, Answer, Goes, Found, AuthTypeOK, MailOK, CallOK, Form
<1>4. ASSUME NEW q \in Calls PROVE CallOK(q)'
  BY DEF LoginFind, Answer, Goes, Found, AuthTypeOK, Form, AccountOK, CallOK, MailOK, HasRow, IsVerified,
         CodeWasMailed
<1>5. ASSUME NEW u \in tokens' PROVE IsVerified(u)'
  BY DEF LoginFind, Answer, Goes, Found, AuthTypeOK, Form, CallOK, HasRow, IsVerified
<1>6. QED
  BY <1>1, <1>2, <1>3, <1>4, <1>5

\* A token is for a verified account.
LEMMA LoginCompareStep == ASSUME AuthInv, NEW k \in Calls, LoginCompare(k) PROVE AuthInv'
<1> USE DEF AuthInv
<1>1. AuthTypeOK'
  BY AddressOfCall DEF LoginCompare, Answer, AuthTypeOK, Places, Answers
<1>2. ASSUME NEW u \in Users PROVE AccountOK(u)'
  BY DEF LoginCompare, Answer, Goes, Found, AuthTypeOK, AccountOK, CallOK, MailOK, HasRow, IsVerified,
         CodeWasMailed
<1>3. ASSUME NEW m \in mailed' PROVE MailOK(m)'
  BY DEF LoginCompare, Answer, Goes, Found, AuthTypeOK, MailOK, CallOK, Form
<1>4. ASSUME NEW q \in Calls PROVE CallOK(q)'
  BY DEF LoginCompare, Answer, Goes, Found, AuthTypeOK, Form, AccountOK, CallOK, MailOK, HasRow, IsVerified,
         CodeWasMailed
<1>5. ASSUME NEW u \in tokens' PROVE IsVerified(u)'
  BY DEF LoginCompare, Answer, Goes, Found, AuthTypeOK, Form, CallOK, HasRow, IsVerified
<1>6. QED
  BY <1>1, <1>2, <1>3, <1>4, <1>5

\* A statement that rejects has been executed completely, or not at all.
LEMMA QueryRejectsStep == ASSUME AuthInv, NEW k \in Calls, QueryRejects(k) PROVE AuthInv'
  BY RowMade, RowVerified, CallRejected DEF QueryRejects

\* A killed process ends its calls where they stand.
LEMMA CallsDie ==
  ASSUME AuthInv,
         callPc' = [k \in Calls |-> IF CallInProgress(k) THEN "dead" ELSE callPc[k]],
         UNCHANGED <<account, form, callReply, mailed, tokens>>
  PROVE  AuthInv'
<1> USE DEF AuthInv
<1>1. AuthTypeOK'
  BY DEF CallInProgress, AuthTypeOK, Places
<1>2. ASSUME NEW u \in Users PROVE AccountOK(u)'
  BY DEF CallInProgress, AuthTypeOK, AccountOK, HasRow, IsVerified, CodeWasMailed
<1>3. ASSUME NEW m \in mailed' PROVE MailOK(m)'
  BY DEF CallInProgress, AuthTypeOK, MailOK
<1>4. ASSUME NEW q \in Calls PROVE CallOK(q)'
  BY DEF CallInProgress, AuthTypeOK, CallOK, HasRow, IsVerified, CodeWasMailed
<1>5. ASSUME NEW u \in tokens' PROVE IsVerified(u)'
  BY DEF HasRow, IsVerified
<1>6. QED
  BY <1>1, <1>2, <1>3, <1>4, <1>5

\* The start: the seeded accounts, verified, and no call.
LEMMA AuthInitInv == AuthInit => AuthInv
<1> SUFFICES ASSUME AuthInit PROVE AuthInv
  OBVIOUS
<1>1. \A u \in Seeded : account[u] = [verified |-> TRUE, otp |-> None, password |-> None]
  BY DEF AuthInit
<1>2. [verified |-> TRUE, otp |-> None, password |-> None] \in AccountRow
  BY DEF AccountRow
<1>3. AuthTypeOK
  BY <1>2 DEF AuthInit, AuthTypeOK, Places, Answers
<1>4. \A u \in Seeded : IsVerified(u)
  BY <1>1, <1>2 DEF IsVerified, HasRow
<1>5. \A u \in Users \ Seeded : ~HasRow(u)
  BY DEF AuthInit, HasRow
<1>6. QED
  BY <1>3, <1>4, <1>5 DEF AuthInit, AuthInv, AccountOK, CallOK

\* A step that leaves authentication alone.
LEMMA AuthStutter == ASSUME AuthInv, UNCHANGED authVars PROVE AuthInv'
<1> USE DEF AuthInv, authVars
<1>1. AuthTypeOK' /\ (\A u \in Users : AccountOK(u))' /\ (\A u \in tokens : IsVerified(u))'
  BY DEF AuthTypeOK, AccountOK, HasRow, IsVerified, CodeWasMailed
<1>2. (\A m \in mailed : MailOK(m))' /\ (\A k \in Calls : CallOK(k))'
  BY DEF MailOK, CallOK, HasRow, IsVerified, CodeWasMailed
<1>3. QED
  BY <1>1, <1>2

\* The invariant of authentication holds in the server.
LEMMA ServerAuth == BankSpec => []AuthInv
<1>1. BankInit => AuthInv
  BY AuthInitInv DEF BankInit
<1>2. AuthInv /\ [BankNext]_bankVars => AuthInv'
  <2> SUFFICES ASSUME AuthInv, [BankNext]_bankVars PROVE AuthInv'
    OBVIOUS
  <2>1. ASSUME NEW k \in Calls, BankReceive(k) \/ BankCallStep(k) \/ BankQueryRejects(k)
        PROVE  AuthInv'
    <3>1. ASSUME PoolTimeout(k) PROVE AuthInv'
      BY <3>1, CallRejected DEF PoolTimeout
    <3>2. QED
      BY <2>1, <3>1, ReceiveStep, RegisterFindStep, CreateStep, SendOTPStep, SendOTPFailsStep,
         VerifyFindStep, MarkAsVerifiedStep, LoginFindStep, LoginCompareStep,
         QueryRejectsStep DEF BankReceive, BankCallStep, BankQueryRejects, CallStep
  <2>2. ASSUME BankCrash PROVE AuthInv'
    BY <2>2, CallsDie DEF BankCrash
  <2>3. ASSUME NEW r \in Requests, \/ BankSubmit(r) \/ BankStatement(r)
                                   \/ LoseConnection(r) /\ UNCHANGED <<authVars, serverVars>>
        PROVE  UNCHANGED authVars
    BY <2>3 DEF BankSubmit, BankStatement
  <2>4. ASSUME NEW d \in Dashboards, GetDashboard(d) \/ DashboardStep(d)
        PROVE  UNCHANGED authVars
    BY <2>4 DEF GetDashboard, DashboardStep, FindById, FindByUserId, DashboardTimeout
  <2>5. ASSUME NEW u \in Users, JoinRoom(u) \/ LeaveRoom(u) PROVE UNCHANGED authVars
    BY <2>5 DEF JoinRoom, LeaveRoom
  <2>6. ASSUME SIGTERM \/ Exit \/ UNCHANGED bankVars PROVE UNCHANGED authVars
    BY <2>6 DEF SIGTERM, Exit, bankVars
  <2>7. QED
    BY <2>1, <2>2, <2>3, <2>4, <2>5, <2>6, AuthStutter DEF BankNext
<1>3. QED
  BY <1>1, <1>2, PTL DEF BankSpec

\* A registration that was told it succeeded keeps its account: no later call replaces
\* its password or, until it is used, its code.
THEOREM AccountsStay == BankSpec => []CreatedAccountsStay
<1>1. AuthInv => CreatedAccountsStay
  <2> SUFFICES ASSUME AuthInv, NEW k \in Calls, callReply[k] = "created"
               PROVE  /\ account[form[k].user].password = k
                      /\ account[form[k].user].verified \/ account[form[k].user].otp = k
    BY DEF CreatedAccountsStay
  <2>1. /\ HasRow(form[k].user) /\ account[form[k].user].password = k
        /\ form[k].user \in Users
    BY AddressOfCall DEF AuthInv, CallOK
  <2>2. QED
    BY <2>1 DEF AuthInv, AccountOK, IsVerified
<1>2. QED
  BY <1>1, ServerAuth, PTL

-----------------------------------------------------------------------------
(* Who moves money.                                                        *)

\* A token is never taken back.
LEMMA TokensGrow ==
  ASSUME [BankNext]_bankVars
  PROVE  tokens \subseteq tokens'
<1>1. ASSUME NEW k \in Calls, BankReceive(k) \/ BankCallStep(k) \/ BankQueryRejects(k)
      PROVE  tokens \subseteq tokens'
  BY <1>1 DEF BankReceive, BankCallStep, BankQueryRejects, CallStep, Receive, RegisterFind, Create,
     SendOTP, SendOTPFails, VerifyFind, MarkAsVerified, LoginFind, LoginCompare, PoolTimeout,
     QueryRejects
<1>2. ASSUME NEW r \in Requests, \/ BankSubmit(r) \/ BankStatement(r)
                                 \/ LoseConnection(r) /\ UNCHANGED <<authVars, serverVars>>
      PROVE  tokens \subseteq tokens'
  BY <1>2 DEF BankSubmit, BankStatement, authVars
<1>3. ASSUME NEW d \in Dashboards, GetDashboard(d) \/ DashboardStep(d)
      PROVE  tokens \subseteq tokens'
  BY <1>3 DEF GetDashboard, DashboardStep, FindById, FindByUserId, DashboardTimeout, authVars
<1>4. ASSUME NEW u \in Users, JoinRoom(u) \/ LeaveRoom(u)
      PROVE  tokens \subseteq tokens'
  BY <1>4 DEF JoinRoom, LeaveRoom, authVars
<1>5. ASSUME SIGTERM \/ Exit \/ BankCrash \/ UNCHANGED bankVars
      PROVE  tokens \subseteq tokens'
  BY <1>5 DEF SIGTERM, Exit, BankCrash, bankVars, authVars
<1>6. QED
  BY <1>1, <1>2, <1>3, <1>4, <1>5 DEF BankNext

\* The ledger only grows, by the row of a request that was submitted.
LEMMA LedgerGrows ==
  ASSUME IndInv, [BankNext]_bankVars
  PROVE  /\ ledger \subseteq ledger'
         /\ \A row \in ledger' \ ledger :
              \E r \in Requests : pc[r] # "idle" /\ row.sender = job[r].from
<1>1. UNCHANGED tables \/ \E r \in Requests : Commit(r)
  BY ServerStep, OnlyCommitWrites DEF vars, tables, OnlyFaults
<1>2. CASE UNCHANGED tables
  BY <1>2 DEF tables
<1>3. CASE \E r \in Requests : Commit(r)
  <2>1. PICK r \in Requests : Commit(r)
    BY <1>3
  <2>2. pc[r] # "idle"
    BY <2>1 DEF Commit, IndInv, SessionOK
  <2>3. ledger' = ledger \cup {LedgerRow(r)} \/ ledger' = ledger
    BY <2>1 DEF Commit
  <2>4. LedgerRow(r).sender = job[r].from
    BY DEF LedgerRow
  <2>5. QED
    BY <2>2, <2>3, <2>4
<1>4. QED
  BY <1>1, <1>2, <1>3

\* A request's job is chosen when it comes in, and kept.
LEMMA JobsStay ==
  ASSUME IndInv, [BankNext]_bankVars, NEW q \in Requests, pc'[q] # "idle"
  PROVE  (pc[q] # "idle" /\ job'[q] = job[q]) \/ BankSubmit(q)
<1> USE DEF IndInv
<1>1. ASSUME NEW r \in Requests, BankSubmit(r)
      PROVE  (pc[q] # "idle" /\ job'[q] = job[q]) \/ BankSubmit(q)
  BY <1>1 DEF BankSubmit, Submit, TypeOK
<1>2. ASSUME NEW r \in Requests, Statement(r) PROVE pc[q] # "idle" /\ job'[q] = job[q]
  BY <1>2 DEF Statement, TypeOK, Connect, ConnectTimeout, Begin, FindSender, FindReceiver, Debit,
     Credit, UpdateBalance, FetchReceiver, InsertRow, Commit, Finish, Rollback, RollbackRejected,
     DeadlockAbort, InDeadlock, Blocked, EndSession, appVars
<1>3. ASSUME NEW r \in Requests, LoseConnection(r) PROVE pc[q] # "idle" /\ job'[q] = job[q]
  BY <1>3 DEF LoseConnection, TypeOK, PoolOK, appVars
<1>4. ASSUME BankCrash PROVE pc[q] # "idle" /\ job'[q] = job[q]
  BY <1>4 DEF BankCrash, TypeOK, InProgress, appVars
<1>5. ASSUME UNCHANGED <<pc, job>> PROVE pc[q] # "idle" /\ job'[q] = job[q]
  BY <1>5
<1>6. ASSUME NEW k \in Calls, BankReceive(k) \/ BankCallStep(k) \/ BankQueryRejects(k)
      PROVE  UNCHANGED <<pc, job>>
  BY <1>6 DEF BankReceive, BankCallStep, BankQueryRejects, vars, appVars
<1>7. ASSUME NEW d \in Dashboards, GetDashboard(d) \/ DashboardStep(d)
      PROVE  UNCHANGED <<pc, job>>
  BY <1>7 DEF GetDashboard, DashboardStep, FindById, FindByUserId, DashboardTimeout, vars
<1>8. ASSUME NEW u \in Users, JoinRoom(u) \/ LeaveRoom(u)
      PROVE  UNCHANGED <<pc, job>>
  BY <1>8 DEF JoinRoom, LeaveRoom, vars
<1>9. ASSUME SIGTERM \/ Exit \/ UNCHANGED bankVars PROVE UNCHANGED <<pc, job>>
  BY <1>9 DEF SIGTERM, Exit, bankVars, vars
<1>10. QED
  BY <1>1, <1>2, <1>3, <1>4, <1>5, <1>6, <1>7, <1>8, <1>9 DEF BankNext, BankStatement

\* Whoever moves money holds a token.
LEMMA ServerSenders == BankSpec => []SendersOK
<1>1. BankInit => SendersOK
  BY DEF BankInit, Init, SendersOK
<1>2. IndInv /\ SendersOK /\ [BankNext]_bankVars => SendersOK'
  <2> SUFFICES ASSUME IndInv, SendersOK, [BankNext]_bankVars PROVE SendersOK'
    OBVIOUS
  <2>1. tokens \subseteq tokens'
    BY TokensGrow
  <2>2. ASSUME NEW q \in Requests, pc'[q] # "idle" PROVE job'[q].from \in tokens'
    <3>1. CASE BankSubmit(q)
      BY <2>1, <3>1 DEF BankSubmit
    <3>2. CASE pc[q] # "idle" /\ job'[q] = job[q]
      BY <2>1, <3>2 DEF SendersOK
    <3>3. QED
      BY <2>2, <3>1, <3>2, JobsStay
  <2>3. ASSUME NEW row \in ledger' PROVE row.sender \in tokens'
    BY <2>1, LedgerGrows DEF SendersOK
  <2>4. QED
    BY <2>2, <2>3 DEF SendersOK
<1>3. QED
  BY <1>1, <1>2, ServerInvariance, PTL DEF BankSpec

\* Money leaves an account only after its owner has read the mail of the registration
\* that made it.
THEOREM SendersVerified == BankSpec => []SendersAreVerified
<1>1. AuthInv /\ SendersOK => SendersAreVerified
  <2> SUFFICES ASSUME AuthInv, SendersOK,
                      NEW u \in (tokens \cup {row.sender : row \in ledger}) \ Seeded
               PROVE  /\ account[u] # None /\ account[u].verified
                      /\ [to |-> u, code |-> account[u].password] \in mailed
    BY DEF SendersAreVerified
  <2>1. u \in tokens /\ u \in Users
    BY DEF SendersOK, AuthInv, AuthTypeOK
  <2>2. IsVerified(u) /\ CodeWasMailed(u)
    BY <2>1 DEF AuthInv, AccountOK, IsVerified
  <2>3. QED
    BY <2>2 DEF IsVerified, HasRow, CodeWasMailed
<1>2. QED
  BY <1>1, ServerAuth, ServerSenders, PTL

-----------------------------------------------------------------------------
(* What a dashboard shows.                                                 *)

\* The rows a user takes part in are the ones its balance is made of.
LEMMA OwnRowsExplain ==
  ASSUME LedgerInv, NEW u \in Users
  PROVE  balance[u] = BalanceBy(u, {row \in ledger : u \in {row.sender, row.receiver}})
<1> DEFINE own == {row \in ledger : u \in {row.sender, row.receiver}}
<1>1. /\ {row \in own : row.receiver = u} = {row \in ledger : row.receiver = u}
      /\ {row \in own : row.sender = u} = {row \in ledger : row.sender = u}
  OBVIOUS
<1>2. BalanceBy(u, own) = BalanceBy(u, ledger)
  BY <1>1 DEF BalanceBy
<1>3. QED
  BY <1>2 DEF LedgerInv, LedgerExplainsBalances

\* Another step than the dashboard's own two finds at least the rows it would have found.
LEMMA DashboardKept ==
  ASSUME NEW d \in Dashboards, DashboardOK(d), ledger \subseteq ledger',
         viewer'[d] = viewer[d], shown'[d] = shown[d],
         dashPc'[d] = dashPc[d] \/ (dashPc'[d] \in {"error", "dead"} /\ dashPc[d] # "idle")
  PROVE  DashboardOK(d)'
<1>1. OwnRows(d) \subseteq OwnRows(d)'
  BY DEF OwnRows
<1>2. dashPc'[d] # "idle" => viewer'[d] \in Users
  BY DEF DashboardOK
<1>3. ASSUME dashPc'[d] = "findByUserId"
      PROVE  \E rows \in SUBSET OwnRows(d)' : shown'[d].balance = BalanceBy(viewer'[d], rows)
  <2>1. PICK rows \in SUBSET OwnRows(d) : shown[d].balance = BalanceBy(viewer[d], rows)
    BY <1>3 DEF DashboardOK
  <2>2. QED
    BY <1>1, <2>1
<1>4. ASSUME dashPc'[d] = "done"
      PROVE  \E rows \in SUBSET shown'[d].rows : shown'[d].balance = BalanceBy(viewer'[d], rows)
  <2>1. PICK rows \in SUBSET shown[d].rows : shown[d].balance = BalanceBy(viewer[d], rows)
    BY <1>4 DEF DashboardOK
  <2>2. QED
    BY <2>1
<1>5. QED
  BY <1>2, <1>3, <1>4 DEF DashboardOK

\* The first statement: the balance is explained by the rows of this moment.
LEMMA FindByIdStep ==
  ASSUME TypeOK, LedgerInv, DashboardInv, NEW d \in Dashboards, FindById(d)
  PROVE  DashboardInv'
<1> USE DEF DashboardInv
<1>1. viewer[d] \in Users /\ balance[viewer[d]] \in Int
  BY DEF FindById, DashboardOK, TypeOK
<1>2. /\ shown'[d].balance = balance[viewer[d]] /\ dashPc'[d] = "findByUserId"
      /\ ledger' = ledger /\ viewer' = viewer
      /\ \A e \in Dashboards \ {d} : dashPc'[e] = dashPc[e] /\ shown'[e] = shown[e]
  BY DEF FindById, ServerTypeOK, vars
<1>3. ServerTypeOK'
  BY <1>1 DEF FindById, ServerTypeOK
<1>4. DashboardOK(d)'
  <2>1. balance[viewer[d]] = BalanceBy(viewer[d], OwnRows(d))
    BY <1>1, OwnRowsExplain DEF OwnRows
  <2>2. OwnRows(d)' = OwnRows(d)
    BY <1>2 DEF OwnRows
  <2>3. QED
    BY <1>1, <1>2, <2>1, <2>2 DEF DashboardOK
<1>5. ASSUME NEW e \in Dashboards, e # d PROVE DashboardOK(e)'
  BY <1>2, <1>5, DashboardKept
<1>6. QED
  BY <1>3, <1>4, <1>5

\* The second: those rows are still there.
LEMMA FindByUserIdStep ==
  ASSUME TypeOK, DashboardInv, NEW d \in Dashboards, FindByUserId(d)
  PROVE  DashboardInv'
<1> USE DEF DashboardInv
<1>1. OwnRows(d) \subseteq Atomic!Row
  BY DEF OwnRows, TypeOK
<1>2. /\ shown'[d].balance = shown[d].balance /\ shown'[d].rows = OwnRows(d)
      /\ dashPc'[d] = "done" /\ ledger' = ledger /\ viewer' = viewer
      /\ \A e \in Dashboards \ {d} : dashPc'[e] = dashPc[e] /\ shown'[e] = shown[e]
  BY DEF FindByUserId, ServerTypeOK, vars
<1>3. ServerTypeOK'
  BY <1>1 DEF FindByUserId, ServerTypeOK
<1>4. DashboardOK(d)'
  <2>1. /\ viewer[d] \in Users
        /\ \E rows \in SUBSET OwnRows(d) : shown[d].balance = BalanceBy(viewer[d], rows)
    BY DEF DashboardOK, FindByUserId
  <2>2. QED
    BY <1>2, <2>1 DEF DashboardOK
<1>5. ASSUME NEW e \in Dashboards, e # d PROVE DashboardOK(e)'
  BY <1>2, <1>5, DashboardKept
<1>6. QED
  BY <1>3, <1>4, <1>5

\* Every other step leaves what a dashboard has read, and adds rows at most.
LEMMA DashboardUntouched ==
  ASSUME DashboardInv, ledger \subseteq ledger', UNCHANGED <<dashPc, viewer, shown>>
  PROVE  DashboardInv'
<1>1. ServerTypeOK'
  BY DEF DashboardInv, ServerTypeOK
<1>2. ASSUME NEW d \in Dashboards PROVE DashboardOK(d)'
  BY DashboardKept DEF DashboardInv
<1>3. QED
  BY <1>1, <1>2 DEF DashboardInv

\* Every step of the server: the two reads of a dashboard, and all others.
LEMMA DashboardStepInv ==
  ASSUME IndInv, LedgerInv, AuthInv, DashboardInv, [BankNext]_bankVars
  PROVE  DashboardInv'
<1>1. TypeOK /\ ledger \subseteq ledger'
  BY LedgerGrows DEF IndInv
<1>2. ASSUME NEW d \in Dashboards, GetDashboard(d) PROVE DashboardInv'
  <2>1. /\ viewer'[d] \in Users /\ dashPc'[d] = "findById"
        /\ \A e \in Dashboards \ {d} : dashPc'[e] = dashPc[e] /\ viewer'[e] = viewer[e]
        /\ shown' = shown /\ ledger' = ledger
    BY <1>2 DEF GetDashboard, DashboardInv, ServerTypeOK, AuthInv, AuthTypeOK, vars
  <2>2. ServerTypeOK'
    BY <1>2 DEF GetDashboard, DashboardInv, ServerTypeOK, AuthInv, AuthTypeOK
  <2>3. DashboardOK(d)'
    BY <2>1 DEF DashboardOK
  <2>4. ASSUME NEW e \in Dashboards, e # d PROVE DashboardOK(e)'
    BY <2>1, <2>4, DashboardKept DEF DashboardInv
  <2>5. QED
    BY <2>2, <2>3, <2>4 DEF DashboardInv
<1>3. ASSUME NEW d \in Dashboards, DashboardTimeout(d) PROVE DashboardInv'
  <2>1. ServerTypeOK'
    BY <1>3 DEF DashboardTimeout, DashboardInv, ServerTypeOK
  <2>2. ASSUME NEW e \in Dashboards PROVE DashboardOK(e)'
    <3>1. /\ viewer' = viewer /\ shown' = shown
          /\ dashPc'[e] = dashPc[e] \/ (dashPc'[e] = "error" /\ dashPc[e] # "idle")
      BY <1>3 DEF DashboardTimeout, DashboardInv, ServerTypeOK
    <3>2. QED
      BY <1>1, <3>1, DashboardKept DEF DashboardInv
  <2>3. QED
    BY <2>1, <2>2 DEF DashboardInv
<1>4. ASSUME BankCrash PROVE DashboardInv'
  <2>1. ServerTypeOK'
    BY <1>4 DEF BankCrash, DashboardInv, ServerTypeOK
  <2>2. ASSUME NEW e \in Dashboards PROVE DashboardOK(e)'
    <3>1. /\ viewer' = viewer /\ shown' = shown
          /\ dashPc'[e] = dashPc[e] \/ (dashPc'[e] = "dead" /\ dashPc[e] # "idle")
      BY <1>4 DEF BankCrash, DashboardInProgress, DashboardInv, ServerTypeOK
    <3>2. QED
      BY <1>1, <3>1, DashboardKept DEF DashboardInv
  <2>3. QED
    BY <2>1, <2>2 DEF DashboardInv
<1>5. ASSUME NEW r \in Requests, \/ BankSubmit(r) \/ BankStatement(r)
                                 \/ LoseConnection(r) /\ UNCHANGED <<authVars, serverVars>>
      PROVE  UNCHANGED <<dashPc, viewer, shown>>
  BY <1>5 DEF BankSubmit, BankStatement, serverVars
<1>6. ASSUME NEW k \in Calls, BankReceive(k) \/ BankCallStep(k) \/ BankQueryRejects(k)
      PROVE  UNCHANGED <<dashPc, viewer, shown>>
  BY <1>6 DEF BankReceive, BankCallStep, BankQueryRejects, serverVars
<1>7. ASSUME NEW u \in Users, JoinRoom(u) \/ LeaveRoom(u)
      PROVE  UNCHANGED <<dashPc, viewer, shown>>
  BY <1>7 DEF JoinRoom, LeaveRoom
<1>8. ASSUME SIGTERM \/ Exit \/ UNCHANGED bankVars
      PROVE  UNCHANGED <<dashPc, viewer, shown>>
  BY <1>8 DEF SIGTERM, Exit, bankVars, serverVars
<1>9. QED
  BY <1>1, <1>2, <1>3, <1>4, <1>5, <1>6, <1>7, <1>8, FindByIdStep, FindByUserIdStep,
     DashboardUntouched DEF BankNext, DashboardStep

\* The balance of a dashboard is the initial one and some of the transactions next to it,
\* whatever commits between its two statements.
THEOREM DashboardsExplained == BankSpec => []DashboardsAreExplained
<1>1. BankInit => DashboardInv
  BY DEF BankInit, DashboardInv, ServerTypeOK, DashboardOK, Nothing
<1>2. IndInv /\ LedgerInv /\ AuthInv /\ DashboardInv /\ [BankNext]_bankVars => DashboardInv'
  BY DashboardStepInv
<1>3. DashboardInv => DashboardsAreExplained
  BY DEF DashboardInv, DashboardOK, DashboardsAreExplained
<1>4. QED
  BY <1>1, <1>2, <1>3, ServerInvariance, ServerLedger, ServerAuth, PTL DEF BankSpec
=============================================================================
