------------------------------ MODULE AuthService ------------------------------
(***************************************************************************)
(* AuthService and its controller: registration, verification of the code  *)
(* sent by mail, and login.  A statement through the pool borrows a        *)
(* connection of the same pool as the transfers for as long as it runs, so *)
(* that it is one action, and is refused when the pool is exhausted.       *)
(*                                                                         *)
(* A registration's code, password and account are named by the call that  *)
(* chose them.  The users of the transfers' module have a row when they    *)
(* are registered; their balance is that module's.                         *)
(***************************************************************************)
EXTENDS TransferService

CONSTANTS
    Calls,       \* HTTP requests to /api/auth
    Kind,        \* what each is: "register", "verify" or "login"
    Seeded,      \* the accounts of initTables.js, verified from the start
    Applicants   \* bound: the addresses these requests are about

\* A row of users, as far as authentication goes.
AccountRow == [verified : BOOLEAN, otp : Calls \cup {None}, password : Calls \cup {None}]

\* The body of a request.
Form == [user : Applicants, secret : Calls]

ASSUME AuthAssumption ==
    /\ Kind \in [Calls -> {"register", "verify", "login"}]
    /\ Seeded \subseteq Users /\ Applicants \subseteq Users
    /\ None \notin Calls \cup AccountRow

VARIABLES
    account,    \* the auth columns of each address's row, None where there is no row
    callPc,     \* where each call is in its handler
    form,       \* the body of each request: an address, and a code or a password
    callReply,  \* its answer
    mailed,     \* the codes that were mailed
    tokens      \* addresses whose owner holds a token

authVars == <<account, callPc, form, callReply, mailed, tokens>>

Registered == {u \in Users : account[u] # None}

AuthInit ==
    /\ account = [u \in Users |-> IF u \in Seeded
                    THEN [verified |-> TRUE, otp |-> None, password |-> None] ELSE None]
    /\ callPc = [k \in Calls |-> "idle"]
    /\ form = [k \in Calls |-> None]
    /\ callReply = [k \in Calls |-> "none"]
    /\ mailed = {}
    /\ tokens = Seeded

Answer(k, code) ==
    /\ callPc' = [callPc EXCEPT ![k] = "done"]
    /\ callReply' = [callReply EXCEPT ![k] = code]

Goes(k, place) == callPc' = [callPc EXCEPT ![k] = place] /\ UNCHANGED callReply

\* pool.query gets one of the connections that are not lent to a transfer.
ConnectionIsFree == Cardinality(held) < PoolSize

-----------------------------------------------------------------------------
\* A registration chooses its code and password, a verification carries a code that was
\* mailed, a login the password of a registration; or both carry a wrong one.
Secrets(k) ==
    CASE Kind[k] = "register" -> {k}
      [] Kind[k] = "verify"   -> {k} \cup {m.code : m \in mailed}
      [] Kind[k] = "login"    -> {k} \cup {q \in Calls : Kind[q] = "register" /\ callPc[q] # "idle"}

Receive(k) ==
    /\ callPc[k] = "idle"
    /\ \E body \in [user : Applicants, secret : Secrets(k)] : form' = [form EXCEPT ![k] = body]
    /\ Goes(k, "find")
    /\ UNCHANGED <<account, mailed, tokens>>

Found(k) == account[form[k].user]

\* registerUser's findByEmail: 409 when there is a row; else the password is hashed.
RegisterFind(k) ==
    /\ callPc[k] = "find" /\ Kind[k] = "register" /\ ConnectionIsFree
    /\ IF Found(k) # None THEN Answer(k, "conflict") ELSE Goes(k, "create")
    /\ UNCHANGED <<account, form, mailed, tokens>>

\* Bug: the row of the same address is updated instead.
Create_Upsert(k) ==
    /\ callPc[k] = "create" /\ ConnectionIsFree
    /\ account' = [account EXCEPT ![form[k].user] =
                     [verified |-> FALSE, otp |-> k, password |-> k]]
    /\ Goes(k, "mail")
    /\ UNCHANGED <<form, mailed, tokens>>

\* userRepository.create: the column is UNIQUE, and its violation is not the error the
\* controller knows, so that it is answered 500.
Create(k) ==
    /\ callPc[k] = "create" /\ ConnectionIsFree
    /\ IF Found(k) = None
       THEN /\ account' = [account EXCEPT ![form[k].user] =
                             [verified |-> FALSE, otp |-> k, password |-> k]]
            /\ Goes(k, "mail")
       ELSE Answer(k, "error") /\ UNCHANGED account
    /\ UNCHANGED <<form, mailed, tokens>>

SendOTP(k) ==
    /\ callPc[k] = "mail"
    /\ mailed' = mailed \cup {[to |-> form[k].user, code |-> k]}
    /\ Answer(k, "created")
    /\ UNCHANGED <<account, form, tokens>>

\* sendMail rejects: 500, though the account is there.
SendOTPFails(k) ==
    /\ callPc[k] = "mail"
    /\ Answer(k, "error")
    /\ UNCHANGED <<account, form, mailed, tokens>>

\* verifyOTP's findByEmail and its checks.
VerifyFind(k) ==
    /\ callPc[k] = "find" /\ Kind[k] = "verify" /\ ConnectionIsFree
    /\ IF Found(k) = None THEN Answer(k, "bad")
       ELSE IF Found(k).verified THEN Answer(k, "conflict")
       ELSE IF Found(k).otp # form[k].secret THEN Answer(k, "bad")
       ELSE Goes(k, "update")
    /\ UNCHANGED <<account, form, mailed, tokens>>

MarkAsVerified(k) ==
    /\ callPc[k] = "update" /\ ConnectionIsFree
    /\ account' = [account EXCEPT ![form[k].user].verified = TRUE, ![form[k].user].otp = None]
    /\ Answer(k, "ok")
    /\ UNCHANGED <<form, mailed, tokens>>

\* Bug: the account need not be verified.
LoginFind_Unverified(k) ==
    /\ callPc[k] = "find" /\ Kind[k] = "login" /\ ConnectionIsFree
    /\ IF Found(k) = None THEN Answer(k, "unauthorized") ELSE Goes(k, "compare")
    /\ UNCHANGED <<account, form, mailed, tokens>>

LoginFind(k) ==
    /\ callPc[k] = "find" /\ Kind[k] = "login" /\ ConnectionIsFree
    /\ IF Found(k) = None THEN Answer(k, "unauthorized")
       ELSE IF ~Found(k).verified THEN Answer(k, "unauthorized")
       ELSE Goes(k, "compare")
    /\ UNCHANGED <<account, form, mailed, tokens>>

\* bcrypt.compare with the hash read before, which no handler changes, and jwt.sign.
LoginCompare(k) ==
    /\ callPc[k] = "compare"
    /\ IF Found(k).password = form[k].secret
       THEN Answer(k, "ok") /\ tokens' = tokens \cup {form[k].user}
       ELSE Answer(k, "unauthorized") /\ UNCHANGED tokens
    /\ UNCHANGED <<account, form, mailed>>

\* No connection becomes idle in time: the statement rejects, the answer is 500.
PoolTimeout(k) ==
    /\ callPc[k] \in {"find", "create", "update"} /\ ~ConnectionIsFree
    /\ Answer(k, "error")
    /\ UNCHANGED <<account, form, mailed, tokens>>

\* The connection breaks under the INSERT or UPDATE, before the server executed it or after.
QueryRejects(k) ==
    /\ callPc[k] \in {"find", "create", "update"} /\ ConnectionIsFree
    /\ Answer(k, "error")
    /\ \/ UNCHANGED account
       \/ /\ callPc[k] = "create" /\ Found(k) = None
          /\ account' = [account EXCEPT ![form[k].user] =
                           [verified |-> FALSE, otp |-> k, password |-> k]]
       \/ /\ callPc[k] = "update"
          /\ account' = [account EXCEPT ![form[k].user].verified = TRUE,
                                        ![form[k].user].otp = None]
    /\ UNCHANGED <<form, mailed, tokens>>

CallStep(k) ==
    \/ RegisterFind(k) \/ Create(k) \/ SendOTP(k) \/ SendOTPFails(k)
    \/ VerifyFind(k) \/ MarkAsVerified(k) \/ LoginFind(k) \/ LoginCompare(k) \/ PoolTimeout(k)

CallInProgress(k) == callPc[k] \notin {"idle", "done", "dead"}

-----------------------------------------------------------------------------
\* A registration that was answered 201 made the account its address has from then on:
\* however many registrations of the address overlap, one at most is told it succeeded,
\* and no later call replaces its password or, until it is used, its code.
CreatedAccountsStay ==
    \A k \in Calls : callReply[k] = "created" =>
        /\ account[form[k].user].password = k
        /\ account[form[k].user].verified \/ account[form[k].user].otp = k
-----------------------------------------------------------------------------
(* The inductive invariant behind it: where a call stands in its handler   *)
(* determines what the row of its address holds.                           *)

Places == {"idle", "find", "create", "mail", "update", "compare", "done", "dead"}
Answers == {"none", "created", "conflict", "error", "bad", "ok", "unauthorized"}

AuthTypeOK ==
    /\ account \in [Users -> AccountRow \cup {None}]
    /\ callPc \in [Calls -> Places]
    /\ form \in [Calls -> Form \cup {None}]
    /\ callReply \in [Calls -> Answers]
    /\ mailed \subseteq [to : Users, code : Calls]
    /\ tokens \subseteq Users

HasRow(u)      == account[u] # None
IsVerified(u)  == HasRow(u) /\ account[u].verified
CodeWasMailed(u) == [to |-> u, code |-> account[u].password] \in mailed

\* A seeded row is verified; any other was made by the registration its password names,
\* holds that registration's code until it is verified, and is verified only if the code
\* was mailed to its own address.
AccountOK(u) ==
    /\ u \in Seeded => IsVerified(u)
    /\ HasRow(u) /\ u \notin Seeded =>
         LET k == account[u].password IN
         /\ k \in Calls /\ Kind[k] = "register"
         /\ callPc[k] \in {"mail", "done", "dead"} /\ form[k].user = u
         /\ IsVerified(u) \/ account[u].otp = k
         /\ IsVerified(u) => CodeWasMailed(u)

\* A mailed code is the one of a registration, sent to the address it registers.
MailOK(m) ==
    /\ Kind[m.code] = "register"
    /\ callPc[m.code] # "idle" /\ form[m.code].user = m.to

\* What a call has established by the statement it is at.
CallOK(k) ==
    /\ callPc[k] # "idle" => form[k] \in Form
    /\ callReply[k] # "none" => callPc[k] = "done"
    /\ callPc[k] \in {"create", "mail"} \/ callReply[k] = "created" => Kind[k] = "register"
    /\ callPc[k] = "mail" \/ callReply[k] = "created" =>
         HasRow(form[k].user) /\ account[form[k].user].password = k
    /\ Kind[k] = "verify" /\ callPc[k] # "idle" =>
         form[k].secret = k \/ \E m \in mailed : m.code = form[k].secret
    /\ callPc[k] = "update" =>
         /\ Kind[k] = "verify" /\ form[k].user \notin Seeded
         /\ HasRow(form[k].user) /\ CodeWasMailed(form[k].user)
    /\ callPc[k] = "compare" => Kind[k] = "login" /\ IsVerified(form[k].user)

AuthInv ==
    /\ AuthTypeOK
    /\ \A u \in Users : AccountOK(u)
    /\ \A m \in mailed : MailOK(m)
    /\ \A k \in Calls : CallOK(k)
    /\ \A u \in tokens : IsVerified(u)
=============================================================================
