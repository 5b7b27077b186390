------------------------------ MODULE Registration ------------------------------
(***************************************************************************)
(* Accounts that begin with a code sent by mail: customers who register,   *)
(* and cashiers whom the admin registers (identity/application/            *)
(* registration.go, adapters/postgres/registration.go and                  *)
(* cashier_registration.go), together with the other ways to an account    *)
(* (Accounts) and the queue of mails (MailQueue).                          *)
(*                                                                         *)
(* Registrations of customers and of cashiers have a table each, with one  *)
(* row per address, and share the count of requests.  A registration and a *)
(* code are named for the request they come from.  Requests are READ       *)
(* COMMITTED transactions; each statement that may have to wait is a step. *)
(***************************************************************************)
EXTENDS Accounts, MailQueue

CONSTANTS
  Requests,
  First,        \* the request of a registration from before
  Asks,         \* what a request may ask for
  FirstPending,
  MaxAttempts,  \* with one code
  MaxPerHour,   \* codes that an address is issued
  NoAsk, NoRow, Wrong

Ids == Requests \cup {First}

Tables == {"CUSTOMER", "CASHIER"}

Kinds == {"begin", "resend", "verify"}

RowsOfTable ==
  [id : Ids, code : Ids, eligible : BOOLEAN, attempts : 0..MaxAttempts, consumed : BOOLEAN]

Answers == {"OK", "INVALID", "IN_USE", "LIMITED", "ERROR"}

ASSUME RegistrationAssumption ==
  /\ Codes = Ids
  /\ Asks \subseteq [kind : Kinds, table : Tables, email : Emails, id : Ids,
                     code : Ids \cup {Wrong}]
  /\ FirstPending \subseteq [Tables -> [Emails -> RowsOfTable \cup {NoRow}]]
  /\ Ids \subseteq Makers
  /\ First \notin Requests
  /\ Ids \cap Visits = {}
  /\ MaxAttempts \in Nat \ {0}
  /\ MaxPerHour \in Nat \ {0}
  /\ NoAsk \notin Asks
  /\ NoRow \notin RowsOfTable
  /\ NoAnswer \notin Answers
  /\ Wrong \notin Ids

VARIABLES
  pending,  \* pending_registrations, pending_cashier_registrations
  count,    \* of this hour's requests, per address
  issued,   \* requests whose code has been stored
  tries,    \* how often another code was tried in place of each
  ask, pc, answer,
  owned     \* requests that found an owner of their address

tables == <<pending, count, issued, tries>>
asking == <<ask, pc, answer, owned>>
vars == <<avars, mail, tables, asking>>

(* Init is one of the databases that the operations lead to; it has one     *)
(* registration.                                                            *)
Fits(p, a) ==
  \A t \in Tables, e \in Emails :
    p[t][e] # NoRow =>
      /\ p[t][e].id = First /\ p[t][e].code = First /\ p[t][e].attempts = 0
      /\ t = "CASHIER" => p[t][e].eligible
      /\ p[t][e].consumed =>
           /\ a[e] # Nobody
           /\ a[e].role = t /\ a[e].by = First
           /\ t = "CASHIER" => a[e].verified
      /\ \A u \in Tables, d \in Emails : p[u][d] # NoRow => u = t /\ d = e

Init ==
  /\ AccountsInit
  /\ queue = <<>>
  /\ mailbox = {First}
  /\ pending \in FirstPending
  /\ Fits(pending, account)
  /\ count = [e \in Emails |-> 0]
  /\ issued = {First}
  /\ tries = [c \in Ids |-> 0]
  /\ ask = [r \in Requests |-> NoAsk]
  /\ pc = [r \in Requests |-> "idle"]
  /\ answer = [r \in Requests |-> NoAnswer]
  /\ owned = {}

-----------------------------------------------------------------------------

At(r, p) == pc[r] = p

Is(r, kind, table) == ask[r].kind = kind /\ ask[r].table = table

Email(r) == ask[r].email

Row(r) == pending[ask[r].table][Email(r)]

Named(r) == Row(r) # NoRow /\ Row(r).id = ask[r].id

Goto(r, p) ==
  /\ pc' = [pc EXCEPT ![r] = p]
  /\ UNCHANGED <<ask, answer, owned>>

Reply(r, a) ==
  /\ pc' = [pc EXCEPT ![r] = "done"]
  /\ answer' = [answer EXCEPT ![r] = a]
  /\ UNCHANGED <<ask, owned>>

(* A transaction that is rolled back. *)
Refuse(r, a) == Reply(r, a) /\ UNCHANGED <<avars, mail, tables>>

SetRow(r, row) ==
  pending' = [pending EXCEPT ![ask[r].table] = [@ EXCEPT ![Email(r)] = row]]

(* UPDATE ... WHERE id *)
Consume(r) ==
  IF Named(r) THEN SetRow(r, [Row(r) EXCEPT !.consumed = TRUE]) ELSE UNCHANGED pending

-----------------------------------------------------------------------------
(* Locks                                                                   *)

UnderWay(r) == pc[r] \notin {"idle", "done", "mail", "session"}

HasBucket(r) == UnderWay(r) /\ ask[r].kind = "begin" /\ pc[r] # "lock"

(* Mutant: a verification reads the row without FOR UPDATE. *)
HasRow_NotLocked(r) == UnderWay(r) /\ ask[r].kind = "resend" /\ pc[r] # "lock"

(* The row of a registration. *)
HasRow(r) == UnderWay(r) /\ ask[r].kind # "begin" /\ pc[r] # "lock"

(* Mutant: verifications are limited as well. *)
WantsBucket_VerifyToo(r) ==
  UnderWay(r) /\ pc[r] = (IF ask[r].kind = "begin" THEN "lock" ELSE "write")

WantsBucket(r) ==
  UnderWay(r) /\ pc[r] = (IF ask[r].kind = "begin" THEN "lock" ELSE "write")
              /\ ask[r].kind # "verify"

WantsRow(r) ==
  UnderWay(r) /\ pc[r] = (IF ask[r].kind = "begin" THEN "write" ELSE "lock")

SameRow(q, r) == ask[q].table = ask[r].table /\ Email(q) = Email(r)

(* Does r wait for q? *)
Waits(r, q) ==
  /\ q # r
  /\ \/ WantsRow(r) /\ HasRow(q) /\ SameRow(q, r)
     \/ WantsBucket(r) /\ HasBucket(q) /\ Email(q) = Email(r)

Free(r) == \A q \in Requests : ~ Waits(r, q)

(* Begin has the bucket and wants the row, Resend the other way round. *)
Deadlocked(r) ==
  \E D \in SUBSET Requests :
    r \in D /\ \A d \in D : (\E q \in D : Waits(d, q)) /\ (\E q \in D : Waits(q, d))

(* PostgreSQL rolls one of them back, and nobody tries again. *)
Victim(r) == Deadlocked(r) /\ Refuse(r, "ERROR")

Fail(r) == pc[r] \notin {"idle", "done"} /\ Refuse(r, "ERROR")

-----------------------------------------------------------------------------
(* Begin                                                                   *)

(* A code is somebody's who has the mail, or wrong.  Cashiers are the admin's. *)
Possible(m) ==
  /\ m.table = "CASHIER" => \E a \in Admins : account[a].active
  /\ m.kind # "begin" => m.id \in issued
  /\ m.code \in mailbox \cup {Wrong}

Call(r) ==
  /\ At(r, "idle")
  /\ \E m \in Asks :
       /\ Possible(m)
       /\ ask' = [ask EXCEPT ![r] = m]
  /\ pc' = [pc EXCEPT ![r] = "lock"]
  /\ UNCHANGED <<avars, mail, tables, answer, owned>>

(* registrationLimits: the count goes up when the transaction commits. *)
Count(r) ==
  /\ At(r, "lock") /\ ask[r].kind = "begin"
  /\ Free(r)
  /\ \/ /\ count[Email(r)] < MaxPerHour
        /\ Goto(r, "look")
        /\ UNCHANGED <<avars, mail, tables>>
     \/ count[Email(r)] >= MaxPerHour /\ Refuse(r, "LIMITED")

(* May a cashier be registered under this address? *)
Vacant(e) ==
  Exists(e) => account[e].role = "CASHIER" /\ ~ account[e].verified

LookForOwner(r) ==
  /\ At(r, "look") /\ ask[r].kind = "begin"
  /\ \/ /\ ask[r].table = "CUSTOMER"
        /\ owned' = IF Exists(Email(r)) THEN owned \cup {r} ELSE owned
        /\ pc' = [pc EXCEPT ![r] = "write"]
        /\ UNCHANGED <<avars, mail, tables, ask, answer>>
     \/ /\ ask[r].table = "CASHIER" /\ Vacant(Email(r))
        /\ Goto(r, "write")
        /\ UNCHANGED <<avars, mail, tables>>
     \/ /\ ask[r].table = "CASHIER" /\ ~ Vacant(Email(r))
        /\ Refuse(r, "IN_USE")

(* Mutant: a second code is not counted. *)
Issue_OnlyBeginCounts(r, row) ==
  /\ SetRow(r, row)
  /\ count' = [count EXCEPT ![Email(r)] = IF ask[r].kind = "begin" THEN @ + 1 ELSE @]
  /\ issued' = issued \cup {r}
  /\ \/ Reply(r, "ERROR")
     \/ row.eligible /\ Goto(r, "mail")
     \/ ~ row.eligible /\ Reply(r, "OK")
  /\ UNCHANGED <<avars, mail, tries>>

(* Mutant: a code is mailed to whoever has the address. *)
Issue_MailsAnyway(r, row) ==
  /\ SetRow(r, row)
  /\ count' = [count EXCEPT ![Email(r)] = @ + 1]
  /\ issued' = issued \cup {r}
  /\ \/ Reply(r, "ERROR")
     \/ Goto(r, "mail")
  /\ UNCHANGED <<avars, mail, tries>>

(* A new code: it is mailed if there is nobody of that address. *)
Issue(r, row) ==
  /\ SetRow(r, row)
  /\ count' = [count EXCEPT ![Email(r)] = @ + 1]
  /\ issued' = issued \cup {r}
  /\ \/ Reply(r, "ERROR")
     \/ row.eligible /\ Goto(r, "mail")
     \/ ~ row.eligible /\ Reply(r, "OK")
  /\ UNCHANGED <<avars, mail, tries>>

(* The upsert replaces what is pending for the address. *)
BeginRegistration(r) ==
  /\ At(r, "write") /\ ask[r].kind = "begin"
  /\ Free(r)
  /\ Issue(r, [id |-> r, code |-> r, eligible |-> r \notin owned,
               attempts |-> 0, consumed |-> FALSE])

(* What becomes of the mail is not in the answer. *)
Mail(r) ==
  /\ At(r, "mail")
  /\ SendCode(r)
  /\ Reply(r, "OK")
  /\ UNCHANGED <<avars, tables>>

-----------------------------------------------------------------------------
(* Resend                                                                  *)

(* Refused when it is too old, or too young for another code. *)
LockForResend(r) ==
  /\ At(r, "lock") /\ ask[r].kind = "resend"
  /\ Free(r)
  /\ \/ /\ Named(r) /\ ~ Row(r).consumed
        /\ Goto(r, "write")
        /\ UNCHANGED <<avars, mail, tables>>
     \/ Refuse(r, "INVALID")

ResendRegistration(r) ==
  /\ At(r, "write") /\ ask[r].kind = "resend"
  /\ Free(r)
  /\ \/ /\ count[Email(r)] < MaxPerHour
        /\ Issue(r, [Row(r) EXCEPT !.code = r, !.attempts = 0])
     \/ count[Email(r)] >= MaxPerHour /\ Refuse(r, "LIMITED")

-----------------------------------------------------------------------------
(* Verify                                                                  *)

Proves(r) == Row(r).code = ask[r].code /\ Row(r).eligible

(* Mutant: the count of attempts is rolled back with the refusal. *)
Attempt_RolledBack(r) ==
  /\ tries' = [tries EXCEPT ![Row(r).code] = @ + 1]
  /\ Reply(r, "INVALID")
  /\ UNCHANGED <<avars, mail, pending, count, issued>>

(* A wrong code counts, and so does any for an address that has an owner. *)
Attempt(r) ==
  /\ SetRow(r, [Row(r) EXCEPT !.attempts = @ + 1])
  /\ tries' = [tries EXCEPT ![Row(r).code] = @ + 1]
  /\ Reply(r, "INVALID") \/ Reply(r, "ERROR")
  /\ UNCHANGED <<avars, mail, count, issued>>

(* A cashier's registration shows, when asked again, what came of it. *)
Repeats(r) ==
  Is(r, "verify", "CASHIER") /\ Named(r) /\ Row(r).consumed /\ Proves(r)

(* Refused when it is too old. *)
LockForVerify(r) ==
  /\ At(r, "lock") /\ ask[r].kind = "verify"
  /\ Free(r)
  /\ \/ /\ Named(r) /\ ~ Row(r).consumed /\ Row(r).attempts < MaxAttempts
        /\ \/ /\ Proves(r)
              /\ Goto(r, IF ask[r].table = "CASHIER" THEN "look" ELSE "write")
              /\ UNCHANGED <<avars, mail, tables>>
           \/ ~ Proves(r) /\ Attempt(r)
     \/ ~ Repeats(r) /\ Refuse(r, "INVALID")

RepeatVerifyCashier(r) ==
  /\ At(r, "lock") /\ Repeats(r)
  /\ Free(r)
  /\ Refuse(r, "OK")

(* Mutant: the registration is used up even if its address has an owner. *)
VerifyRegistration_ConsumedAnyway(r) ==
  /\ At(r, "write") /\ Is(r, "verify", "CUSTOMER")
  /\ Consume(r)
  /\ account' = IF Exists(Email(r)) THEN account
                ELSE [account EXCEPT ![Email(r)] =
                        NewAccount("CUSTOMER", ask[r].id, FALSE)]
  /\ Goto(r, "session") \/ Reply(r, "ERROR")
  /\ UNCHANGED <<google, intent, sessions, visiting, mail, count, issued, tries>>

(* The address is unique.  The session is opened by another transaction. *)
VerifyRegistration(r) ==
  /\ At(r, "write") /\ Is(r, "verify", "CUSTOMER")
  /\ \/ Exists(Email(r)) /\ Refuse(r, "INVALID")
     \/ /\ ~ Exists(Email(r))
        /\ account' = [account EXCEPT ![Email(r)] =
                         NewAccount("CUSTOMER", ask[r].id, FALSE)]
        /\ Consume(r)
        /\ Goto(r, "session") \/ Reply(r, "ERROR")
        /\ UNCHANGED <<google, intent, sessions, visiting, mail, count, issued, tries>>

(* Mutant: the session is opened for whoever has just been registered. *)
CreateSession_NotChecked(r) ==
  /\ At(r, "session")
  /\ Open(r, Email(r))
  /\ Reply(r, "OK") \/ Reply(r, "ERROR")
  /\ UNCHANGED <<account, google, intent, visiting, mail, tables>>

CreateSession(r) ==
  /\ At(r, "session")
  /\ \/ /\ account[Email(r)].active
        /\ Open(r, Email(r))
        /\ Reply(r, "OK") \/ Reply(r, "ERROR")
        /\ UNCHANGED <<account, google, intent, visiting, mail, tables>>
     \/ ~ account[Email(r)].active /\ Refuse(r, "ERROR")

(* A cashier gets the temporary password, and no session. *)
Appoint(r, row) ==
  /\ account' = [account EXCEPT ![Email(r)] = row]
  /\ sessions' = {s \in sessions : s.of # Email(r)}
  /\ Consume(r)
  /\ Reply(r, "OK") \/ Reply(r, "ERROR")
  /\ UNCHANGED <<google, intent, visiting, mail, count, issued, tries>>

(* Mutant: that the address was vacant when the registration began will do. *)
LookForCashier_NotChecked(r) ==
  /\ At(r, "look") /\ Is(r, "verify", "CASHIER")
  /\ \/ /\ Exists(Email(r))
        /\ Appoint(r, [account[Email(r)] EXCEPT !.by = ask[r].id, !.verified = TRUE,
                                                 !.mustChange = TRUE])
     \/ /\ ~ Exists(Email(r))
        /\ Goto(r, "write")
        /\ UNCHANGED <<avars, mail, tables>>

(* A cashier from before the codes is verified, with the new password. *)
LookForCashier(r) ==
  LET e == Email(r) IN
  /\ At(r, "look") /\ Is(r, "verify", "CASHIER")
  /\ \/ /\ Exists(e) /\ Vacant(e)
        /\ Appoint(r, [account[e] EXCEPT !.by = ask[r].id, !.verified = TRUE,
                                         !.mustChange = TRUE])
     \/ Exists(e) /\ ~ Vacant(e) /\ Refuse(r, "IN_USE")
     \/ /\ ~ Exists(e)
        /\ Goto(r, "write")
        /\ UNCHANGED <<avars, mail, tables>>

VerifyCashierRegistration(r) ==
  /\ At(r, "write") /\ Is(r, "verify", "CASHIER")
  /\ \/ Exists(Email(r)) /\ Refuse(r, "IN_USE")
     \/ /\ ~ Exists(Email(r))
        /\ Appoint(r, NewAccount("CASHIER", ask[r].id, TRUE))

-----------------------------------------------------------------------------

(* Cleanup waits for a row that is locked; whatever has not been used up    *)
(* may have expired.                                                        *)
DeleteExpired(t, e) ==
  /\ pending[t][e] # NoRow
  /\ \A r \in Requests : HasRow(r) => ~ (ask[r].table = t /\ Email(r) = e)
  /\ pending' = [pending EXCEPT ![t] = [@ EXCEPT ![e] = NoRow]]
  /\ UNCHANGED <<avars, mail, count, issued, tries, asking>>

Step(r) ==
  \/ Count(r) \/ LookForOwner(r) \/ BeginRegistration(r) \/ Mail(r)
  \/ LockForResend(r) \/ ResendRegistration(r)
  \/ LockForVerify(r) \/ RepeatVerifyCashier(r)
  \/ VerifyRegistration(r) \/ CreateSession(r)
  \/ LookForCashier(r) \/ VerifyCashierRegistration(r)

Next ==
  \/ \E r \in Requests : Call(r) \/ Step(r) \/ Victim(r) \/ Fail(r)
  \/ \E t \in Tables, e \in Emails : DeleteExpired(t, e)
  \/ AccountsNext /\ UNCHANGED <<mail, tables, asking>>
  \/ Mailing /\ UNCHANGED <<avars, tables, asking>>

Spec == Init /\ [][Next]_vars

-----------------------------------------------------------------------------
(* What should hold                                                        *)

(* What the variables are, and how the parts of a row belong together.     *)
TypeOK ==
  /\ account \in [Emails -> AccountRows \cup {Nobody}]
  /\ google \in [Subjects -> Emails \cup {NoEmail}]
  /\ intent \in [Intents -> IntentRows \cup {NoIntent}]
  /\ sessions \subseteq [by : Visits \cup Requests, of : Emails]
  /\ errand \in [Visits -> Errands \cup {NoErrand}]
  /\ step \in [Visits -> {"idle", "find", "lock", "look", "insert", "done"}]
  /\ reply \in [Visits -> Replies \cup {NoAnswer}]
  /\ MailTypeOK
  /\ pending \in [Tables -> [Emails -> RowsOfTable \cup {NoRow}]]
  /\ count \in [Emails -> 0..MaxPerHour]
  /\ issued \subseteq Ids
  /\ tries \in [Ids -> Nat]
  /\ ask \in [Requests -> Asks \cup {NoAsk}]
  /\ pc \in [Requests -> {"idle", "lock", "look", "write", "mail", "session", "done"}]
  /\ answer \in [Requests -> Answers \cup {NoAnswer}]
  /\ owned \subseteq Requests
  /\ \A v \in Visits : (step[v] = "idle") <=> (errand[v] = NoErrand)
  /\ \A r \in Requests : (pc[r] = "idle") <=> (ask[r] = NoAsk)

(* "Codes ... stop after five wrong attempts" (README.md:116): however many *)
(* verifications, new codes and new registrations of one address are under  *)
(* way at once, no code is guessed at more often than MaxAttempts.          *)
GuessesBounded == \A c \in Ids : tries[c] <= MaxAttempts

(* "Requests are limited to five per normalized email ... per hour"         *)
(* (README.md:117): the two kinds of registration and their new codes       *)
(* share one limit, and those that run at once do not get past it.          *)
CodesWithinLimit ==
  \A e \in Emails :
    Cardinality({r \in issued \cap Requests : Email(r) = e}) <= MaxPerHour

(* An account comes from a code that was mailed to its address and is the   *)
(* one that counts now: not one replaced by a new code, or by a new         *)
(* registration of the address, while the verification was under way.       *)
(* (VerifyRegistration, VerifyCashierRegistration)                          *)
OpensByCode ==
  \A e \in Emails :
    (/\ account'[e] # account[e] /\ account'[e] # Nobody
     /\ account'[e].by \in Ids
     /\ account[e] # Nobody => account[e].by # account'[e].by) =>
       \E r \in Requests, t \in Tables :
         /\ At(r, "write") \/ At(r, "look")
         /\ Is(r, "verify", t) /\ Email(r) = e
         /\ pending[t][e] # NoRow
         /\ pending[t][e].id = account'[e].by /\ pending[t][e].id = ask[r].id
         /\ pending[t][e].code = ask[r].code /\ ask[r].code \in mailbox
         /\ ~ pending[t][e].consumed

OpenedByCurrentCode == [][OpensByCode]_vars

(* Nobody's account is taken over: once there is one, neither its role nor  *)
(* its password changes, whatever is registered for its address meanwhile,  *)
(* except for a cashier of the old flow, who has not been verified.         *)
KeepsAccounts ==
  \A e \in Emails :
    account[e] # Nobody =>
      /\ account'[e] # Nobody
      /\ account'[e].role = account[e].role
      /\ account'[e].by # account[e].by =>
           account[e].role = "CASHIER" /\ ~ account[e].verified

AccountsKept == [][KeepsAccounts]_vars

(* A registration is used up together with the creation of its account, or  *)
(* not at all: the password and the role of the account are its own.        *)
(* (VerifyRegistration, VerifyCashierRegistration: one transaction)         *)
ConsumedHasAccount ==
  \A t \in Tables, e \in Emails :
    LET row == pending[t][e] IN
    row # NoRow /\ row.consumed =>
      /\ Exists(e)
      /\ account[e].role = t /\ account[e].by = row.id
      /\ t = "CASHIER" => account[e].verified

(* A code is mailed only after it has been stored, and none for an address  *)
(* that had an owner when its registration began, however often another     *)
(* code is asked for (application/registration.go:85, 110).                 *)
MailedToNewcomers ==
  \A r \in Requests :
    r \in Posted =>
      /\ r \in issued
      /\ ask[r].kind = "begin" => r \notin owned
      /\ ask[r].kind = "resend" => ask[r].id \notin owned

(* A login with Google leads to the account its identity is linked to, not  *)
(* to one that has the same address, and an intent leads to one session.    *)
(* (CompleteOAuthLogin; store_integration_test.go does it one at a time.)   *)
LinkedOnly ==
  \A s \in sessions :
    s.by \in Visits =>
      /\ google[Subject(s.by)] = s.of
      /\ \A t \in sessions :
           t.by \in Visits /\ errand[t.by].intent = errand[s.by].intent => t = s

(* There is never a second admin, whatever is run at once (BootstrapAdmin). *)
OneAdmin == Cardinality(Admins) <= 1

(* A verification is never rolled back as the victim of a deadlock: only    *)
(* the requests for a code are, a Begin and a Resend of one address.        *)
(* (registrationLimits is called before the row is locked by the one, and   *)
(* after it by the other.)                                                  *)
VerificationNotVictim == \A r \in Requests : Deadlocked(r) => ask[r].kind # "verify"

(* Codes that somebody is about to put into the queue, or that are in it.   *)
Underway == {queue[i] : i \in 1..Len(queue)} \cup {r \in Requests : At(r, "mail")}

(* Customers whose account has been opened, and whose session has not.      *)
Opening == {[by |-> r, of |-> Email(r)] : r \in {q \in Requests : At(q, "session")}}

(* Every proof counts, and is used up, at the moment an account is opened   *)
(* with it, although requests and visits look first, lock rows one by one, *)
(* and write later.                                                        *)
Proven == INSTANCE ProvenAccounts WITH underway <- Underway, opening <- Opening
ProvenSpec == Proven!Spec

=============================================================================
