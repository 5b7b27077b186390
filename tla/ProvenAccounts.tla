----------------------------- MODULE ProvenAccounts -----------------------------
(***************************************************************************)
(* What the ways to an account promise, without locks, transactions and    *)
(* queues: every account comes from a proof that counts at the moment it   *)
(* is opened, a code that was mailed to its address or a Google identity   *)
(* that has the address, or it is the one admin; and every proof is used   *)
(* up at that moment.                                                      *)
(*                                                                         *)
(* Three things are less than one would like, and are as the code has      *)
(* them: a code may be mailed to an address that somebody has registered   *)
(* since, a mail may get lost, and an account may be opened without the    *)
(* session that should come with it.                                       *)
(***************************************************************************)

EXTENDS Naturals

CONSTANTS
  Emails, Subjects, EmailOf, Intents, Visits, Requests, First,
  FirstAccounts, FirstLinks, FirstPending, MaxAttempts, MaxPerHour,
  NoEmail, NoIntent, NoPassword, Nobody, NoRow

VARIABLES
  account,   \* of an address
  google,    \* the address of the account each identity is linked to
  intent,    \* to log in with Google, or to link an account with it
  sessions,
  pending,   \* registrations of customers and of cashiers
  count,     \* codes that were issued for an address
  issued,    \* all codes
  underway,  \* codes that are being mailed
  mailbox,   \* codes that have arrived
  opening    \* sessions that a new customer is about to get

people == <<account, google>>
codes == <<pending, count, issued>>
mails == <<underway, mailbox>>
vars == <<people, intent, sessions, codes, mails, opening>>

Tables == {"CUSTOMER", "CASHIER"}

Exists(e) == account[e] # Nobody

Admins == {e \in Emails : Exists(e) /\ account[e].role = "ADMIN"}

Active(e) == account[e].active

MayEnter(e) == account[e].role = "CASHIER" => account[e].verified

(* Nobody has the address, or a cashier who has not been verified. *)
Vacant(e) == Exists(e) => account[e].role = "CASHIER" /\ ~ account[e].verified

NewAccount(role, by, verified) ==
  [role |-> role, by |-> by, active |-> TRUE, verified |-> verified,
   mustChange |-> role = "CASHIER"]

Add(e, new) == account' = [account EXCEPT ![e] = new]

SetRow(t, e, row) == pending' = [pending EXCEPT ![t] = [@ EXCEPT ![e] = row]]

Init ==
  /\ account \in FirstAccounts
  /\ google \in FirstLinks
  /\ intent = [i \in Intents |-> NoIntent]
  /\ sessions = {}
  /\ pending \in FirstPending
  /\ count = [e \in Emails |-> 0]
  /\ issued = {First}
  /\ underway = {}
  /\ mailbox = {First}
  /\ opening = {}

-----------------------------------------------------------------------------
(* Codes                                                                   *)

Issue(c, t, e, row) ==
  /\ c \notin issued
  /\ count[e] < MaxPerHour
  /\ SetRow(t, e, row)
  /\ count' = [count EXCEPT ![e] = @ + 1]
  /\ issued' = issued \cup {c}
  /\ \/ UNCHANGED underway
     \/ row.eligible /\ underway' = underway \cup {c}
  /\ UNCHANGED <<people, intent, sessions, mailbox, opening>>

(* No code is mailed to a customer who has an account. *)
Register(c, t, e) ==
  \E eligible \in BOOLEAN :
    /\ ~ eligible => t = "CUSTOMER" /\ Exists(e)
    /\ Issue(c, t, e, [id |-> c, code |-> c, eligible |-> eligible,
                       attempts |-> 0, consumed |-> FALSE])

Open(t, e) == pending[t][e] # NoRow /\ ~ pending[t][e].consumed

Resend(c, t, e) ==
  /\ Open(t, e)
  /\ Issue(c, t, e, [pending[t][e] EXCEPT !.code = c, !.attempts = 0])

(* Mails arrive, or are lost. *)
Post ==
  /\ underway' \in SUBSET underway
  /\ \E arrived \in SUBSET underway : mailbox' = mailbox \cup arrived
  /\ UNCHANGED <<people, intent, sessions, codes, opening>>

Try(t, e) ==
  /\ Open(t, e)
  /\ pending[t][e].attempts < MaxAttempts

Guess(t, e) ==
  /\ Try(t, e)
  /\ SetRow(t, e, [pending[t][e] EXCEPT !.attempts = @ + 1])
  /\ UNCHANGED <<people, intent, sessions, count, issued, mails, opening>>

(* Whoever has the code that counts now uses it up. *)
Prove(t, e) ==
  /\ Try(t, e)
  /\ pending[t][e].eligible
  /\ pending[t][e].code \in mailbox
  /\ SetRow(t, e, [pending[t][e] EXCEPT !.consumed = TRUE])
  /\ UNCHANGED <<google, intent, count, issued, mails>>

VerifyCustomer(r, e) ==
  /\ ~ Exists(e)
  /\ Prove("CUSTOMER", e)
  /\ Add(e, NewAccount("CUSTOMER", pending["CUSTOMER"][e].id, FALSE))
  /\ \/ UNCHANGED opening
     \/ opening' = opening \cup {[by |-> r, of |-> e]}
  /\ UNCHANGED sessions

VerifyCashier(e) ==
  LET id == pending["CASHIER"][e].id IN
  /\ Vacant(e)
  /\ Prove("CASHIER", e)
  /\ Add(e, IF Exists(e)
            THEN [account[e] EXCEPT !.by = id, !.verified = TRUE, !.mustChange = TRUE]
            ELSE NewAccount("CASHIER", id, TRUE))
  /\ sessions' = {s \in sessions : s.of # e}
  /\ UNCHANGED opening

Expire(t, e) ==
  /\ pending[t][e] # NoRow
  /\ SetRow(t, e, NoRow)
  /\ UNCHANGED <<people, intent, sessions, count, issued, mails, opening>>

(* The session of a new customer, who may have been disabled in between. *)
Enter ==
  \E s \in opening :
    /\ Active(s.of)
    /\ sessions' = sessions \cup {s}
    /\ opening' = opening \ {s}
    /\ UNCHANGED <<people, intent, codes, mails>>

Drop ==
  /\ opening' \in SUBSET opening
  /\ UNCHANGED <<people, intent, sessions, codes, mails>>

-----------------------------------------------------------------------------
(* Google, the first admin, and the end of an account                      *)

BeginLogin(i) ==
  /\ intent[i] = NoIntent
  /\ intent' = [intent EXCEPT ![i] = [purpose |-> "LOGIN", for |-> NoEmail, open |-> TRUE]]
  /\ UNCHANGED <<people, sessions, codes, mails, opening>>

BeginLink(i, e) ==
  /\ intent[i] = NoIntent
  /\ Exists(e) /\ Active(e) /\ MayEnter(e) /\ ~ account[e].mustChange
  /\ intent' = [intent EXCEPT ![i] = [purpose |-> "LINK", for |-> e, open |-> TRUE]]
  /\ UNCHANGED <<people, sessions, codes, mails, opening>>

Use(i, purpose) ==
  /\ intent[i] # NoIntent
  /\ intent[i].open
  /\ intent[i].purpose = purpose
  /\ intent' = [intent EXCEPT ![i].open = FALSE]
  /\ UNCHANGED <<codes, mails, opening>>

Login(v, i, s) ==
  /\ Use(i, "LOGIN")
  /\ google[s] # NoEmail
  /\ Active(google[s]) /\ MayEnter(google[s])
  /\ sessions' = sessions \cup {[by |-> v, of |-> google[s]]}
  /\ UNCHANGED people

(* The owner of the address has to log in and link the identity. *)
LinkRequired(i, s) ==
  /\ Use(i, "LOGIN")
  /\ google[s] = NoEmail /\ Exists(EmailOf[s])
  /\ UNCHANGED <<people, sessions>>

LoginAnew(v, i, s) ==
  LET e == EmailOf[s] IN
  /\ Use(i, "LOGIN")
  /\ google[s] = NoEmail /\ ~ Exists(e)
  /\ Add(e, NewAccount("CUSTOMER", NoPassword, FALSE))
  /\ google' = [google EXCEPT ![s] = e]
  /\ sessions' = sessions \cup {[by |-> v, of |-> e]}

(* One account, one identity. *)
Link(i, s) ==
  LET e == intent[i].for IN
  /\ Use(i, "LINK")
  /\ Active(e)
  /\ google[s] = NoEmail /\ \A g \in Subjects : google[g] # e
  /\ google' = [google EXCEPT ![s] = e]
  /\ UNCHANGED <<account, sessions>>

Bootstrap(v, e) ==
  /\ Admins = {} /\ ~ Exists(e)
  /\ Add(e, NewAccount("ADMIN", v, FALSE))
  /\ UNCHANGED <<google, intent, sessions, codes, mails, opening>>

Disable(e) ==
  /\ Admins # {} /\ Exists(e) /\ Active(e)
  /\ account' = [account EXCEPT ![e].active = FALSE]
  /\ sessions' = {s \in sessions : s.of # e}
  /\ UNCHANGED <<google, intent, codes, mails, opening>>

-----------------------------------------------------------------------------

Next ==
  \/ Post \/ Enter \/ Drop
  \/ \E t \in Tables, e \in Emails :
       \/ Guess(t, e) \/ Expire(t, e)
       \/ \E c \in Requests : Register(c, t, e) \/ Resend(c, t, e)
  \/ \E e \in Emails :
       \/ VerifyCashier(e) \/ Disable(e)
       \/ \E r \in Requests : VerifyCustomer(r, e)
       \/ \E v \in Visits : Bootstrap(v, e)
       \/ \E i \in Intents : BeginLink(i, e)
  \/ \E i \in Intents :
       \/ BeginLogin(i)
       \/ \E s \in Subjects :
            \/ LinkRequired(i, s) \/ Link(i, s)
            \/ \E v \in Visits : Login(v, i, s) \/ LoginAnew(v, i, s)

Spec == Init /\ [][Next]_vars

=============================================================================
