-------------------------------- MODULE Accounts --------------------------------
(***************************************************************************)
(* The accounts of the ordering API and the ways to one that need no       *)
(* password: a login with Google, the linking of a Google identity, and    *)
(* the first admin (identity/application/service.go, adapters/postgres/    *)
(* store.go).  Registration.tla adds the ways that begin with a mail.      *)
(*                                                                         *)
(* A visit reads its intent without a lock, and then runs one READ         *)
(* COMMITTED transaction.  Its first lock is a step of its own, and so is  *)
(* the insertion of an account after the search that found none: an        *)
(* account inserted in between makes it fail.  A transaction that can no   *)
(* longer wait for anybody ends in one step.                               *)
(***************************************************************************)
EXTENDS FiniteSets

CONSTANTS
  Emails,
  Subjects,       \* Google identities
  EmailOf,        \* the verified address of each
  Intents,
  Visits,
  Errands,        \* what a visit may be for
  Makers,         \* whoever chose a password
  FirstAccounts,  \* what there is at first
  FirstLinks,
  NoEmail, NoIntent, NoErrand, NoAnswer, NoPassword, Nobody

Roles == {"CUSTOMER", "CASHIER", "ADMIN"}

Purposes == {"LOGIN", "LINK"}

AccountRows ==
  [role : Roles, by : Makers \cup {NoPassword}, active : BOOLEAN,
   verified : BOOLEAN, mustChange : BOOLEAN]

IntentRows == [purpose : Purposes, for : Emails \cup {NoEmail}, open : BOOLEAN]

Replies == {"OK", "REFUSED", "LINK_REQUIRED", "ERROR"}

ASSUME AccountsAssumption ==
  /\ EmailOf \in [Subjects -> Emails]
  \* a login has a subject, a link a subject and the account of the session,
  \* and the bootstrap an address
  /\ Errands \subseteq [kind : Purposes \cup {"BOOTSTRAP"}, intent : Intents,
                        subject : Subjects, email : Emails]
  /\ Visits \subseteq Makers
  /\ FirstAccounts \subseteq [Emails -> AccountRows \cup {Nobody}]
  /\ FirstLinks \subseteq [Subjects -> Emails \cup {NoEmail}]
  /\ NoEmail \notin Emails
  /\ NoIntent \notin IntentRows
  /\ NoErrand \notin Errands
  /\ NoAnswer \notin Replies
  /\ NoPassword \notin Makers
  /\ Nobody \notin AccountRows

VARIABLES
  account,    \* the row of an address in "users", with its password
  google,     \* the account each identity is linked to
  intent,
  sessions,   \* that are live: who opened them, and of which account
  errand,     \* of each visit
  step,
  reply

visiting == <<errand, step, reply>>
avars == <<account, google, intent, sessions, visiting>>

Exists(e) == account[e] # Nobody

(* insertSession selects its account under this condition. *)
MayEnter(e) == account[e].role = "CASHIER" => account[e].verified

(* Init is one of the databases that the operations lead to. *)
Consistent(a, g) ==
  /\ \A e \in Emails : a[e] # Nobody /\ a[e].mustChange => a[e].role = "CASHIER"
  /\ \A s \in Subjects : g[s] # NoEmail => a[g[s]] # Nobody
  /\ \A s, t \in Subjects : g[s] = g[t] /\ g[s] # NoEmail => s = t
  /\ \A d, e \in Emails :
       a[d] # Nobody /\ a[e] # Nobody /\ a[d].role = "ADMIN" /\ a[e].role = "ADMIN"
         => d = e

AccountsInit ==
  /\ account \in FirstAccounts
  /\ google \in FirstLinks
  /\ Consistent(account, google)
  /\ intent = [i \in Intents |-> NoIntent]
  /\ sessions = {}
  /\ errand = [v \in Visits |-> NoErrand]
  /\ step = [v \in Visits |-> "idle"]
  /\ reply = [v \in Visits |-> NoAnswer]

-----------------------------------------------------------------------------

On(v, s) == step[v] = s

For(v, kind) == errand[v].kind = kind

Subject(v) == errand[v].subject

Proceed(v, s) ==
  /\ step' = [step EXCEPT ![v] = s]
  /\ UNCHANGED <<errand, reply>>

Answer(v, a) ==
  /\ step' = [step EXCEPT ![v] = "done"]
  /\ reply' = [reply EXCEPT ![v] = a]
  /\ UNCHANGED errand

(* The answer to a COMMIT may get lost. *)
Committed(v, a) == Answer(v, a) \/ Answer(v, "ERROR")

Rejected(v, a) == Answer(v, a) /\ UNCHANGED <<account, google, intent, sessions>>

NewAccount(role, by, verified) ==
  [role |-> role, by |-> by, active |-> TRUE, verified |-> verified,
   mustChange |-> role = "CASHIER"]

(* An intent that has not been used; when it expires is left open. *)
Usable(v) ==
  LET i == intent[errand[v].intent] IN
  /\ i # NoIntent
  /\ i.open
  /\ i.purpose = errand[v].kind
  /\ For(v, "LINK") => i.for = errand[v].email

(* The row, or the advisory lock, that a transaction has taken first. *)
Locking(v) == step[v] \in {"look", "insert"}

(* Mutant: without the advisory lock. *)
Contends_NoAdvisoryLock(v, w) ==
  /\ ~ For(v, "BOOTSTRAP") /\ ~ For(w, "BOOTSTRAP")
  /\ errand[v].intent = errand[w].intent

Contends(v, w) ==
  \/ For(v, "BOOTSTRAP") /\ For(w, "BOOTSTRAP")
  \/ /\ ~ For(v, "BOOTSTRAP") /\ ~ For(w, "BOOTSTRAP")
     /\ errand[v].intent = errand[w].intent

Use(v) == intent' = [intent EXCEPT ![errand[v].intent].open = FALSE]

Open(who, e) == sessions' = sessions \cup {[by |-> who, of |-> e]}

-----------------------------------------------------------------------------
(* Steps of a visit                                                        *)

(* Linking needs a session of an account that is in use. *)
Authorized(m) ==
  m.kind = "LINK" =>
    /\ Exists(m.email)
    /\ account[m.email].active
    /\ ~ account[m.email].mustChange
    /\ MayEnter(m.email)

BeginOAuth(i) ==
  /\ intent[i] = NoIntent
  /\ \E purpose \in Purposes, e \in Emails \cup {NoEmail} :
       /\ (e = NoEmail) <=> (purpose = "LOGIN")
       /\ Authorized([kind |-> purpose, email |-> e])
       /\ intent' = [intent EXCEPT ![i] = [purpose |-> purpose, for |-> e, open |-> TRUE]]
  /\ UNCHANGED <<account, google, sessions, visiting>>

Visit(v) ==
  /\ On(v, "idle")
  /\ \E m \in Errands :
       /\ Authorized(m)
       /\ errand' = [errand EXCEPT ![v] = m]
       /\ step' = [step EXCEPT ![v] = IF m.kind = "BOOTSTRAP" THEN "lock" ELSE "find"]
  /\ UNCHANGED <<account, google, intent, sessions, reply>>

(* The provider's token is verified after this, without any lock. *)
FindOAuthIntent(v) ==
  /\ On(v, "find")
  /\ \/ Usable(v) /\ Proceed(v, "lock")
     \/ Answer(v, "REFUSED")
  /\ UNCHANGED <<account, google, intent, sessions>>

(* Mutant: what FindOAuthIntent has read will do. *)
LockIntent_NotChecked(v) ==
  /\ On(v, "lock") /\ ~ For(v, "BOOTSTRAP")
  /\ Proceed(v, "look")
  /\ UNCHANGED <<account, google, intent, sessions>>

LockIntent(v) ==
  /\ On(v, "lock") /\ ~ For(v, "BOOTSTRAP")
  /\ \A w \in Visits \ {v} : Locking(w) => ~ Contends(v, w)
  /\ \/ Usable(v) /\ Proceed(v, "look")
     \/ Answer(v, "REFUSED")
  /\ UNCHANGED <<account, google, intent, sessions>>

LockBootstrap(v) ==
  /\ On(v, "lock") /\ For(v, "BOOTSTRAP")
  /\ \A w \in Visits \ {v} : Locking(w) => ~ Contends(v, w)
  /\ Proceed(v, "look")
  /\ UNCHANGED <<account, google, intent, sessions>>

(* Mutant: a verified address is as good as a link. *)
CompleteOAuthLogin_ByAddress(v) ==
  LET e == EmailOf[Subject(v)] IN
  /\ On(v, "look") /\ For(v, "LOGIN")
  /\ \/ /\ Exists(e)
        /\ Open(v, e) /\ Use(v)
        /\ Committed(v, "OK")
        /\ UNCHANGED <<account, google>>
     \/ /\ ~ Exists(e)
        /\ Proceed(v, "insert")
        /\ UNCHANGED <<account, google, intent, sessions>>

(* The owner of the identity, or of its address, if there is one. *)
CompleteOAuthLogin(v) ==
  LET owner == google[Subject(v)]
      e == EmailOf[Subject(v)] IN
  /\ On(v, "look") /\ For(v, "LOGIN")
  /\ \/ /\ owner # NoEmail
        /\ account[owner].active /\ MayEnter(owner)
        /\ Open(v, owner) /\ Use(v)
        /\ Committed(v, "OK")
        /\ UNCHANGED <<account, google>>
     \/ /\ owner # NoEmail
        /\ ~ (account[owner].active /\ MayEnter(owner))
        /\ Rejected(v, "REFUSED")
     \/ /\ owner = NoEmail /\ Exists(e)
        /\ Use(v)
        /\ Committed(v, "LINK_REQUIRED")
        /\ UNCHANGED <<account, google, sessions>>
     \/ /\ owner = NoEmail /\ ~ Exists(e)
        /\ Proceed(v, "insert")
        /\ UNCHANGED <<account, google, intent, sessions>>

(* Both insertions are subject to a unique constraint. *)
InsertOAuthCustomer(v) ==
  LET e == EmailOf[Subject(v)] IN
  /\ On(v, "insert") /\ For(v, "LOGIN")
  /\ IF Exists(e) \/ google[Subject(v)] # NoEmail
     THEN Rejected(v, IF Exists(e) THEN "ERROR" ELSE "REFUSED")
     ELSE /\ account' = [account EXCEPT ![e] = NewAccount("CUSTOMER", NoPassword, FALSE)]
          /\ google' = [google EXCEPT ![Subject(v)] = e]
          /\ Open(v, e) /\ Use(v)
          /\ Committed(v, "OK")

(* An account has one Google identity, and an identity one account. *)
CompleteOAuthLink(v) ==
  LET e == errand[v].email IN
  /\ On(v, "look") /\ For(v, "LINK")
  /\ IF account[e].active /\ google[Subject(v)] = NoEmail /\ \A g \in Subjects : google[g] # e
     THEN /\ google' = [google EXCEPT ![Subject(v)] = e]
          /\ Use(v)
          /\ Committed(v, "OK")
          /\ UNCHANGED <<account, sessions>>
     ELSE Rejected(v, "REFUSED")

Admins == {e \in Emails : Exists(e) /\ account[e].role = "ADMIN"}

BootstrapAdmin(v) ==
  /\ On(v, "look") /\ For(v, "BOOTSTRAP")
  /\ IF Admins = {} THEN Proceed(v, "insert")
     ELSE Answer(v, IF errand[v].email \in Admins THEN "OK" ELSE "REFUSED")
  /\ UNCHANGED <<account, google, intent, sessions>>

InsertAdmin(v) ==
  LET e == errand[v].email IN
  /\ On(v, "insert") /\ For(v, "BOOTSTRAP")
  /\ IF Exists(e) THEN Rejected(v, "ERROR")
     ELSE /\ account' = [account EXCEPT ![e] = NewAccount("ADMIN", v, FALSE)]
          /\ Committed(v, "OK")
          /\ UNCHANGED <<google, intent, sessions>>

FailVisit(v) == step[v] \notin {"idle", "done"} /\ Rejected(v, "ERROR")

(* By an admin, who may have been disabled since.  Its sessions are revoked. *)
DisableUser(e) ==
  /\ Admins # {}
  /\ Exists(e) /\ account[e].active
  /\ account' = [account EXCEPT ![e].active = FALSE]
  /\ sessions' = {s \in sessions : s.of # e}
  /\ UNCHANGED <<google, intent, visiting>>

VisitStep(v) ==
  \/ FindOAuthIntent(v) \/ LockIntent(v) \/ CompleteOAuthLogin(v)
  \/ InsertOAuthCustomer(v) \/ CompleteOAuthLink(v)
  \/ LockBootstrap(v) \/ BootstrapAdmin(v) \/ InsertAdmin(v)

AccountsNext ==
  \/ \E v \in Visits : Visit(v) \/ VisitStep(v) \/ FailVisit(v)
  \/ \E i \in Intents : BeginOAuth(i)
  \/ \E e \in Emails : DisableUser(e)

AccountsSpec == AccountsInit /\ [][AccountsNext]_avars

=============================================================================
