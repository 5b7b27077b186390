---------------------------- MODULE Registration_proofs ----------------------------
(***************************************************************************)
(* Proofs about Registration for every set of requests, visits, addresses  *)
(* and asked operations, and for every limit.  First comes what the steps  *)
(* of visits keep true of the accounts, then the requests that begin with  *)
(* a mail and the two together.                                            *)
(***************************************************************************)
EXTENDS Registration, FiniteSetTheorems, TLAPS

-----------------------------------------------------------------------------
(* The inductive invariant of the accounts.  Who opens sessions besides the *)
(* visits is left open.                                                     *)

AccountTypes ==
  /\ account \in [Emails -> AccountRows \cup {Nobody}]
  /\ google \in [Subjects -> Emails \cup {NoEmail}]
  /\ intent \in [Intents -> IntentRows \cup {NoIntent}]
  /\ \A s \in sessions : s.of \in Emails
  /\ errand \in [Visits -> Errands \cup {NoErrand}]
  /\ step \in [Visits -> {"idle", "find", "lock", "look", "insert", "done"}]
  /\ reply \in [Visits -> Replies \cup {NoAnswer}]
  /\ \A v \in Visits : (step[v] = "idle") <=> (errand[v] = NoErrand)

(* A transaction that has locked its intent found it open and meant for the *)
(* visit, and keeps it so.                                                  *)
IntentHeld ==
  \A v \in Visits :
    Locking(v) /\ ~ For(v, "BOOTSTRAP") => Usable(v)

Alone ==
  \A v, w \in Visits : Locking(v) /\ Locking(w) /\ Contends(v, w) => v = w

(* A bootstrap that is about to insert an admin found none. *)
NoAdminYet ==
  \A v \in Visits : step[v] = "insert" /\ For(v, "BOOTSTRAP") => Admins = {}

SoleAdmin == \A d, e \in Admins : d = e

(* A session was opened by a visit that has used its intent up.             *)
Linked ==
  \A s \in sessions :
    s.by \in Visits =>
      /\ step[s.by] # "idle"
      /\ google[Subject(s.by)] = s.of
      /\ intent[errand[s.by].intent] # NoIntent
      /\ ~ intent[errand[s.by].intent].open

OneSession ==
  \A s, t \in sessions :
    s.by \in Visits /\ t.by \in Visits /\ errand[t.by].intent = errand[s.by].intent => t = s

AccountsInv ==
  /\ AccountTypes
  /\ IntentHeld
  /\ Alone
  /\ NoAdminYet
  /\ SoleAdmin
  /\ Linked
  /\ OneSession

(* An account keeps its role and its password; a new one has none, or one   *)
(* that was chosen by a visit.                                              *)
AccountsStay ==
  \A e \in Emails :
    /\ account[e] # Nobody =>
         /\ account'[e] # Nobody
         /\ account'[e].role = account[e].role
         /\ account'[e].by = account[e].by
         /\ account'[e].verified = account[e].verified
    /\ account[e] = Nobody /\ account'[e] # Nobody =>
         account'[e].by \in Visits \cup {NoPassword}

-----------------------------------------------------------------------------

LEMMA ErrandType ==
  ASSUME AccountTypes, NEW v \in Visits, step[v] # "idle"
  PROVE  /\ errand[v] \in Errands
         /\ errand[v].intent \in Intents
         /\ errand[v].subject \in Subjects
         /\ errand[v].email \in Emails
         /\ errand[v].kind \in Purposes \cup {"BOOTSTRAP"}
BY AccountsAssumption DEF AccountTypes

LEMMA NewAccountType ==
  ASSUME NEW role \in Roles, NEW by \in Makers \cup {NoPassword}, NEW verified \in BOOLEAN
  PROVE  /\ NewAccount(role, by, verified) \in AccountRows
         /\ NewAccount(role, by, verified) # Nobody
         /\ NewAccount(role, by, verified).role = role
         /\ NewAccount(role, by, verified).by = by
         /\ NewAccount(role, by, verified).verified = verified
<1> DEFINE change == role = "CASHIER"
<1>1. change \in BOOLEAN
  OBVIOUS
<1>2. NewAccount(role, by, verified) =
        [role |-> role, by |-> by, active |-> TRUE, verified |-> verified,
         mustChange |-> change]
  BY DEF NewAccount
<1> HIDE DEF change
<1>3. NewAccount(role, by, verified) \in AccountRows
  BY <1>1, <1>2 DEF AccountRows
<1>4. NewAccount(role, by, verified) # Nobody
  BY <1>3, AccountsAssumption
<1>5. QED
  BY <1>2, <1>3, <1>4

LEMMA AccountsStart == AccountsInit => AccountsInv
<1> SUFFICES ASSUME AccountsInit PROVE AccountsInv
  OBVIOUS
<1>1. AccountTypes
  BY AccountsAssumption DEF AccountsInit, AccountTypes
<1>2. SoleAdmin
  BY DEF AccountsInit, Consistent, SoleAdmin, Admins, Exists
<1>3. QED
  BY <1>1, <1>2
  DEF AccountsInit, AccountsInv, IntentHeld, Alone, NoAdminYet, Linked, OneSession, Locking

(* Steps that move a visit on and change nothing else.                      *)
LEMMA MovesKeep ==
  ASSUME AccountsInv, NEW v \in Visits,
         UNCHANGED <<account, google, intent, sessions>>,
         \/ Visit(v) \/ FindOAuthIntent(v) \/ LockIntent(v) \/ LockBootstrap(v)
         \/ BootstrapAdmin(v) \/ FailVisit(v)
         \/ Locking(v) /\ \E a \in Replies : Answer(v, a)
         \/ Locking(v) /\ ~ For(v, "BOOTSTRAP") /\ Proceed(v, "insert")
  PROVE  AccountsInv'
<1> USE DEF AccountsInv
<1>1. CASE Visit(v)
  <2>1. PICK m \in Errands :
          /\ errand' = [errand EXCEPT ![v] = m]
          /\ step' = [step EXCEPT ![v] = IF m.kind = "BOOTSTRAP" THEN "lock" ELSE "find"]
    BY <1>1 DEF Visit
  <2>2. /\ step[v] = "idle" /\ step'[v] \in {"lock", "find"}
        /\ \A w \in Visits \ {v} : step'[w] = step[w] /\ errand'[w] = errand[w]
        /\ reply' = reply
    BY <1>1, <2>1 DEF Visit, On, AccountTypes
  <2>3. AccountTypes'
    BY <2>1, <2>2, AccountsAssumption DEF AccountTypes
  <2>4. IntentHeld' /\ Alone'
    BY <2>2 DEF IntentHeld, Alone, Locking, Contends, For, Usable
  <2>5. NoAdminYet' /\ SoleAdmin'
    BY <2>2 DEF NoAdminYet, SoleAdmin, For, Admins, Exists
  <2>6. Linked' /\ OneSession'
    BY <2>2 DEF Linked, OneSession, Subject
  <2>7. QED
    BY <2>3, <2>4, <2>5, <2>6
<1>2. CASE ~ Visit(v)
  <2>1. /\ step[v] # "idle" /\ errand' = errand
        /\ step'[v] \in {"lock", "look", "insert", "done"}
        /\ step' = [step EXCEPT ![v] = step'[v]]
        /\ reply' \in [Visits -> Replies \cup {NoAnswer}]
    <3>1. step[v] # "idle"
      BY <1>2 DEF FindOAuthIntent, LockIntent, LockBootstrap, BootstrapAdmin, FailVisit,
                  On, Locking
    <3>2. \/ Proceed(v, "lock") \/ Proceed(v, "look") \/ Proceed(v, "insert")
          \/ \E a \in Replies : Answer(v, a)
      <4>1. CASE BootstrapAdmin(v)
        BY <4>1 DEF BootstrapAdmin, Replies
      <4>2. QED
        BY <1>2, <4>1 DEF FindOAuthIntent, LockIntent, LockBootstrap, FailVisit, Rejected,
                          Replies
    <3>3. QED
      BY <3>1, <3>2 DEF Proceed, Answer, AccountTypes
  <2>2. \A w \in Visits \ {v} : step'[w] = step[w]
    BY <2>1 DEF AccountTypes
  <2>3. AccountTypes'
    BY <2>1, <2>2 DEF AccountTypes
  <2>4. Locking(v)' =>
          /\ ~ For(v, "BOOTSTRAP") /\ ~ Locking(v) => Usable(v)
          /\ \A w \in Visits \ {v} : Locking(w) => ~ Contends(v, w)
    <3>1. CASE Locking(v)
      BY <3>1 DEF Alone
    <3>2. CASE FindOAuthIntent(v) \/ FailVisit(v)
      BY <3>2 DEF FindOAuthIntent, FailVisit, Rejected, Proceed, Answer, AccountTypes, Locking
    <3>3. CASE LockIntent(v) \/ LockBootstrap(v)
      BY <3>3 DEF LockIntent, LockBootstrap, Proceed, Answer, AccountTypes, Locking
    <3>4. QED
      BY <1>2, <3>1, <3>2, <3>3 DEF BootstrapAdmin, On, Locking
  <2>5. IntentHeld' /\ Alone'
    BY <2>1, <2>2, <2>4 DEF IntentHeld, Alone, Locking, Contends, For, Usable
  <2>6. step'[v] = "insert" /\ For(v, "BOOTSTRAP") => Admins = {}
    BY <1>2, <2>1
    DEF FindOAuthIntent, LockIntent, LockBootstrap, BootstrapAdmin, FailVisit, On,
        Proceed, Answer, Rejected, AccountTypes, For
  <2>7. NoAdminYet' /\ SoleAdmin'
    BY <2>1, <2>2, <2>6 DEF NoAdminYet, SoleAdmin, For, Admins, Exists
  <2>8. Linked' /\ OneSession'
    BY <2>1, <2>2 DEF Linked, OneSession, Subject
  <2>9. QED
    BY <2>3, <2>5, <2>7, <2>8
<1>3. QED
  BY <1>1, <1>2

-----------------------------------------------------------------------------
(* Transactions that commit                                                *)

LEMMA Commits ==
  ASSUME AccountsInv, NEW v \in Visits, Locking(v),
         NEW a \in Replies, Committed(v, a) \/ Answer(v, a)
  PROVE  /\ step[v] # "idle" /\ step'[v] = "done" /\ errand' = errand
         /\ step' = [step EXCEPT ![v] = "done"]
         /\ \A w \in Visits \ {v} : step'[w] = step[w]
         /\ step' \in [Visits -> {"idle", "find", "lock", "look", "insert", "done"}]
         /\ reply' \in [Visits -> Replies \cup {NoAnswer}]
         /\ Alone'
         /\ (Use(v) /\ ~ For(v, "BOOTSTRAP")) \/ intent' = intent =>
              /\ IntentHeld'
              /\ intent' \in [Intents -> IntentRows \cup {NoIntent}]
              /\ \A i \in Intents :
                   intent[i] # NoIntent /\ ~ intent[i].open =>
                     intent'[i] # NoIntent /\ ~ intent'[i].open
         /\ Use(v) /\ ~ For(v, "BOOTSTRAP") =>
              intent'[errand[v].intent] # NoIntent /\ ~ intent'[errand[v].intent].open
<1> USE DEF AccountsInv
<1>1. /\ step[v] # "idle" /\ errand' = errand
      /\ step' = [step EXCEPT ![v] = "done"]
      /\ reply' \in [Visits -> Replies \cup {NoAnswer}]
  BY DEF Committed, Answer, Locking, AccountTypes, Replies
<1>2. /\ step'[v] = "done"
      /\ \A w \in Visits \ {v} : step'[w] = step[w]
      /\ step' \in [Visits -> {"idle", "find", "lock", "look", "insert", "done"}]
  BY <1>1 DEF AccountTypes
<1>3. Alone'
  BY <1>1, <1>2 DEF Alone, Locking, Contends, For
<1>4. CASE Use(v) /\ ~ For(v, "BOOTSTRAP")
  <2> DEFINE i == errand[v].intent
  <2>1. i \in Intents /\ intent[i] \in IntentRows /\ intent[i] # NoIntent
    BY <1>1, <1>4, ErrandType DEF AccountTypes, IntentHeld, Usable
  <2>2. /\ intent' \in [Intents -> IntentRows \cup {NoIntent}]
        /\ intent'[i] \in IntentRows /\ ~ intent'[i].open
        /\ \A j \in Intents \ {i} : intent'[j] = intent[j]
    BY <1>4, <2>1 DEF Use, AccountTypes, IntentRows
  <2>3. intent'[i] # NoIntent
    BY <2>2, AccountsAssumption
  <2>4. IntentHeld'
    <3> SUFFICES ASSUME NEW w \in Visits, Locking(w)', ~ For(w, "BOOTSTRAP")'
                 PROVE  Usable(w)'
      BY <1>1 DEF IntentHeld
    <3>1. w # v /\ Locking(w) /\ ~ For(w, "BOOTSTRAP")
      BY <1>1, <1>2 DEF Locking, For
    <3>2. errand[w].intent # i /\ errand[w].intent \in Intents
      BY <1>4, <3>1, ErrandType DEF Alone, Contends, Locking
    <3>3. QED
      BY <1>1, <2>2, <3>1, <3>2 DEF IntentHeld, Usable, For
  <2>5. QED
    BY <1>1, <1>2, <1>3, <2>2, <2>3, <2>4
<1>5. CASE intent' = intent /\ ~ (Use(v) /\ ~ For(v, "BOOTSTRAP"))
  <2>1. IntentHeld'
    BY <1>1, <1>2, <1>5 DEF IntentHeld, Locking, For, Usable
  <2>2. intent' \in [Intents -> IntentRows \cup {NoIntent}]
    BY <1>5 DEF AccountTypes
  <2>3. QED
    BY <1>1, <1>2, <1>3, <1>5, <2>1, <2>2
<1>6. QED
  BY <1>1, <1>2, <1>3, <1>4, <1>5

(* An account that is opened or has its identity linked, and a session for  *)
(* the visit, or none.                                                      *)
LEMMA OpeningKeeps ==
  ASSUME AccountsInv, NEW v \in Visits, Locking(v), ~ For(v, "BOOTSTRAP"),
         NEW a \in Replies, Committed(v, a), Use(v),
         NEW e \in Emails,
         sessions' = sessions \/ (Open(v, e) /\ google'[Subject(v)] = e),
         \/ google' = google
         \/ google[Subject(v)] = NoEmail /\ google' = [google EXCEPT ![Subject(v)] = e],
         \/ account' = account
         \/ ~ Exists(e) /\ account' = [account EXCEPT ![e] =
                                         NewAccount("CUSTOMER", NoPassword, FALSE)]
  PROVE  AccountsInv' /\ AccountsStay
<1> USE DEF AccountsInv
<1> DEFINE i == errand[v].intent
<1>1. /\ step[v] # "idle" /\ step'[v] = "done" /\ errand' = errand
      /\ \A w \in Visits \ {v} : step'[w] = step[w]
      /\ step' \in [Visits -> {"idle", "find", "lock", "look", "insert", "done"}]
      /\ reply' \in [Visits -> Replies \cup {NoAnswer}]
      /\ Alone' /\ IntentHeld'
      /\ intent' \in [Intents -> IntentRows \cup {NoIntent}]
      /\ \A j \in Intents : intent[j] # NoIntent /\ ~ intent[j].open =>
                              intent'[j] # NoIntent /\ ~ intent'[j].open
      /\ intent'[i] # NoIntent /\ ~ intent'[i].open
  BY Commits
<1>2. /\ i \in Intents /\ Subject(v) \in Subjects
      /\ intent[i] # NoIntent /\ intent[i].open
  BY <1>1, ErrandType DEF IntentHeld, Usable, Subject
<1>3. /\ account' \in [Emails -> AccountRows \cup {Nobody}]
      /\ AccountsStay
      /\ \A d \in Emails : account'[d] = account[d] \/ account'[d].role = "CUSTOMER"
  <2> DEFINE new == NewAccount("CUSTOMER", NoPassword, FALSE)
  <2>1. new \in AccountRows /\ new # Nobody /\ new.role = "CUSTOMER" /\ new.by = NoPassword
    <3>1. "CUSTOMER" \in Roles /\ NoPassword \in Makers \cup {NoPassword} /\ FALSE \in BOOLEAN
      BY DEF Roles
    <3>2. QED
      BY <3>1, NewAccountType
  <2> HIDE DEF new
  <2>2. CASE account' = account
    <3>1. AccountsStay
      BY <2>2 DEF AccountsStay
    <3>2. QED
      BY <2>2, <3>1 DEF AccountTypes
  <2>3. CASE account[e] = Nobody /\ account' = [account EXCEPT ![e] = new]
    <3>1. account'[e] = new /\ \A d \in Emails \ {e} : account'[d] = account[d]
      BY <2>3 DEF AccountTypes
    <3>2. AccountsStay
      BY <2>1, <2>3, <3>1 DEF AccountsStay
    <3>3. QED
      BY <2>1, <2>3, <3>1, <3>2 DEF AccountTypes
  <2>4. QED
    BY <2>2, <2>3 DEF Exists, new
<1>4. Admins' \subseteq Admins
  BY <1>3 DEF Admins, Exists
<1>5. /\ google' \in [Subjects -> Emails \cup {NoEmail}]
      /\ \A g \in Subjects : google[g] # NoEmail => google'[g] = google[g]
  BY <1>2 DEF AccountTypes
<1>6. AccountTypes'
  BY <1>1, <1>3, <1>5 DEF AccountTypes, Open
<1>7. NoAdminYet' /\ SoleAdmin'
  BY <1>1, <1>4 DEF NoAdminYet, SoleAdmin, For
<1>8. Linked'
  <2> SUFFICES ASSUME NEW s \in sessions', s.by \in Visits
               PROVE  /\ step'[s.by] # "idle"
                      /\ google'[Subject(s.by)] = s.of
                      /\ intent'[errand[s.by].intent] # NoIntent
                      /\ ~ intent'[errand[s.by].intent].open
    BY <1>1 DEF Linked, Subject
  <2>1. CASE s \in sessions
    <3>1. /\ step[s.by] # "idle" /\ google[Subject(s.by)] = s.of
          /\ intent[errand[s.by].intent] # NoIntent
          /\ ~ intent[errand[s.by].intent].open
          /\ s.of \in Emails
      BY <2>1 DEF Linked, AccountTypes
    <3>2. errand[s.by].intent \in Intents /\ Subject(s.by) \in Subjects
      BY <3>1, ErrandType DEF Subject
    <3>3. s.of # NoEmail
      BY <3>1, AccountsAssumption
    <3>4. QED
      BY <1>1, <1>5, <3>1, <3>2, <3>3
  <2>2. CASE s \notin sessions
    <3>1. s.by = v /\ s.of = e /\ google'[Subject(v)] = e
      BY <2>2 DEF Open
    <3>2. QED
      BY <1>1, <3>1
  <2>3. QED
    BY <2>1, <2>2
<1>9. OneSession'
  <2>1. \A s \in sessions : s.by \in Visits => errand[s.by].intent # i
    BY <1>2 DEF Linked
  <2>2. \A s \in sessions' : s \in sessions \/ s = [by |-> v, of |-> e]
    BY DEF Open
  <2>3. QED
    BY <1>1, <2>1, <2>2 DEF OneSession
<1>10. QED
  BY <1>1, <1>3, <1>6, <1>7, <1>8, <1>9

LEMMA InsertAdminKeeps ==
  ASSUME AccountsInv, NEW v \in Visits, InsertAdmin(v)
  PROVE  AccountsInv' /\ AccountsStay
<1> USE DEF AccountsInv
<1> DEFINE e == errand[v].email
           new == NewAccount("ADMIN", v, FALSE)
<1>1. Locking(v) /\ step[v] = "insert" /\ For(v, "BOOTSTRAP") /\ e \in Emails
  BY ErrandType DEF InsertAdmin, On, Locking
<1>2. CASE Exists(e)
  <2>1. UNCHANGED <<account, google, intent, sessions>> /\ Answer(v, "ERROR")
    BY <1>2 DEF InsertAdmin, Rejected
  <2>2. AccountsInv'
    BY <1>1, <2>1, MovesKeep DEF Replies
  <2>3. QED
    BY <2>1, <2>2 DEF AccountsStay, AccountTypes
<1>3. CASE ~ Exists(e)
  <2>1. /\ account' = [account EXCEPT ![e] = new]
        /\ Committed(v, "OK")
        /\ UNCHANGED <<google, intent, sessions>>
    BY <1>3 DEF InsertAdmin
  <2>2. new \in AccountRows /\ new # Nobody /\ new.by = v
    BY NewAccountType, AccountsAssumption DEF Roles
  <2> HIDE DEF new
  <2>3. /\ step[v] # "idle" /\ step'[v] = "done" /\ errand' = errand
        /\ \A w \in Visits \ {v} : step'[w] = step[w]
        /\ step' \in [Visits -> {"idle", "find", "lock", "look", "insert", "done"}]
        /\ reply' \in [Visits -> Replies \cup {NoAnswer}]
        /\ Alone' /\ IntentHeld'
    BY <1>1, <2>1, Commits DEF Replies
  <2>4. AccountsStay /\ AccountTypes'
    BY <1>1, <1>3, <2>1, <2>2, <2>3 DEF AccountsStay, AccountTypes, Exists
  <2>5. Admins = {} /\ Admins' \subseteq {e}
    BY <1>1, <2>1 DEF NoAdminYet, Admins, Exists, AccountTypes
  <2>6. SoleAdmin'
    BY <2>5 DEF SoleAdmin
  <2>7. NoAdminYet'
    <3> SUFFICES ASSUME NEW w \in Visits, step'[w] = "insert", For(w, "BOOTSTRAP")'
                 PROVE  FALSE
      BY DEF NoAdminYet
    <3>1. w # v /\ Locking(w) /\ Contends(v, w)
      BY <1>1, <2>3 DEF Locking, Contends, For
    <3>2. QED
      BY <1>1, <3>1 DEF Alone
  <2>8. Linked' /\ OneSession'
    BY <2>1, <2>3 DEF Linked, OneSession, Subject
  <2>9. QED
    BY <2>3, <2>4, <2>6, <2>7, <2>8
<1>4. QED
  BY <1>2, <1>3

LEMMA BeginOAuthKeeps ==
  ASSUME AccountsInv, NEW i \in Intents, BeginOAuth(i)
  PROVE  AccountsInv' /\ AccountsStay
<1> USE DEF AccountsInv
<1>1. PICK purpose \in Purposes, e \in Emails \cup {NoEmail} :
        intent' = [intent EXCEPT ![i] = [purpose |-> purpose, for |-> e, open |-> TRUE]]
  BY DEF BeginOAuth
<1>2. /\ intent[i] = NoIntent
      /\ UNCHANGED <<account, google, sessions, visiting>>
  BY DEF BeginOAuth
<1>3. /\ intent' \in [Intents -> IntentRows \cup {NoIntent}]
      /\ \A j \in Intents : intent[j] # NoIntent => intent'[j] = intent[j]
  BY <1>1, <1>2 DEF AccountTypes, IntentRows
<1>4. AccountTypes' /\ AccountsStay
  BY <1>2, <1>3 DEF AccountTypes, AccountsStay, visiting
<1>5. \A v \in Visits : step[v] # "idle" => errand[v].intent \in Intents
  BY ErrandType
<1>6. IntentHeld'
  BY <1>2, <1>3, <1>5 DEF IntentHeld, Locking, For, Usable, visiting
<1>7. Linked'
  BY <1>2, <1>3, <1>5 DEF Linked, Subject, visiting
<1>8. Alone' /\ NoAdminYet' /\ SoleAdmin' /\ OneSession'
  BY <1>2 DEF Alone, NoAdminYet, SoleAdmin, OneSession, Locking, Contends, For, Admins,
              Exists, visiting
<1>9. QED
  BY <1>4, <1>6, <1>7, <1>8

(* Whatever opens an account that is not an admin's, or a session that is   *)
(* not a visit's, leaves the rest alone.                                    *)
LEMMA ElsewhereKeeps ==
  ASSUME AccountsInv,
         account' \in [Emails -> AccountRows \cup {Nobody}],
         Admins' \subseteq Admins,
         \A s \in sessions' : s \in sessions \/ (s.by \notin Visits /\ s.of \in Emails),
         UNCHANGED <<google, intent, visiting>>
  PROVE  AccountsInv'
<1> USE DEF AccountsInv, visiting
<1>1. AccountTypes'
  BY DEF AccountTypes
<1>2. IntentHeld' /\ Alone' /\ NoAdminYet' /\ SoleAdmin'
  BY DEF IntentHeld, Alone, NoAdminYet, SoleAdmin, Locking, Contends, For, Usable
<1>3. Linked' /\ OneSession'
  BY DEF Linked, OneSession, Subject
<1>4. QED
  BY <1>1, <1>2, <1>3

LEMMA DisableKeeps ==
  ASSUME AccountsInv, NEW e \in Emails, DisableUser(e)
  PROVE  AccountsInv' /\ AccountsStay
<1> USE DEF AccountsInv
<1>1. /\ account[e] \in AccountRows
      /\ account' = [account EXCEPT ![e] = [account[e] EXCEPT !.active = FALSE]]
      /\ \A s \in sessions' : s \in sessions
      /\ UNCHANGED <<google, intent, visiting>>
  BY DEF DisableUser, Exists, AccountTypes
<1>2. /\ account'[e] \in AccountRows
      /\ account'[e].role = account[e].role
      /\ account'[e].by = account[e].by
      /\ account'[e].verified = account[e].verified
      /\ \A d \in Emails \ {e} : account'[d] = account[d]
      /\ account' \in [Emails -> AccountRows \cup {Nobody}]
  BY <1>1 DEF AccountTypes, AccountRows
<1>3. account'[e] # Nobody /\ account[e] # Nobody
  BY <1>1, <1>2, AccountsAssumption
<1>4. AccountsStay
  BY <1>2, <1>3 DEF AccountsStay
<1>5. Admins' \subseteq Admins
  BY <1>2, <1>3 DEF Admins, Exists
<1>6. QED
  BY <1>1, <1>2, <1>4, <1>5, ElsewhereKeeps

LEMMA VisitKeeps ==
  ASSUME AccountsInv, NEW v \in Visits, VisitStep(v)
  PROVE  AccountsInv' /\ AccountsStay
<1> USE DEF AccountsInv
<1>1. CASE \/ FindOAuthIntent(v) \/ LockIntent(v) \/ LockBootstrap(v)
           \/ BootstrapAdmin(v)
  <2>1. UNCHANGED <<account, google, intent, sessions>>
    BY <1>1 DEF FindOAuthIntent, LockIntent, LockBootstrap, BootstrapAdmin
  <2>2. QED
    BY <1>1, <2>1, MovesKeep DEF AccountsStay
<1>2. CASE CompleteOAuthLogin(v)
  <2> DEFINE e == google[Subject(v)]
  <2>1. Locking(v) /\ ~ For(v, "BOOTSTRAP") /\ step[v] # "idle"
    BY <1>2 DEF CompleteOAuthLogin, On, Locking, For
  <2>2. Subject(v) \in Subjects /\ EmailOf[Subject(v)] \in Emails
        /\ e \in Emails \cup {NoEmail}
    BY <2>1, ErrandType, AccountsAssumption DEF Subject, AccountTypes
  <2>3. CASE e # NoEmail /\ Open(v, e) /\ Use(v) /\ Committed(v, "OK")
             /\ UNCHANGED <<account, google>>
    BY <2>1, <2>2, <2>3, OpeningKeeps DEF Replies
  <2>4. CASE Rejected(v, "REFUSED")
    <3>1. UNCHANGED <<account, google, intent, sessions>> /\ Answer(v, "REFUSED")
      BY <2>4 DEF Rejected
    <3>2. QED
      BY <2>1, <3>1, MovesKeep DEF AccountsStay, Replies
  <2>5. CASE Use(v) /\ Committed(v, "LINK_REQUIRED")
             /\ UNCHANGED <<account, google, sessions>>
    BY <2>1, <2>2, <2>5, OpeningKeeps DEF Replies
  <2>6. CASE Proceed(v, "insert") /\ UNCHANGED <<account, google, intent, sessions>>
    BY <2>1, <2>6, MovesKeep DEF AccountsStay
  <2>7. QED
    BY <1>2, <2>3, <2>4, <2>5, <2>6 DEF CompleteOAuthLogin
<1>3. CASE InsertOAuthCustomer(v)
  <2> DEFINE e == EmailOf[Subject(v)]
  <2>1. Locking(v) /\ ~ For(v, "BOOTSTRAP") /\ step[v] # "idle"
    BY <1>3 DEF InsertOAuthCustomer, On, Locking, For
  <2>2. Subject(v) \in Subjects /\ e \in Emails
    BY <2>1, ErrandType, AccountsAssumption DEF Subject
  <2>3. CASE Exists(e) \/ google[Subject(v)] # NoEmail
    <3>1. /\ UNCHANGED <<account, google, intent, sessions>>
          /\ \E a \in Replies : Answer(v, a)
      BY <1>3, <2>3 DEF InsertOAuthCustomer, Rejected, Replies
    <3>2. QED
      BY <2>1, <3>1, MovesKeep DEF AccountsStay
  <2>4. CASE ~ (Exists(e) \/ google[Subject(v)] # NoEmail)
    <3>1. /\ account' = [account EXCEPT ![e] = NewAccount("CUSTOMER", NoPassword, FALSE)]
          /\ google' = [google EXCEPT ![Subject(v)] = e]
          /\ Open(v, e) /\ Use(v)
          /\ Committed(v, "OK")
      BY <1>3, <2>4 DEF InsertOAuthCustomer
    <3>2. google'[Subject(v)] = e
      BY <2>2, <3>1 DEF AccountTypes
    <3>3. QED
      BY <2>1, <2>2, <2>4, <3>1, <3>2, OpeningKeeps DEF Replies
  <2>5. QED
    BY <2>3, <2>4
<1>4. CASE CompleteOAuthLink(v)
  <2> DEFINE e == errand[v].email
  <2>1. Locking(v) /\ ~ For(v, "BOOTSTRAP") /\ step[v] # "idle"
    BY <1>4 DEF CompleteOAuthLink, On, Locking, For
  <2>2. Subject(v) \in Subjects /\ e \in Emails
    BY <2>1, ErrandType DEF Subject
  <2>3. CASE Rejected(v, "REFUSED")
    <3>1. UNCHANGED <<account, google, intent, sessions>> /\ Answer(v, "REFUSED")
      BY <2>3 DEF Rejected
    <3>2. QED
      BY <2>1, <3>1, MovesKeep DEF AccountsStay, Replies
  <2>4. CASE ~ Rejected(v, "REFUSED")
    <3>1. /\ google[Subject(v)] = NoEmail
          /\ google' = [google EXCEPT ![Subject(v)] = e]
          /\ Use(v)
          /\ Committed(v, "OK")
          /\ UNCHANGED <<account, sessions>>
      BY <1>4, <2>4 DEF CompleteOAuthLink
    <3>2. QED
      BY <2>1, <2>2, <3>1, OpeningKeeps DEF Replies
  <2>5. QED
    BY <2>3, <2>4
<1>5. QED
  BY <1>1, <1>2, <1>3, <1>4, InsertAdminKeeps DEF VisitStep

LEMMA AccountsNextKeeps ==
  ASSUME AccountsInv, AccountsNext
  PROVE  AccountsInv' /\ AccountsStay
<1>1. CASE \E v \in Visits : Visit(v) \/ FailVisit(v)
  <2>1. UNCHANGED <<account, google, intent, sessions>>
    BY <1>1 DEF Visit, FailVisit, Rejected
  <2>2. QED
    BY <1>1, <2>1, MovesKeep DEF AccountsStay
<1>2. QED
  BY <1>1, VisitKeeps, BeginOAuthKeeps, DisableKeeps DEF AccountsNext


-----------------------------------------------------------------------------
(* The inductive invariant                                                 *)

PCs == {"idle", "lock", "look", "write", "mail", "session", "done"}

RequestTypes ==
  /\ ask \in [Requests -> Asks \cup {NoAsk}]
  /\ pc \in [Requests -> PCs]
  /\ answer \in [Requests -> Answers \cup {NoAnswer}]
  /\ owned \subseteq Requests
  /\ \A r \in Requests : (pc[r] = "idle") <=> (ask[r] = NoAsk)

TableTypes ==
  /\ pending \in [Tables -> [Emails -> RowsOfTable \cup {NoRow}]]
  /\ count \in [Emails -> 0..MaxPerHour]
  /\ issued \subseteq Ids
  /\ tries \in [Ids -> Nat]

SessionTypes == sessions \subseteq [by : Visits \cup Requests, of : Emails]

(* Where a request is tells what it is and what it has done.                *)
Phases ==
  \A r \in Requests :
    /\ At(r, "look") => ask[r].kind = "begin" \/ Is(r, "verify", "CASHIER")
    /\ At(r, "session") => ask[r].kind = "verify"
    /\ r \in issued => At(r, "mail") \/ At(r, "done")
    /\ ~ At(r, "idle") => ask[r].code \in mailbox \cup {Wrong}
    /\ ~ At(r, "idle") /\ ask[r].kind # "begin" => ask[r].id \in issued

(* An attempt is left, and the code is the one that counts.                 *)
Right(r) == Row(r).attempts < MaxAttempts /\ Proves(r)

(* The row that a transaction has locked stays the one it found.            *)
RowHeld ==
  \A r \in Requests :
    HasRow(r) =>
      /\ Named(r)
      /\ ~ Row(r).consumed
      /\ ask[r].kind = "verify" => Right(r)

RowAlone ==
  \A q, r \in Requests : HasRow(q) /\ HasRow(r) /\ SameRow(q, r) => q = r

BucketHeld ==
  \A r \in Requests : HasBucket(r) => count[Email(r)] < MaxPerHour

BucketAlone ==
  \A q, r \in Requests : HasBucket(q) /\ HasBucket(r) /\ Email(q) = Email(r) => q = r

(* A row carries a code that was issued, and counts at least the attempts   *)
(* at this code.                                                            *)
RowsTrue ==
  \A t \in Tables, e \in Emails :
    LET row == pending[t][e] IN
    row # NoRow =>
      /\ row.id \in issued /\ row.code \in issued
      /\ tries[row.code] <= row.attempts
      /\ row.eligible => row.id \notin owned

(* Two rows never share a code. *)
CodesApart ==
  \A t, u \in Tables, d, e \in Emails :
    /\ pending[t][d] # NoRow /\ pending[u][e] # NoRow
    /\ pending[t][d].code = pending[u][e].code
    => t = u /\ d = e

Untried == \A c \in Ids : c \notin issued => tries[c] = 0

IssuedFor(e) == {r \in issued \cap Requests : Email(r) = e}

Counted ==
  /\ IsFiniteSet(issued)
  /\ \A e \in Emails : Cardinality(IssuedFor(e)) <= count[e]

MailTrue ==
  \A r \in Requests :
    r \in Posted \/ At(r, "mail") =>
      /\ r \in issued
      /\ ask[r].kind = "begin" => r \notin owned
      /\ ask[r].kind = "resend" => ask[r].id \notin owned

(* What requests, and what the tables and the mails, owe to the invariant.  *)
Asked ==
  /\ RequestTypes
  /\ Phases
  /\ RowHeld
  /\ RowAlone
  /\ BucketHeld
  /\ BucketAlone

Tabled ==
  /\ TableTypes
  /\ MailTypeOK
  /\ RowsTrue
  /\ CodesApart
  /\ Untried
  /\ GuessesBounded
  /\ Counted
  /\ MailTrue

IInv ==
  /\ AccountsInv
  /\ SessionTypes
  /\ ConsumedHasAccount
  /\ Asked
  /\ Tabled

LEMMA TypesOfAll ==
  TypeOK <=> /\ AccountTypes /\ SessionTypes
             /\ RequestTypes /\ TableTypes /\ MailTypeOK
BY DEF TypeOK, AccountTypes, SessionTypes, RequestTypes, TableTypes, PCs

-----------------------------------------------------------------------------
(* At first                                                                *)

LEMMA InitIInv == Init => IInv
<1> SUFFICES ASSUME Init PROVE IInv
  OBVIOUS
<1>1. /\ AccountsInit
      /\ queue = <<>> /\ mailbox = {First}
      /\ pending \in FirstPending /\ Fits(pending, account)
      /\ count = [e \in Emails |-> 0]
      /\ issued = {First} /\ tries = [c \in Ids |-> 0]
      /\ ask = [r \in Requests |-> NoAsk]
      /\ pc = [r \in Requests |-> "idle"]
      /\ answer = [r \in Requests |-> NoAnswer]
      /\ owned = {}
  BY DEF Init
<1>2. AccountsInv /\ SessionTypes
  BY <1>1, AccountsStart DEF AccountsInit, SessionTypes
<1>3. ConsumedHasAccount
  BY <1>1 DEF ConsumedHasAccount, Fits, Exists
<1>4. Asked
  <2>1. RequestTypes
    BY <1>1 DEF RequestTypes, PCs
  <2>2. \A r \in Requests : pc[r] = "idle" /\ r \notin issued
    BY <1>1, RegistrationAssumption
  <2>3. \A r \in Requests : ~ HasRow(r) /\ ~ HasBucket(r)
    BY <2>2 DEF HasRow, HasBucket, UnderWay
  <2>4. Phases
    BY <2>2 DEF Phases, At
  <2>5. QED
    BY <2>1, <2>3, <2>4 DEF Asked, RowHeld, RowAlone, BucketHeld, BucketAlone
<1>5. TableTypes
  <2>1. pending \in [Tables -> [Emails -> RowsOfTable \cup {NoRow}]]
    BY <1>1, RegistrationAssumption
  <2>2. count \in [Emails -> 0..MaxPerHour]
    BY <1>1, RegistrationAssumption
  <2>3. QED
    BY <1>1, <2>1, <2>2 DEF TableTypes, Ids
<1>6. MailTypeOK /\ MailTrue
  <2>1. MailTypeOK
    <3>1. Len(queue) = 0 /\ queue \in Seq(Codes)
      BY <1>1
    <3>2. mailbox \subseteq Codes
      BY <1>1, RegistrationAssumption DEF Ids
    <3>3. QED
      BY <3>1, <3>2, CapacityAssumption DEF MailTypeOK
  <2>2. Posted = {First}
    BY <1>1 DEF Posted
  <2>3. QED
    BY <1>1, <2>1, <2>2, RegistrationAssumption DEF MailTrue, At
<1>7. RowsTrue /\ CodesApart /\ Untried /\ GuessesBounded
  <2>1. \A t \in Tables, e \in Emails :
          pending[t][e] # NoRow =>
            /\ pending[t][e].id = First /\ pending[t][e].code = First
            /\ pending[t][e].attempts = 0
            /\ \A u \in Tables, d \in Emails : pending[u][d] # NoRow => u = t /\ d = e
    BY <1>1 DEF Fits
  <2>2. RowsTrue
    BY <1>1, <2>1 DEF RowsTrue, Ids
  <2>3. CodesApart
    BY <2>1 DEF CodesApart
  <2>4. QED
    BY <1>1, <2>2, <2>3, RegistrationAssumption DEF Untried, GuessesBounded
<1>8. Counted
  <2>1. \A e \in Emails : IssuedFor(e) = {}
    BY <1>1, RegistrationAssumption DEF IssuedFor
  <2>2. \A e \in Emails : count[e] = 0
    BY <1>1
  <2>3. IsFiniteSet(issued)
    BY <1>1, FS_Singleton
  <2>4. QED
    BY <2>1, <2>2, <2>3, FS_EmptySet DEF Counted
<1>9. QED
  BY <1>2, <1>3, <1>4, <1>5, <1>6, <1>7, <1>8 DEF IInv, Tabled

-----------------------------------------------------------------------------
(* Moves                                                                   *)

LEMMA AskType ==
  ASSUME RequestTypes, NEW r \in Requests, ~ At(r, "idle")
  PROVE  /\ ask[r] \in Asks
         /\ ask[r].kind \in Kinds
         /\ ask[r].table \in Tables
         /\ Email(r) \in Emails
         /\ ask[r].id \in Ids
         /\ ask[r].code \in Ids \cup {Wrong}
<1>1. ask[r] \in Asks
  BY DEF RequestTypes, At
<1>2. QED
  BY <1>1, RegistrationAssumption DEF Email

LEMMA RowType ==
  ASSUME RequestTypes, TableTypes, NEW r \in Requests, ~ At(r, "idle"), Row(r) # NoRow
  PROVE  Row(r) \in RowsOfTable
BY AskType DEF TableTypes, Row

(* Nothing that is said of the tables and the mails is about a request that *)
(* has not issued a code.                                                   *)
LEMMA TabledKeeps ==
  ASSUME Asked, Tabled, NEW r \in Requests,
         ~ (At(r, "mail") \/ At(r, "done")),
         UNCHANGED <<tables, mail>>,
         owned' \in {owned, owned \cup {r}},
         ~ At(r, "mail")',
         \A q \in Requests \ {r} : pc'[q] = pc[q] /\ ask'[q] = ask[q]
  PROVE  Tabled'
<1> USE DEF Asked, Tabled, tables, mail
<1>1. r \notin issued
  BY DEF Phases, At
<1>2. TableTypes' /\ MailTypeOK' /\ CodesApart' /\ Untried' /\ GuessesBounded'
  BY DEF TableTypes, MailTypeOK, CodesApart, Untried, GuessesBounded
<1>3. RowsTrue'
  BY <1>1 DEF RowsTrue
<1>4. Counted'
  <2>1. \A e \in Emails : IssuedFor(e)' = IssuedFor(e)
    BY <1>1 DEF IssuedFor, Email
  <2>2. QED
    BY <2>1 DEF Counted
<1>5. MailTrue'
  <2> SUFFICES ASSUME NEW q \in Requests, q \in Posted' \/ At(q, "mail")'
               PROVE  /\ q \in issued
                      /\ ask'[q].kind = "begin" => q \notin owned'
                      /\ ask'[q].kind = "resend" => ask'[q].id \notin owned'
    BY DEF MailTrue
  <2>1. Posted' = Posted
    BY DEF Posted
  <2>2. q # r /\ (q \in Posted \/ At(q, "mail"))
    BY <1>1, <2>1 DEF MailTrue, At
  <2>3. /\ q \in issued
        /\ ask[q].kind = "begin" => q \notin owned
        /\ ask[q].kind = "resend" => ask[q].id \notin owned
    BY <2>2 DEF MailTrue
  <2>4. ask[q].kind = "resend" => ask[q].id \in issued
    BY <2>3 DEF Phases, At
  <2>5. QED
    BY <1>1, <2>2, <2>3, <2>4
<1>6. QED
  BY <1>2, <1>3, <1>4, <1>5

(* A request that ends, or goes on with what it has locked.                 *)
LEMMA MovesOn ==
  ASSUME Asked, Tabled, NEW r \in Requests, ~ At(r, "idle"),
         NEW p \in {"look", "write", "session", "done"},
         pc' = [pc EXCEPT ![r] = p],
         p # "done" => At(r, "lock") \/ At(r, "look") \/ At(r, "write"),
         ask' = ask, answer' \in [Requests -> Answers \cup {NoAnswer}],
         owned' \in {owned, owned \cup {r}},
         p = "done" => owned' = owned,
         UNCHANGED <<tables, mail>>,
         p = "look" => ask[r].kind = "begin" \/ Is(r, "verify", "CASHIER"),
         p = "session" => ask[r].kind = "verify",
         p \in {"look", "write"} /\ ask[r].kind # "begin" =>
           /\ Named(r) /\ ~ Row(r).consumed
           /\ ask[r].kind = "verify" => Right(r)
           /\ \A q \in Requests \ {r} : HasRow(q) => ~ SameRow(q, r),
         p \in {"look", "write"} /\ ask[r].kind = "begin" =>
           /\ count[Email(r)] < MaxPerHour
           /\ \A q \in Requests \ {r} : HasBucket(q) => Email(q) # Email(r)
  PROVE  Asked' /\ Tabled'
<1> USE DEF Asked, tables, mail
<1>1. pc'[r] = p /\ \A q \in Requests \ {r} : pc'[q] = pc[q]
  BY DEF RequestTypes
<1>2. RequestTypes'
  BY <1>1 DEF RequestTypes, PCs, At
<1>3. Phases'
  BY <1>1 DEF Phases, At, Is
<1>4. /\ HasRow(r)' => p \in {"look", "write"} /\ ask[r].kind # "begin"
      /\ HasBucket(r)' => p \in {"look", "write"} /\ ask[r].kind = "begin"
      /\ \A q \in Requests \ {r} : HasRow(q)' = HasRow(q) /\ HasBucket(q)' = HasBucket(q)
  BY <1>1 DEF HasRow, HasBucket, UnderWay
<1>5. RowHeld' /\ RowAlone'
  BY <1>4 DEF RowHeld, RowAlone, SameRow, Email, Named, Row, Right, Proves
<1>6. BucketHeld' /\ BucketAlone'
  BY <1>4 DEF BucketHeld, BucketAlone, Email
<1>7. Tabled'
  <2>1. CASE p = "done"
    <3>1. /\ \A q \in Requests : At(q, "mail")' => At(q, "mail")
          /\ Posted' = Posted
      BY <1>1, <2>1 DEF At, Posted
    <3>2. \A e \in Emails : IssuedFor(e)' = IssuedFor(e)
      BY DEF IssuedFor, Email
    <3>3. MailTrue'
      BY <2>1, <3>1 DEF MailTrue, Tabled
    <3>4. QED
      BY <2>1, <3>2, <3>3
      DEF Tabled, TableTypes, MailTypeOK, RowsTrue, CodesApart, Untried, GuessesBounded,
          Counted
  <2>2. CASE p # "done"
    BY <1>1, <2>2, TabledKeeps DEF At
  <2>3. QED
    BY <2>1, <2>2
<1>8. QED
  BY <1>2, <1>3, <1>5, <1>6, <1>7

LEMMA AccountsUntouched ==
  ASSUME IInv, UNCHANGED <<avars, pending>>, Asked', Tabled'
  PROVE  IInv'
<1> USE DEF avars, visiting
<1>1. AccountsInv'
  <2>1. AccountTypes' /\ IntentHeld' /\ Alone'
    BY DEF IInv, AccountsInv, AccountTypes, IntentHeld, Alone, Locking, Contends, For, Usable
  <2>2. NoAdminYet' /\ SoleAdmin' /\ Linked' /\ OneSession'
    BY DEF IInv, AccountsInv, NoAdminYet, SoleAdmin, Linked, OneSession, For, Admins, Exists,
           Subject
  <2>3. QED
    BY <2>1, <2>2 DEF AccountsInv
<1>2. SessionTypes' /\ ConsumedHasAccount'
  BY DEF IInv, SessionTypes, ConsumedHasAccount, Exists
<1>3. QED
  BY <1>1, <1>2 DEF IInv

LEMMA RefuseKeeps ==
  ASSUME IInv, NEW r \in Requests, ~ At(r, "idle"), NEW a \in Answers, Refuse(r, a)
  PROVE  IInv'
<1>1. /\ pc' = [pc EXCEPT ![r] = "done"]
      /\ ask' = ask /\ owned' = owned
      /\ answer' \in [Requests -> Answers \cup {NoAnswer}]
      /\ UNCHANGED <<avars, tables, mail>>
  BY DEF Refuse, Reply, IInv, Asked, RequestTypes
<1>2. Asked' /\ Tabled'
  BY <1>1, MovesOn DEF IInv
<1>3. QED
  BY <1>1, <1>2, AccountsUntouched DEF tables

LEMMA CallKeeps ==
  ASSUME IInv, NEW r \in Requests, Call(r)
  PROVE  IInv'
<1> USE DEF IInv, Asked
<1>1. PICK m \in Asks : Possible(m) /\ ask' = [ask EXCEPT ![r] = m]
  BY DEF Call
<1>2. /\ pc[r] = "idle" /\ pc' = [pc EXCEPT ![r] = "lock"]
      /\ UNCHANGED <<avars, mail, tables, answer, owned>>
  BY DEF Call, At
<1>3. /\ pc'[r] = "lock" /\ ask'[r] = m
      /\ \A q \in Requests \ {r} : pc'[q] = pc[q] /\ ask'[q] = ask[q]
  BY <1>1, <1>2 DEF RequestTypes
<1>4. RequestTypes'
  BY <1>1, <1>2, <1>3, RegistrationAssumption DEF RequestTypes, PCs
<1>5. Phases'
  BY <1>1, <1>2, <1>3 DEF Phases, At, Is, Possible, tables, mail
<1>6. /\ ~ HasRow(r)' /\ ~ HasBucket(r)'
      /\ \A q \in Requests \ {r} : HasRow(q)' = HasRow(q) /\ HasBucket(q)' = HasBucket(q)
  BY <1>3 DEF HasRow, HasBucket, UnderWay
<1>7. RowHeld' /\ RowAlone'
  BY <1>2, <1>3, <1>6
  DEF RowHeld, RowAlone, SameRow, Email, Named, Row, Right, Proves, tables
<1>8. BucketHeld' /\ BucketAlone'
  BY <1>2, <1>3, <1>6 DEF BucketHeld, BucketAlone, Email, tables
<1>9. Tabled'
  BY <1>2, <1>3, TabledKeeps DEF At
<1>10. QED
  BY <1>2, <1>4, <1>5, <1>7, <1>8, <1>9, AccountsUntouched DEF tables

(* Free for one who wants a row, or a bucket: nobody has it.                *)
LEMMA FreeRow ==
  ASSUME NEW r \in Requests, Free(r), WantsRow(r)
  PROVE  \A q \in Requests \ {r} : HasRow(q) => ~ SameRow(q, r)
BY DEF Free, Waits

LEMMA FreeBucket ==
  ASSUME NEW r \in Requests, Free(r), WantsBucket(r)
  PROVE  \A q \in Requests \ {r} : HasBucket(q) => Email(q) # Email(r)
BY DEF Free, Waits

LEMMA CountKeeps ==
  ASSUME IInv, NEW r \in Requests, Count(r)
  PROVE  IInv'
<1>1. At(r, "lock") /\ ask[r].kind = "begin" /\ ~ At(r, "idle")
  BY DEF Count, At
<1>2. CASE Refuse(r, "LIMITED")
  BY <1>1, <1>2, RefuseKeeps DEF Answers
<1>3. CASE /\ count[Email(r)] < MaxPerHour
           /\ Goto(r, "look")
           /\ UNCHANGED <<avars, mail, tables>>
  <2>1. \A q \in Requests \ {r} : HasBucket(q) => Email(q) # Email(r)
    BY <1>1, FreeBucket DEF Count, WantsBucket, UnderWay, At
  <2>2. /\ pc' = [pc EXCEPT ![r] = "look"] /\ ask' = ask /\ owned' = owned
        /\ answer' \in [Requests -> Answers \cup {NoAnswer}]
    BY <1>3 DEF Goto, IInv, Asked, RequestTypes
  <2>3. Asked' /\ Tabled'
    BY <1>1, <1>3, <2>1, <2>2, MovesOn DEF IInv
  <2>4. QED
    BY <1>3, <2>3, AccountsUntouched DEF tables
<1>4. QED
  BY <1>2, <1>3 DEF Count

LEMMA LookForOwnerKeeps ==
  ASSUME IInv, NEW r \in Requests, LookForOwner(r)
  PROVE  IInv'
<1>1. At(r, "look") /\ ask[r].kind = "begin" /\ ~ At(r, "idle")
  BY DEF LookForOwner, At
<1>2. CASE Refuse(r, "IN_USE")
  BY <1>1, <1>2, RefuseKeeps DEF Answers
<1>3. CASE ~ Refuse(r, "IN_USE")
  <2>1. HasBucket(r)
    BY <1>1 DEF HasBucket, UnderWay, At
  <2>2. /\ count[Email(r)] < MaxPerHour
        /\ \A q \in Requests \ {r} : HasBucket(q) => Email(q) # Email(r)
    BY <2>1 DEF IInv, Asked, BucketHeld, BucketAlone
  <2>3. /\ pc' = [pc EXCEPT ![r] = "write"] /\ ask' = ask
        /\ owned' \in {owned, owned \cup {r}}
        /\ answer' = answer
        /\ UNCHANGED <<avars, mail, tables>>
    BY <1>3 DEF LookForOwner, Goto
  <2>4. answer' \in [Requests -> Answers \cup {NoAnswer}]
    BY <2>3 DEF IInv, Asked, RequestTypes
  <2>5. Asked' /\ Tabled'
    BY <1>1, <2>2, <2>3, <2>4, MovesOn DEF IInv
  <2>6. QED
    BY <2>3, <2>5, AccountsUntouched DEF tables
<1>4. QED
  BY <1>2, <1>3

LEMMA LockForResendKeeps ==
  ASSUME IInv, NEW r \in Requests, LockForResend(r)
  PROVE  IInv'
<1>1. At(r, "lock") /\ ask[r].kind = "resend" /\ ~ At(r, "idle")
  BY DEF LockForResend, At
<1>2. CASE Refuse(r, "INVALID")
  BY <1>1, <1>2, RefuseKeeps DEF Answers
<1>3. CASE /\ Named(r) /\ ~ Row(r).consumed
           /\ Goto(r, "write")
           /\ UNCHANGED <<avars, mail, tables>>
  <2>1. \A q \in Requests \ {r} : HasRow(q) => ~ SameRow(q, r)
    BY <1>1, FreeRow DEF LockForResend, WantsRow, UnderWay, At
  <2>2. /\ pc' = [pc EXCEPT ![r] = "write"] /\ ask' = ask /\ owned' = owned
        /\ answer' \in [Requests -> Answers \cup {NoAnswer}]
    BY <1>3 DEF Goto, IInv, Asked, RequestTypes
  <2>3. Asked' /\ Tabled'
    BY <1>1, <1>3, <2>1, <2>2, MovesOn DEF IInv
  <2>4. QED
    BY <1>3, <2>3, AccountsUntouched DEF tables
<1>4. QED
  BY <1>2, <1>3 DEF LockForResend

-----------------------------------------------------------------------------
(* Writes                                                                  *)

LEMMA RowSet ==
  ASSUME RequestTypes, TableTypes, NEW r \in Requests, ~ At(r, "idle"),
         NEW row \in RowsOfTable, SetRow(r, row)
  PROVE  /\ pending' \in [Tables -> [Emails -> RowsOfTable \cup {NoRow}]]
         /\ pending'[ask[r].table][Email(r)] = row
         /\ \A t \in Tables, e \in Emails :
              t # ask[r].table \/ e # Email(r) => pending'[t][e] = pending[t][e]
<1>1. ask[r].table \in Tables /\ Email(r) \in Emails
  BY AskType
<1>2. QED
  BY <1>1 DEF SetRow, TableTypes

(* A transaction that writes its row and commits, while no other one has    *)
(* the row or, if it counts as well, the count.                             *)
LEMMA WriterEnds ==
  ASSUME Asked, TableTypes, NEW r \in Requests, ~ At(r, "idle"),
         NEW row \in RowsOfTable, SetRow(r, row),
         \A q \in Requests \ {r} : HasRow(q) => ~ SameRow(q, r),
         NEW p \in {"mail", "session", "done"},
         pc' = [pc EXCEPT ![r] = p],
         p = "session" => ask[r].kind = "verify" /\ r \notin issued',
         ask' = ask, answer' \in [Requests -> Answers \cup {NoAnswer}],
         owned' = owned, mailbox' = mailbox,
         issued \subseteq issued', issued' \subseteq issued \cup {r},
         \/ count' = count
         \/ /\ \A e \in Emails \ {Email(r)} : count'[e] = count[e]
            /\ \A q \in Requests \ {r} : HasBucket(q) => Email(q) # Email(r)
  PROVE  Asked'
<1> USE DEF Asked
<1>1. pc'[r] = p /\ \A q \in Requests \ {r} : pc'[q] = pc[q]
  BY DEF RequestTypes
<1>2. RequestTypes'
  BY <1>1 DEF RequestTypes, PCs, At
<1>3. Phases'
  BY <1>1 DEF Phases, At, Is
<1>4. /\ ~ HasRow(r)' /\ ~ HasBucket(r)'
      /\ \A q \in Requests \ {r} : HasRow(q)' = HasRow(q) /\ HasBucket(q)' = HasBucket(q)
  BY <1>1 DEF HasRow, HasBucket, UnderWay
<1>5. RowHeld'
  <2> SUFFICES ASSUME NEW q \in Requests \ {r}, HasRow(q)
               PROVE  /\ Named(q)' /\ ~ Row(q)'.consumed
                      /\ ask[q].kind = "verify" => Right(q)'
    BY <1>4 DEF RowHeld
  <2>1. ~ SameRow(q, r) /\ ~ At(q, "idle")
    BY DEF HasRow, UnderWay, At
  <2>2. Row(q)' = Row(q)
    BY <2>1, RowSet, AskType DEF SameRow, Row, Email
  <2>3. QED
    BY <2>2 DEF RowHeld, Named, Right, Proves
<1>6. RowAlone'
  BY <1>4 DEF RowAlone, SameRow, Email
<1>7. BucketHeld'
  <2> SUFFICES ASSUME NEW q \in Requests \ {r}, HasBucket(q)
               PROVE  count'[Email(q)] < MaxPerHour
    BY <1>4 DEF BucketHeld, Email
  <2>1. Email(q) \in Emails
    BY AskType DEF HasBucket, UnderWay, At
  <2>2. QED
    BY <2>1 DEF BucketHeld
<1>8. BucketAlone'
  BY <1>4 DEF BucketAlone, Email
<1>9. QED
  BY <1>2, <1>3, <1>5, <1>6, <1>7, <1>8

LEMMA AttemptKeeps ==
  ASSUME IInv, NEW r \in Requests, At(r, "lock"), ask[r].kind = "verify", Free(r),
         Named(r), ~ Row(r).consumed, Row(r).attempts < MaxAttempts, Attempt(r)
  PROVE  IInv'
<1> USE DEF IInv, Asked, Tabled
<1> DEFINE t0 == ask[r].table
           e0 == Email(r)
           old == Row(r)
           new == [Row(r) EXCEPT !.attempts = @ + 1]
           c == Row(r).code
<1>1. ~ At(r, "idle") /\ t0 \in Tables /\ e0 \in Emails /\ old \in RowsOfTable
  BY AskType, RowType DEF At, Named
<1>2. /\ new \in RowsOfTable
      /\ new.id = old.id /\ new.code = c /\ new.eligible = old.eligible
      /\ new.consumed = old.consumed /\ new.attempts = old.attempts + 1
      /\ c \in Ids
  BY <1>1, RegistrationAssumption DEF RowsOfTable
<1>3. /\ SetRow(r, new)
      /\ tries' = [tries EXCEPT ![c] = @ + 1]
      /\ UNCHANGED <<avars, mail, count, issued>>
      /\ pc' = [pc EXCEPT ![r] = "done"] /\ ask' = ask /\ owned' = owned
      /\ answer' \in [Requests -> Answers \cup {NoAnswer}]
  BY DEF Attempt, Reply, RequestTypes, Answers
<1> HIDE DEF new
<1>4. /\ pending' \in [Tables -> [Emails -> RowsOfTable \cup {NoRow}]]
      /\ pending'[t0][e0] = new
      /\ \A t \in Tables, e \in Emails :
           t # t0 \/ e # e0 => pending'[t][e] = pending[t][e]
  BY <1>1, <1>2, <1>3, RowSet
<1>5. /\ tries' \in [Ids -> Nat] /\ tries'[c] = tries[c] + 1
      /\ \A d \in Ids \ {c} : tries'[d] = tries[d]
  BY <1>2, <1>3 DEF TableTypes
<1>6. old # NoRow /\ old = pending[t0][e0] /\ c \in issued
  BY <1>1 DEF Named, Row, RowsTrue
<1>7. Asked'
  <2>1. \A q \in Requests \ {r} : HasRow(q) => ~ SameRow(q, r)
    BY FreeRow DEF WantsRow, UnderWay, At
  <2>2. QED
    BY <1>1, <1>2, <1>3, <2>1, WriterEnds DEF mail
<1>8. TableTypes' /\ MailTypeOK'
  BY <1>3, <1>4, <1>5 DEF TableTypes, MailTypeOK, mail
<1>9. RowsTrue'
  <2> SUFFICES ASSUME NEW t \in Tables, NEW e \in Emails, pending'[t][e] # NoRow
               PROVE  LET row == pending'[t][e] IN
                      /\ row.id \in issued /\ row.code \in issued
                      /\ tries'[row.code] <= row.attempts
                      /\ row.eligible => row.id \notin owned
    BY <1>3 DEF RowsTrue
  <2>1. CASE t = t0 /\ e = e0
    <3>1. tries[c] \in Nat /\ old.attempts \in Nat /\ tries[c] <= old.attempts
      BY <1>1, <1>2, <1>6 DEF RowsTrue, TableTypes, RowsOfTable
    <3>2. QED
      BY <1>1, <1>2, <1>4, <1>5, <1>6, <2>1, <3>1 DEF RowsTrue
  <2>2. CASE t # t0 \/ e # e0
    <3>1. pending'[t][e] = pending[t][e] /\ pending[t][e].code # c
      BY <1>1, <1>4, <1>6, <2>2 DEF CodesApart
    <3>2. pending[t][e].code \in Ids
      BY <3>1 DEF RowsTrue, TableTypes
    <3>3. QED
      BY <1>5, <3>1, <3>2 DEF RowsTrue
  <2>3. QED
    BY <2>1, <2>2
<1>10. CodesApart'
  <2>1. \A t \in Tables, e \in Emails :
          /\ (pending'[t][e] # NoRow) <=> (pending[t][e] # NoRow)
          /\ pending'[t][e].code = pending[t][e].code
    BY <1>2, <1>4, <1>6, RegistrationAssumption
  <2>2. QED
    BY <2>1 DEF CodesApart
<1>11. Untried'
  BY <1>3, <1>5, <1>6 DEF Untried
<1>12. GuessesBounded'
  <2>1. tries[c] \in Nat /\ old.attempts \in Nat /\ tries[c] <= old.attempts
    BY <1>1, <1>2, <1>6 DEF RowsTrue, TableTypes, RowsOfTable
  <2>2. tries'[c] <= MaxAttempts
    BY <1>5, <2>1, RegistrationAssumption
  <2>3. QED
    BY <1>5, <2>2 DEF GuessesBounded
<1>13. Counted' /\ MailTrue'
  <2>1. \A e \in Emails : IssuedFor(e)' = IssuedFor(e)
    BY <1>3 DEF IssuedFor, Email
  <2>2. Posted' = Posted /\ \A q \in Requests : At(q, "mail")' => At(q, "mail")
    BY <1>3 DEF Posted, mail, At, RequestTypes
  <2>3. QED
    BY <1>3, <2>1, <2>2 DEF Counted, MailTrue
<1>14. ConsumedHasAccount'
  BY <1>2, <1>3, <1>4, <1>6, RegistrationAssumption
  DEF ConsumedHasAccount, Exists, avars
<1>15. AccountsInv' /\ SessionTypes'
  <2>1. Admins' = Admins
    BY <1>3 DEF Admins, Exists, avars
  <2>2. QED
    BY <1>3, <2>1, ElsewhereKeeps DEF avars, AccountsInv, AccountTypes, SessionTypes
<1>16. QED
  BY <1>7, <1>8, <1>9, <1>10, <1>11, <1>12, <1>13, <1>14, <1>15

LEMMA IssueKeeps ==
  ASSUME IInv, NEW r \in Requests, At(r, "write"),
         ask[r].kind \in {"begin", "resend"},
         NEW row \in RowsOfTable, Issue(r, row),
         row.code = r, row.attempts = 0, ~ row.consumed,
         row.id \in issued \cup {r},
         row.eligible => row.id \notin owned,
         row.eligible /\ ask[r].kind = "begin" => r \notin owned,
         row.eligible /\ ask[r].kind = "resend" => ask[r].id \notin owned,
         count[Email(r)] < MaxPerHour,
         \A q \in Requests \ {r} : HasRow(q) => ~ SameRow(q, r),
         \A q \in Requests \ {r} : HasBucket(q) => Email(q) # Email(r)
  PROVE  IInv'
<1> USE DEF IInv, Asked, Tabled
<1> DEFINE t0 == ask[r].table
           e0 == Email(r)
<1>1. ~ At(r, "idle") /\ t0 \in Tables /\ e0 \in Emails /\ r \in Ids
  BY AskType DEF At, Ids
<1>2. r \notin issued
  BY DEF Phases, At
<1>3. /\ SetRow(r, row)
      /\ count' = [count EXCEPT ![e0] = @ + 1]
      /\ issued' = issued \cup {r}
      /\ UNCHANGED <<avars, mail, tries>>
      /\ ask' = ask /\ owned' = owned
  BY DEF Issue, Reply, Goto
<1>4. PICK p \in {"mail", "done"} :
        pc' = [pc EXCEPT ![r] = p] /\ (p = "mail" => row.eligible)
  BY DEF Issue, Reply, Goto
<1>5. answer' \in [Requests -> Answers \cup {NoAnswer}]
  BY DEF Issue, Reply, Goto, RequestTypes, Answers
<1>6. /\ pending' \in [Tables -> [Emails -> RowsOfTable \cup {NoRow}]]
      /\ pending'[t0][e0] = row
      /\ \A t \in Tables, e \in Emails :
           t # t0 \/ e # e0 => pending'[t][e] = pending[t][e]
  BY <1>1, <1>3, RowSet
<1>7. /\ count' \in [Emails -> 0..MaxPerHour]
      /\ count'[e0] = count[e0] + 1
      /\ \A e \in Emails \ {e0} : count'[e] = count[e]
  BY <1>1, <1>3, RegistrationAssumption DEF TableTypes
<1>8. Asked'
  BY <1>1, <1>3, <1>4, <1>5, <1>7, WriterEnds DEF mail
<1>9. TableTypes' /\ MailTypeOK'
  BY <1>1, <1>3, <1>6, <1>7 DEF TableTypes, MailTypeOK, mail
<1>10. RowsTrue'
  <2> SUFFICES ASSUME NEW t \in Tables, NEW e \in Emails, pending'[t][e] # NoRow
               PROVE  LET it == pending'[t][e] IN
                      /\ it.id \in issued' /\ it.code \in issued'
                      /\ tries'[it.code] <= it.attempts
                      /\ it.eligible => it.id \notin owned'
    BY DEF RowsTrue
  <2>1. CASE t = t0 /\ e = e0
    BY <1>1, <1>2, <1>3, <1>6, <2>1 DEF Untried
  <2>2. CASE t # t0 \/ e # e0
    BY <1>3, <1>6, <2>2 DEF RowsTrue
  <2>3. QED
    BY <2>1, <2>2
<1>11. CodesApart'
  <2>1. \A t \in Tables, e \in Emails : pending[t][e] # NoRow => pending[t][e].code # r
    BY <1>2 DEF RowsTrue
  <2>2. QED
    BY <1>6, <2>1 DEF CodesApart
<1>12. Untried' /\ GuessesBounded'
  BY <1>3 DEF Untried, GuessesBounded
<1>13. Counted'
  <2>1. IsFiniteSet(issued')
    BY <1>3, FS_AddElement DEF Counted
  <2>2. \A e \in Emails : IsFiniteSet(IssuedFor(e))
    BY FS_Subset DEF Counted, IssuedFor
  <2>3. \A e \in Emails : Cardinality(IssuedFor(e)) \in Nat
    BY <2>2, FS_CardinalityType
  <2>4. \A e \in Emails : e = e0 => IssuedFor(e)' = IssuedFor(e) \cup {r}
    BY <1>3 DEF IssuedFor, Email
  <2>5. r \notin IssuedFor(e0)
    BY <1>2 DEF IssuedFor
  <2>6. Cardinality(IssuedFor(e0) \cup {r}) = Cardinality(IssuedFor(e0)) + 1
    BY <1>1, <2>2, <2>5, FS_AddElement
  <2>7. \A e \in Emails \ {e0} : IssuedFor(e)' = IssuedFor(e)
    BY <1>3 DEF IssuedFor, Email
  <2>8. Cardinality(IssuedFor(e0) \cup {r}) <= count'[e0]
    <3>1. Cardinality(IssuedFor(e0)) <= count[e0] /\ count[e0] \in Nat
      BY <1>1 DEF Counted, TableTypes
    <3>2. QED
      BY <1>1, <1>7, <2>3, <2>6, <3>1
  <2>9. QED
    <3>1. ASSUME NEW e \in Emails PROVE Cardinality(IssuedFor(e)') <= count'[e]
      <4>1. CASE e = e0
        BY <2>4, <2>8, <4>1
      <4>2. CASE e # e0
        BY <1>7, <2>7, <4>2 DEF Counted
      <4>3. QED
        BY <4>1, <4>2
    <3>2. QED
      BY <2>1, <3>1 DEF Counted
<1>14. MailTrue'
  <2>1. Posted' = Posted
    BY <1>3 DEF Posted, mail
  <2>2. r \notin Posted
    BY <1>2 DEF MailTrue
  <2>3. /\ \A q \in Requests \ {r} : At(q, "mail")' = At(q, "mail")
        /\ At(r, "mail")' => row.eligible
    BY <1>4 DEF At, RequestTypes
  <2>4. QED
    BY <1>3, <2>1, <2>2, <2>3 DEF MailTrue
<1>15. ConsumedHasAccount'
  BY <1>3, <1>6 DEF ConsumedHasAccount, Exists, avars
<1>16. AccountsInv' /\ SessionTypes'
  <2>1. Admins' = Admins
    BY <1>3 DEF Admins, Exists, avars
  <2>2. QED
    BY <1>3, <2>1, ElsewhereKeeps DEF avars, AccountsInv, AccountTypes, SessionTypes
<1>17. QED
  BY <1>8, <1>9, <1>10, <1>11, <1>12, <1>13, <1>14, <1>15, <1>16

LEMMA BeginRegistrationKeeps ==
  ASSUME IInv, NEW r \in Requests, BeginRegistration(r)
  PROVE  IInv'
<1> USE DEF IInv, Asked
<1> DEFINE row == [id |-> r, code |-> r, eligible |-> r \notin owned, attempts |-> 0,
                   consumed |-> FALSE]
<1>1. At(r, "write") /\ ask[r].kind = "begin" /\ Free(r) /\ Issue(r, row)
  BY DEF BeginRegistration
<1>2. row \in RowsOfTable
  <2>1. (r \notin owned) \in BOOLEAN
    OBVIOUS
  <2>2. QED
    BY <2>1, RegistrationAssumption DEF RowsOfTable, Ids
<1>3. HasBucket(r) /\ WantsRow(r)
  BY <1>1 DEF HasBucket, WantsRow, UnderWay, At
<1>4. /\ count[Email(r)] < MaxPerHour
      /\ \A q \in Requests \ {r} : HasBucket(q) => Email(q) # Email(r)
      /\ \A q \in Requests \ {r} : HasRow(q) => ~ SameRow(q, r)
  BY <1>1, <1>3, FreeRow DEF BucketHeld, BucketAlone
<1>5. /\ row.code = r /\ row.id = r /\ row.attempts = 0 /\ ~ row.consumed
      /\ row.eligible => r \notin owned
  OBVIOUS
<1> HIDE DEF row
<1>6. QED
  BY <1>1, <1>2, <1>4, <1>5, IssueKeeps

LEMMA ResendRegistrationKeeps ==
  ASSUME IInv, NEW r \in Requests, ResendRegistration(r)
  PROVE  IInv'
<1> USE DEF IInv, Asked, Tabled
<1> DEFINE row == [Row(r) EXCEPT !.code = r, !.attempts = 0]
<1>1. At(r, "write") /\ ask[r].kind = "resend" /\ Free(r) /\ ~ At(r, "idle")
  BY DEF ResendRegistration, At
<1>2. CASE Refuse(r, "LIMITED")
  BY <1>1, <1>2, RefuseKeeps DEF Answers
<1>3. CASE count[Email(r)] < MaxPerHour /\ Issue(r, row)
  <2>1. HasRow(r) /\ WantsBucket(r)
    BY <1>1 DEF HasRow, WantsBucket, UnderWay, At
  <2>2. Named(r) /\ ~ Row(r).consumed /\ Row(r) \in RowsOfTable
    BY <1>1, <2>1, RowType DEF RowHeld, Named
  <2>3. /\ row \in RowsOfTable
        /\ row.code = r /\ row.id = Row(r).id /\ row.attempts = 0 /\ ~ row.consumed
        /\ row.eligible = Row(r).eligible
    <3>1. r \in Ids /\ 0 \in 0..MaxAttempts
      BY RegistrationAssumption DEF Ids
    <3>2. QED
      BY <2>2, <3>1 DEF RowsOfTable
  <2> HIDE DEF row
  <2>4. /\ Row(r).id \in issued /\ Row(r).id = ask[r].id
        /\ Row(r).eligible => Row(r).id \notin owned
    BY <1>1, <2>2, AskType DEF RowsTrue, Row, Named
  <2>5. /\ \A q \in Requests \ {r} : HasBucket(q) => Email(q) # Email(r)
        /\ \A q \in Requests \ {r} : HasRow(q) => ~ SameRow(q, r)
    BY <1>1, <2>1, FreeBucket DEF RowAlone
  <2>6. QED
    BY <1>1, <1>3, <2>3, <2>4, <2>5, IssueKeeps
<1>4. QED
  BY <1>2, <1>3 DEF ResendRegistration

(* A registration is used up, and its account opened or, for a cashier from *)
(* before the codes, verified.                                              *)
LEMMA ConsumerKeeps ==
  ASSUME IInv, NEW r \in Requests, At(r, "write") \/ At(r, "look"),
         NEW table \in Tables, Is(r, "verify", table),
         NEW new \in AccountRows,
         new.role = table, new.by = ask[r].id, table = "CASHIER" => new.verified,
         account' = [account EXCEPT ![Email(r)] = new],
         \/ account[Email(r)] = Nobody
         \/ /\ account[Email(r)].role = "CASHIER" /\ ~ account[Email(r)].verified
            /\ table = "CASHIER",
         sessions' \subseteq sessions,
         Consume(r),
         UNCHANGED <<google, intent, visiting, mail, count, issued, tries>>,
         NEW p \in {"session", "done"},
         pc' = [pc EXCEPT ![r] = p], ask' = ask, owned' = owned,
         answer' \in [Requests -> Answers \cup {NoAnswer}]
  PROVE  IInv' /\ OpensByCode /\ KeepsAccounts
<1> USE DEF IInv, Asked, Tabled
<1> DEFINE e0 == Email(r)
           old == Row(r)
           row == [Row(r) EXCEPT !.consumed = TRUE]
<1>1. /\ ~ At(r, "idle") /\ e0 \in Emails
      /\ ask[r].kind = "verify" /\ ask[r].table = table
      /\ ask[r].id \in Ids
  BY AskType DEF At, Is
<1>2. /\ HasRow(r)
      /\ Named(r) /\ ~ old.consumed /\ Proves(r) /\ old \in RowsOfTable
      /\ old # NoRow /\ old = pending[table][e0]
  BY <1>1, RowType DEF HasRow, UnderWay, At, RowHeld, Right, Named, Row
<1>3. /\ row \in RowsOfTable /\ row.consumed
      /\ row.id = old.id /\ row.code = old.code /\ row.eligible = old.eligible
      /\ row.attempts = old.attempts
  BY <1>2 DEF RowsOfTable
<1>4. SetRow(r, row)
  BY <1>2 DEF Consume
<1> HIDE DEF row
<1>5. /\ pending' \in [Tables -> [Emails -> RowsOfTable \cup {NoRow}]]
      /\ pending'[table][e0] = row
      /\ \A t \in Tables, e \in Emails :
           t # table \/ e # e0 => pending'[t][e] = pending[t][e]
  BY <1>1, <1>3, <1>4, RowSet
<1>6. /\ account' \in [Emails -> AccountRows \cup {Nobody}]
      /\ account'[e0] = new /\ new # Nobody
      /\ \A e \in Emails \ {e0} : account'[e] = account[e]
  BY <1>1, AccountsAssumption DEF AccountsInv, AccountTypes
<1>7. r \notin issued
  BY DEF Phases, At
<1>8. Asked'
  <2>1. \A q \in Requests \ {r} : HasRow(q) => ~ SameRow(q, r)
    BY <1>2 DEF RowAlone
  <2>2. QED
    BY <1>1, <1>3, <1>4, <1>7, <2>1, WriterEnds DEF mail
<1>9. TableTypes' /\ MailTypeOK' /\ Untried' /\ GuessesBounded'
  BY <1>5 DEF TableTypes, MailTypeOK, Untried, GuessesBounded, mail
<1>10. RowsTrue' /\ CodesApart'
  <2>1. \A t \in Tables, e \in Emails :
          /\ (pending'[t][e] # NoRow) <=> (pending[t][e] # NoRow)
          /\ pending[t][e] # NoRow =>
               /\ pending'[t][e].code = pending[t][e].code
               /\ pending'[t][e].id = pending[t][e].id
               /\ pending'[t][e].eligible = pending[t][e].eligible
               /\ pending'[t][e].attempts = pending[t][e].attempts
    BY <1>2, <1>3, <1>5, RegistrationAssumption
  <2>2. QED
    BY <2>1 DEF RowsTrue, CodesApart
<1>11. Counted' /\ MailTrue'
  <2>1. \A e \in Emails : IssuedFor(e)' = IssuedFor(e)
    BY DEF IssuedFor, Email
  <2>2. Posted' = Posted /\ \A q \in Requests : At(q, "mail")' => At(q, "mail")
    BY DEF Posted, mail, At, RequestTypes
  <2>3. QED
    BY <2>1, <2>2 DEF Counted, MailTrue
<1>12. ConsumedHasAccount'
  <2> SUFFICES ASSUME NEW t \in Tables, NEW e \in Emails,
                      pending'[t][e] # NoRow, pending'[t][e].consumed
               PROVE  /\ account'[e] # Nobody
                      /\ account'[e].role = t /\ account'[e].by = pending'[t][e].id
                      /\ t = "CASHIER" => account'[e].verified
    BY DEF ConsumedHasAccount, Exists
  <2>1. CASE t = table /\ e = e0
    BY <1>2, <1>3, <1>5, <1>6, <2>1 DEF Named
  <2>2. CASE t # table /\ e = e0
    BY <1>1, <1>5, <2>2 DEF ConsumedHasAccount, Exists
  <2>3. CASE e # e0
    BY <1>5, <1>6, <2>3 DEF ConsumedHasAccount, Exists
  <2>4. QED
    BY <2>1, <2>2, <2>3
<1>13. AccountsInv' /\ SessionTypes'
  <2>1. Admins' \subseteq Admins
    BY <1>6 DEF Admins, Exists, Tables
  <2>2. QED
    BY <1>6, <2>1, ElsewhereKeeps DEF SessionTypes
<1>14. KeepsAccounts
  BY <1>6 DEF KeepsAccounts
<1>15. OpensByCode
  <2>1. ask[r].code \in mailbox
    BY <1>1, <1>2, RegistrationAssumption DEF Phases, Proves, RowsOfTable
  <2>2. QED
    BY <1>1, <1>2, <1>6, <2>1 DEF OpensByCode, Named, Proves
<1>16. QED
  BY <1>8, <1>9, <1>10, <1>11, <1>12, <1>13, <1>14, <1>15

(* What a step may do, and what it does to accounts.                        *)
Sound == IInv' /\ OpensByCode /\ KeepsAccounts

LEMMA SoundIfUnchanged ==
  ASSUME IInv', UNCHANGED account
  PROVE  Sound
BY DEF Sound, OpensByCode, KeepsAccounts

LEMMA LockForVerifyKeeps ==
  ASSUME IInv, NEW r \in Requests, LockForVerify(r)
  PROVE  IInv'
<1>1. At(r, "lock") /\ ask[r].kind = "verify" /\ Free(r) /\ ~ At(r, "idle")
  BY DEF LockForVerify, At
<1>2. CASE Refuse(r, "INVALID")
  BY <1>1, <1>2, RefuseKeeps DEF Answers
<1>3. CASE /\ Named(r) /\ ~ Row(r).consumed /\ Row(r).attempts < MaxAttempts
           /\ Attempt(r)
  BY <1>1, <1>3, AttemptKeeps
<1>4. CASE /\ Named(r) /\ ~ Row(r).consumed /\ Right(r)
           /\ Goto(r, IF ask[r].table = "CASHIER" THEN "look" ELSE "write")
           /\ UNCHANGED <<avars, mail, tables>>
  <2>1. \A q \in Requests \ {r} : HasRow(q) => ~ SameRow(q, r)
    BY <1>1, FreeRow DEF WantsRow, UnderWay, At
  <2>2. PICK p \in {"look", "write"} :
          /\ pc' = [pc EXCEPT ![r] = p]
          /\ p = "look" => ask[r].table = "CASHIER"
    BY <1>4 DEF Goto
  <2>3. /\ ask' = ask /\ owned' = owned
        /\ answer' \in [Requests -> Answers \cup {NoAnswer}]
    BY <1>4 DEF Goto, IInv, Asked, RequestTypes
  <2>4. Asked' /\ Tabled'
    BY <1>1, <1>4, <2>1, <2>2, <2>3, MovesOn DEF IInv, Is
  <2>5. QED
    BY <1>4, <2>4, AccountsUntouched DEF tables
<1>5. QED
  BY <1>2, <1>3, <1>4 DEF LockForVerify, Right

LEMMA VerifyRegistrationKeeps ==
  ASSUME IInv, NEW r \in Requests, VerifyRegistration(r)
  PROVE  Sound
<1> DEFINE new == NewAccount("CUSTOMER", ask[r].id, FALSE)
<1>1. At(r, "write") /\ Is(r, "verify", "CUSTOMER") /\ ~ At(r, "idle")
  BY DEF VerifyRegistration, At
<1>2. CASE Refuse(r, "INVALID")
  BY <1>1, <1>2, RefuseKeeps, SoundIfUnchanged DEF Answers, Refuse, avars
<1>3. CASE ~ Refuse(r, "INVALID")
  <2>1. /\ ~ Exists(Email(r))
        /\ account' = [account EXCEPT ![Email(r)] = new]
        /\ Consume(r)
        /\ Goto(r, "session") \/ Reply(r, "ERROR")
        /\ UNCHANGED <<google, intent, sessions, visiting, mail, count, issued, tries>>
    BY <1>3 DEF VerifyRegistration
  <2>2. ask[r].id \in Makers
    BY <1>1, AskType, RegistrationAssumption DEF IInv, Asked
  <2>3. new \in AccountRows /\ new.role = "CUSTOMER" /\ new.by = ask[r].id
    BY <2>2, NewAccountType DEF Roles
  <2> HIDE DEF new
  <2>4. PICK p \in {"session", "done"} : pc' = [pc EXCEPT ![r] = p]
    BY <2>1 DEF Goto, Reply
  <2>5. /\ ask' = ask /\ owned' = owned
        /\ answer' \in [Requests -> Answers \cup {NoAnswer}]
    BY <2>1 DEF Goto, Reply, Answers, IInv, Asked, RequestTypes
  <2>6. QED
    BY <1>1, <2>1, <2>3, <2>4, <2>5, ConsumerKeeps DEF Tables, Exists, Sound
<1>4. QED
  BY <1>2, <1>3

LEMMA AppointKeeps ==
  ASSUME IInv, NEW r \in Requests, At(r, "write") \/ At(r, "look"),
         Is(r, "verify", "CASHIER"),
         NEW new \in AccountRows,
         new.role = "CASHIER", new.by = ask[r].id, new.verified,
         \/ account[Email(r)] = Nobody
         \/ account[Email(r)].role = "CASHIER" /\ ~ account[Email(r)].verified,
         Appoint(r, new)
  PROVE  Sound
<1>1. /\ account' = [account EXCEPT ![Email(r)] = new]
      /\ sessions' \subseteq sessions
      /\ Consume(r)
      /\ UNCHANGED <<google, intent, visiting, mail, count, issued, tries>>
  BY DEF Appoint
<1>2. /\ pc' = [pc EXCEPT ![r] = "done"] /\ ask' = ask /\ owned' = owned
      /\ answer' \in [Requests -> Answers \cup {NoAnswer}]
  BY DEF Appoint, Reply, Answers, IInv, Asked, RequestTypes
<1>3. QED
  BY <1>1, <1>2, ConsumerKeeps DEF Tables, Sound

LEMMA LookForCashierKeeps ==
  ASSUME IInv, NEW r \in Requests, LookForCashier(r)
  PROVE  Sound
<1> DEFINE e == Email(r)
           new == [account[e] EXCEPT !.by = ask[r].id, !.verified = TRUE, !.mustChange = TRUE]
<1>1. At(r, "look") /\ Is(r, "verify", "CASHIER") /\ ~ At(r, "idle")
  BY DEF LookForCashier, At
<1>2. e \in Emails /\ ask[r].id \in Makers
  BY <1>1, AskType, RegistrationAssumption DEF IInv, Asked
<1>3. CASE Refuse(r, "IN_USE")
  BY <1>1, <1>3, RefuseKeeps, SoundIfUnchanged DEF Answers, Refuse, avars
<1>4. CASE Exists(e) /\ Vacant(e) /\ Appoint(r, new)
  <2>1. account[e] \in AccountRows /\ account[e].role = "CASHIER" /\ ~ account[e].verified
    BY <1>2, <1>4 DEF Exists, Vacant, IInv, AccountsInv, AccountTypes
  <2>2. new \in AccountRows /\ new.role = "CASHIER" /\ new.by = ask[r].id /\ new.verified
    BY <1>2, <2>1 DEF AccountRows
  <2> HIDE DEF new
  <2>3. QED
    BY <1>1, <1>4, <2>1, <2>2, AppointKeeps
<1>5. CASE ~ Exists(e) /\ Goto(r, "write") /\ UNCHANGED <<avars, mail, tables>>
  <2>1. HasRow(r) /\ ask[r].kind = "verify"
    BY <1>1 DEF HasRow, UnderWay, At, Is
  <2>2. /\ Named(r) /\ ~ Row(r).consumed /\ Right(r)
        /\ \A q \in Requests \ {r} : HasRow(q) => ~ SameRow(q, r)
    BY <2>1 DEF IInv, Asked, RowHeld, RowAlone
  <2>3. /\ pc' = [pc EXCEPT ![r] = "write"] /\ ask' = ask /\ owned' = owned
        /\ answer' \in [Requests -> Answers \cup {NoAnswer}]
    BY <1>5 DEF Goto, IInv, Asked, RequestTypes
  <2>4. Asked' /\ Tabled'
    BY <1>1, <1>5, <2>1, <2>2, <2>3, MovesOn DEF IInv
  <2>5. QED
    BY <1>5, <2>4, AccountsUntouched, SoundIfUnchanged DEF tables, avars
<1>6. QED
  BY <1>3, <1>4, <1>5 DEF LookForCashier

LEMMA VerifyCashierKeeps ==
  ASSUME IInv, NEW r \in Requests, VerifyCashierRegistration(r)
  PROVE  Sound
<1> DEFINE new == NewAccount("CASHIER", ask[r].id, TRUE)
<1>1. At(r, "write") /\ Is(r, "verify", "CASHIER") /\ ~ At(r, "idle")
  BY DEF VerifyCashierRegistration, At
<1>2. CASE Refuse(r, "IN_USE")
  BY <1>1, <1>2, RefuseKeeps, SoundIfUnchanged DEF Answers, Refuse, avars
<1>3. CASE ~ Exists(Email(r)) /\ Appoint(r, new)
  <2>1. ask[r].id \in Makers
    BY <1>1, AskType, RegistrationAssumption DEF IInv, Asked
  <2>2. new \in AccountRows /\ new.role = "CASHIER" /\ new.by = ask[r].id /\ new.verified
    BY <2>1, NewAccountType DEF Roles
  <2> HIDE DEF new
  <2>3. QED
    BY <1>1, <1>3, <2>2, AppointKeeps DEF Exists
<1>4. QED
  BY <1>2, <1>3 DEF VerifyCashierRegistration

LEMMA CreateSessionKeeps ==
  ASSUME IInv, NEW r \in Requests, CreateSession(r)
  PROVE  Sound
<1>1. At(r, "session") /\ ~ At(r, "idle")
  BY DEF CreateSession, At
<1>2. CASE Refuse(r, "ERROR")
  BY <1>1, <1>2, RefuseKeeps, SoundIfUnchanged DEF Answers, Refuse, avars
<1>3. CASE ~ Refuse(r, "ERROR")
  <2>1. /\ Open(r, Email(r))
        /\ Reply(r, "OK") \/ Reply(r, "ERROR")
        /\ UNCHANGED <<account, google, intent, visiting, mail, tables>>
    BY <1>3 DEF CreateSession
  <2>2. /\ pc' = [pc EXCEPT ![r] = "done"] /\ ask' = ask /\ owned' = owned
        /\ answer' \in [Requests -> Answers \cup {NoAnswer}]
    BY <2>1 DEF Reply, Answers, IInv, Asked, RequestTypes
  <2>3. Asked' /\ Tabled'
    BY <1>1, <2>1, <2>2, MovesOn DEF IInv
  <2>4. Email(r) \in Emails /\ r \notin Visits
    BY <1>1, AskType, RegistrationAssumption DEF IInv, Asked, Ids
  <2>5. AccountsInv'
    <3>1. Admins' = Admins
      BY <2>1 DEF Admins, Exists
    <3>2. QED
      BY <2>1, <2>4, <3>1, ElsewhereKeeps DEF IInv, AccountsInv, AccountTypes, Open
  <2>6. SessionTypes' /\ ConsumedHasAccount'
    BY <2>1, <2>4 DEF IInv, SessionTypes, ConsumedHasAccount, Exists, Open, tables
  <2>7. QED
    BY <2>1, <2>3, <2>5, <2>6, SoundIfUnchanged DEF IInv
<1>4. QED
  BY <1>2, <1>3

-----------------------------------------------------------------------------
(* Mails                                                                   *)

LEMMA Queued ==
  ASSUME MailTypeOK, NEW code \in Codes, SendCode(code)
  PROVE  MailTypeOK' /\ Posted' \subseteq Posted \cup {code} /\ mailbox' = mailbox
<1>1. CASE Len(queue) < Capacity /\ queue' = Append(queue, code)
  <2>1. /\ queue' \in Seq(Codes) /\ Len(queue') = Len(queue) + 1
        /\ \A i \in 1..Len(queue') :
             (i \in 1..Len(queue) /\ queue'[i] = queue[i]) \/ queue'[i] = code
    BY <1>1 DEF MailTypeOK
  <2>2. MailTypeOK'
    BY <1>1, <2>1, CapacityAssumption DEF MailTypeOK, SendCode
  <2>3. Posted' \subseteq Posted \cup {code}
    BY <2>1 DEF Posted, SendCode
  <2>4. QED
    BY <2>2, <2>3 DEF SendCode
<1>2. CASE queue' = queue
  BY <1>2 DEF MailTypeOK, Posted, SendCode
<1>3. QED
  BY <1>1, <1>2 DEF SendCode

LEMMA MailingPosts ==
  ASSUME MailTypeOK, Mailing
  PROVE  MailTypeOK' /\ Posted' \subseteq Posted /\ mailbox \subseteq mailbox'
<1>1. CASE Deliver
  <2>1. /\ queue # <<>> /\ queue' = Tail(queue)
        /\ mailbox' = mailbox \/ mailbox' = mailbox \cup {Head(queue)}
    BY <1>1 DEF Deliver
  <2>2. /\ queue \in Seq(Codes) /\ Len(queue) \in Nat \ {0} /\ Len(queue) <= Capacity
        /\ mailbox \subseteq Codes
    BY <2>1 DEF MailTypeOK
  <2>3. /\ queue' \in Seq(Codes) /\ Len(queue') = Len(queue) - 1
        /\ \A i \in 1..Len(queue') : i + 1 \in 1..Len(queue) /\ queue'[i] = queue[i + 1]
        /\ Head(queue) = queue[1] /\ 1 \in 1..Len(queue) /\ Head(queue) \in Codes
    BY <2>1, <2>2
  <2>4. MailTypeOK'
    BY <2>1, <2>2, <2>3, CapacityAssumption DEF MailTypeOK
  <2>5. Posted' \subseteq Posted
    BY <2>1, <2>3 DEF Posted
  <2>6. QED
    BY <2>1, <2>4, <2>5
<1>2. CASE Restart
  <2>1. queue' = <<>> /\ mailbox' = mailbox
    BY <1>2 DEF Restart
  <2>2. queue' \in Seq(Codes) /\ Len(queue') = 0
    BY <2>1
  <2>3. MailTypeOK'
    BY <2>1, <2>2, CapacityAssumption DEF MailTypeOK
  <2>4. Posted' \subseteq Posted
    BY <2>1, <2>2 DEF Posted
  <2>5. QED
    BY <2>1, <2>3, <2>4
<1>3. QED
  BY <1>1, <1>2 DEF Mailing

LEMMA MailKeeps ==
  ASSUME IInv, NEW r \in Requests, Mail(r)
  PROVE  IInv'
<1> USE DEF IInv, Asked, Tabled
<1>1. /\ At(r, "mail") /\ ~ At(r, "idle") /\ r \in Codes
      /\ SendCode(r) /\ Reply(r, "OK") /\ UNCHANGED <<avars, tables>>
  BY RegistrationAssumption DEF Mail, At, Ids
<1>2. /\ pc' = [pc EXCEPT ![r] = "done"] /\ ask' = ask /\ owned' = owned
      /\ answer' \in [Requests -> Answers \cup {NoAnswer}]
  BY <1>1 DEF Reply, Answers, RequestTypes
<1>3. /\ pc'[r] = "done" /\ \A q \in Requests \ {r} : pc'[q] = pc[q]
  BY <1>2 DEF RequestTypes
<1>4. MailTypeOK' /\ Posted' \subseteq Posted \cup {r} /\ mailbox' = mailbox
  BY <1>1, Queued
<1>5. RequestTypes' /\ Phases'
  BY <1>1, <1>2, <1>3, <1>4 DEF RequestTypes, PCs, Phases, At, Is, tables
<1>6. /\ ~ HasRow(r)' /\ ~ HasBucket(r)'
      /\ \A q \in Requests \ {r} : HasRow(q)' = HasRow(q) /\ HasBucket(q)' = HasBucket(q)
  BY <1>2, <1>3 DEF HasRow, HasBucket, UnderWay
<1>7. RowHeld' /\ RowAlone'
  BY <1>1, <1>2, <1>6 DEF RowHeld, RowAlone, SameRow, Email, Named, Row, Right, Proves, tables
<1>8. BucketHeld' /\ BucketAlone'
  BY <1>1, <1>2, <1>6 DEF BucketHeld, BucketAlone, Email, tables
<1>9. /\ TableTypes' /\ RowsTrue' /\ CodesApart' /\ Untried' /\ GuessesBounded'
  BY <1>1, <1>2 DEF TableTypes, RowsTrue, CodesApart, Untried, GuessesBounded, tables
<1>10. Counted'
  <2>1. \A e \in Emails : IssuedFor(e)' = IssuedFor(e)
    BY <1>1, <1>2 DEF IssuedFor, Email, tables
  <2>2. QED
    BY <1>1, <2>1 DEF Counted, tables
<1>11. MailTrue'
  BY <1>1, <1>2, <1>3, <1>4 DEF MailTrue, At, tables
<1>12. QED
  BY <1>1, <1>4, <1>5, <1>7, <1>8, <1>9, <1>10, <1>11, AccountsUntouched DEF tables

LEMMA MailingKeeps ==
  ASSUME IInv, Mailing, UNCHANGED <<avars, tables, asking>>
  PROVE  IInv'
<1> USE DEF IInv, Asked, Tabled, tables, asking
<1>1. MailTypeOK' /\ Posted' \subseteq Posted /\ mailbox \subseteq mailbox'
  BY MailingPosts
<1>2. Asked'
  <2>1. Phases' /\ RequestTypes'
    BY <1>1 DEF Phases, At, Is, RequestTypes
  <2>2. RowHeld' /\ RowAlone' /\ BucketHeld' /\ BucketAlone'
    BY DEF RowHeld, RowAlone, BucketHeld, BucketAlone, HasRow, HasBucket, UnderWay, SameRow,
           Email, Named, Row, Right, Proves
  <2>3. QED
    BY <2>1, <2>2
<1>3. Tabled'
  <2>1. TableTypes' /\ RowsTrue' /\ CodesApart' /\ Untried' /\ GuessesBounded'
    BY DEF TableTypes, RowsTrue, CodesApart, Untried, GuessesBounded
  <2>2. \A e \in Emails : IssuedFor(e)' = IssuedFor(e)
    BY DEF IssuedFor, Email
  <2>3. Counted' /\ MailTrue'
    BY <1>1, <2>2 DEF Counted, MailTrue, At
  <2>4. QED
    BY <1>1, <2>1, <2>3
<1>4. QED
  BY <1>2, <1>3, AccountsUntouched

-----------------------------------------------------------------------------
(* Cleanup, and the other ways to an account                               *)

LEMMA DeleteKeeps ==
  ASSUME IInv, NEW t0 \in Tables, NEW e0 \in Emails, DeleteExpired(t0, e0)
  PROVE  IInv'
<1> USE DEF IInv, Asked, Tabled, asking
<1>1. /\ \A r \in Requests : HasRow(r) => ~ (ask[r].table = t0 /\ Email(r) = e0)
      /\ pending' = [pending EXCEPT ![t0] = [@ EXCEPT ![e0] = NoRow]]
      /\ UNCHANGED <<avars, mail, count, issued, tries, asking>>
  BY DEF DeleteExpired
<1>2. /\ pending' \in [Tables -> [Emails -> RowsOfTable \cup {NoRow}]]
      /\ \A t \in Tables, e \in Emails :
           pending'[t][e] # NoRow => pending'[t][e] = pending[t][e]
      /\ \A t \in Tables, e \in Emails :
           t # t0 \/ e # e0 => pending'[t][e] = pending[t][e]
  BY <1>1 DEF TableTypes
<1>3. \A r \in Requests : HasRow(r) => Row(r)' = Row(r)
  <2> SUFFICES ASSUME NEW r \in Requests, HasRow(r) PROVE Row(r)' = Row(r)
    OBVIOUS
  <2>1. ask[r].table \in Tables /\ Email(r) \in Emails
    BY AskType DEF HasRow, UnderWay, At
  <2>2. QED
    BY <1>1, <1>2, <2>1 DEF Row, Email
<1>4. Asked'
  <2>1. Phases' /\ RequestTypes'
    BY <1>1 DEF Phases, At, Is, RequestTypes, mail
  <2>2. \A r \in Requests : HasRow(r)' = HasRow(r) /\ HasBucket(r)' = HasBucket(r)
    BY <1>1 DEF HasRow, HasBucket, UnderWay
  <2>3. RowHeld'
    BY <1>1, <1>3, <2>2 DEF RowHeld, Named, Right, Proves
  <2>4. RowAlone' /\ BucketHeld' /\ BucketAlone'
    BY <1>1, <2>2 DEF RowAlone, BucketHeld, BucketAlone, SameRow, Email
  <2>5. QED
    BY <2>1, <2>3, <2>4
<1>5. Tabled'
  <2>1. TableTypes' /\ MailTypeOK' /\ Untried' /\ GuessesBounded'
    BY <1>1, <1>2 DEF TableTypes, MailTypeOK, Untried, GuessesBounded, mail
  <2>2. RowsTrue' /\ CodesApart'
    BY <1>1, <1>2 DEF RowsTrue, CodesApart
  <2>3. \A e \in Emails : IssuedFor(e)' = IssuedFor(e)
    BY <1>1 DEF IssuedFor, Email
  <2>4. Posted' = Posted
    BY <1>1 DEF Posted, mail
  <2>5. Counted' /\ MailTrue'
    BY <1>1, <2>3, <2>4 DEF Counted, MailTrue, At
  <2>6. QED
    BY <2>1, <2>2, <2>5
<1>6. ConsumedHasAccount'
  BY <1>1, <1>2 DEF ConsumedHasAccount, Exists, avars
<1>7. AccountsInv' /\ SessionTypes'
  <2>1. Admins' = Admins
    BY <1>1 DEF Admins, Exists, avars
  <2>2. QED
    BY <1>1, <2>1, ElsewhereKeeps DEF avars, AccountsInv, AccountTypes, SessionTypes
<1>8. QED
  BY <1>4, <1>5, <1>6, <1>7

LEMMA SameTables ==
  ASSUME IInv, UNCHANGED <<mail, tables, asking>>
  PROVE  Asked' /\ Tabled'
<1> USE DEF IInv, Asked, Tabled, mail, tables, asking
<1>1. Phases' /\ RequestTypes'
  BY DEF Phases, At, Is, RequestTypes
<1>2. RowHeld' /\ RowAlone' /\ BucketHeld' /\ BucketAlone'
  BY DEF RowHeld, RowAlone, BucketHeld, BucketAlone, HasRow, HasBucket, UnderWay, SameRow,
         Email, Named, Row, Right, Proves
<1>3. /\ TableTypes' /\ MailTypeOK' /\ RowsTrue' /\ CodesApart' /\ Untried'
      /\ GuessesBounded'
  BY DEF TableTypes, MailTypeOK, RowsTrue, CodesApart, Untried, GuessesBounded
<1>4. \A e \in Emails : IssuedFor(e)' = IssuedFor(e)
  BY DEF IssuedFor, Email
<1>5. Posted' = Posted
  BY DEF Posted
<1>6. Counted' /\ MailTrue'
  BY <1>4, <1>5 DEF Counted, MailTrue, At
<1>7. QED
  BY <1>1, <1>2, <1>3, <1>6

LEMMA VisitsOpen ==
  ASSUME SessionTypes, AccountTypes, AccountsNext, AccountTypes'
  PROVE  SessionTypes'
<1> SUFFICES ASSUME NEW s \in sessions', s \notin sessions
             PROVE  s \in [by : Visits \cup Requests, of : Emails]
  BY DEF SessionTypes
<1>1. s.of \in Emails
  BY DEF AccountTypes
<1>2. \E v \in Visits, e \in Emails \cup {NoEmail} : s = [by |-> v, of |-> e]
  <2>1. PICK v \in Visits : CompleteOAuthLogin(v) \/ InsertOAuthCustomer(v)
    BY DEF AccountsNext, VisitStep, Visit, FailVisit, Rejected, BeginOAuth, DisableUser,
           FindOAuthIntent, LockIntent, CompleteOAuthLink, LockBootstrap, BootstrapAdmin,
           InsertAdmin
  <2>2. step[v] # "idle"
    BY <2>1 DEF CompleteOAuthLogin, InsertOAuthCustomer, On
  <2>3. google[Subject(v)] \in Emails \cup {NoEmail} /\ EmailOf[Subject(v)] \in Emails
    BY <2>2, ErrandType, AccountsAssumption DEF AccountTypes, Subject
  <2>4. QED
    BY <2>1, <2>3 DEF CompleteOAuthLogin, InsertOAuthCustomer, Open, Rejected
<1>3. QED
  BY <1>1, <1>2

LEMMA AccountsStepKeeps ==
  ASSUME IInv, AccountsNext, UNCHANGED <<mail, tables, asking>>
  PROVE  Sound
<1>1. AccountsInv' /\ AccountsStay
  BY AccountsNextKeeps DEF IInv
<1>2. Asked' /\ Tabled'
  BY SameTables
<1>3. SessionTypes'
  BY <1>1, VisitsOpen DEF IInv, AccountsInv
<1>4. ConsumedHasAccount'
  BY <1>1 DEF IInv, ConsumedHasAccount, Exists, AccountsStay, tables
<1>5. KeepsAccounts
  BY <1>1 DEF AccountsStay, KeepsAccounts
<1>6. OpensByCode
  BY <1>1, RegistrationAssumption, AccountsAssumption DEF AccountsStay, OpensByCode
<1>7. QED
  BY <1>1, <1>2, <1>3, <1>4, <1>5, <1>6 DEF Sound, IInv

-----------------------------------------------------------------------------
(* All steps                                                               *)

LEMMA StepKeeps ==
  ASSUME IInv, NEW r \in Requests, Call(r) \/ Step(r) \/ Victim(r) \/ Fail(r)
  PROVE  Sound
<1>1. CASE \/ Call(r) \/ Count(r) \/ LookForOwner(r) \/ BeginRegistration(r) \/ Mail(r)
           \/ LockForResend(r) \/ ResendRegistration(r) \/ LockForVerify(r)
  <2>1. UNCHANGED account
    BY <1>1
    DEF Call, Count, LookForOwner, BeginRegistration, Mail, LockForResend,
        ResendRegistration, LockForVerify, Issue, Attempt, Refuse, avars
  <2>2. IInv'
    BY <1>1, CallKeeps, CountKeeps, LookForOwnerKeeps, BeginRegistrationKeeps, MailKeeps,
       LockForResendKeeps, ResendRegistrationKeeps, LockForVerifyKeeps
  <2>3. QED
    BY <2>1, <2>2, SoundIfUnchanged
<1>2. CASE RepeatVerifyCashier(r) \/ Victim(r) \/ Fail(r)
  <2>1. ~ At(r, "idle") /\ \E a \in Answers : Refuse(r, a)
    <3>1. CASE RepeatVerifyCashier(r)
      BY <3>1 DEF RepeatVerifyCashier, At, Answers
    <3>2. CASE Fail(r)
      BY <3>2 DEF Fail, At, Answers
    <3>3. CASE Victim(r)
      <4>1. \E q \in Requests : Waits(r, q)
        BY <3>3 DEF Victim, Deadlocked
      <4>2. QED
        BY <3>3, <4>1 DEF Waits, WantsRow, WantsBucket, UnderWay, Victim, At, Answers
    <3>4. QED
      BY <1>2, <3>1, <3>2, <3>3
  <2>2. QED
    BY <2>1, RefuseKeeps, SoundIfUnchanged DEF Refuse, avars
<1>3. QED
  BY <1>1, <1>2, VerifyRegistrationKeeps, CreateSessionKeeps, LookForCashierKeeps,
     VerifyCashierKeeps DEF Step

LEMMA NextSound == IInv /\ [Next]_vars => IInv' /\ [Sound]_vars
<1> SUFFICES ASSUME IInv, [Next]_vars PROVE IInv' /\ [Sound]_vars
  OBVIOUS
<1>1. CASE \E t \in Tables, e \in Emails : DeleteExpired(t, e)
  <2>1. UNCHANGED account
    BY <1>1 DEF DeleteExpired, avars
  <2>2. QED
    BY <1>1, <2>1, DeleteKeeps, SoundIfUnchanged
<1>2. CASE Mailing /\ UNCHANGED <<avars, tables, asking>>
  BY <1>2, MailingKeeps, SoundIfUnchanged DEF avars
<1>3. CASE UNCHANGED vars
  BY <1>3, SameTables, AccountsUntouched DEF vars, tables
<1>4. QED
  BY <1>1, <1>2, <1>3, StepKeeps, AccountsStepKeeps DEF Next, Sound

LEMMA IInvImplies ==
  IInv => /\ TypeOK /\ GuessesBounded /\ CodesWithinLimit /\ ConsumedHasAccount
          /\ MailedToNewcomers /\ LinkedOnly /\ OneAdmin
<1> SUFFICES ASSUME IInv
             PROVE  /\ TypeOK /\ GuessesBounded /\ CodesWithinLimit /\ ConsumedHasAccount
                    /\ MailedToNewcomers /\ LinkedOnly /\ OneAdmin
  OBVIOUS
<1> USE DEF IInv, Asked, Tabled, AccountsInv
<1>1. TypeOK
  BY TypesOfAll
<1>2. CodesWithinLimit
  <2> SUFFICES ASSUME NEW e \in Emails PROVE Cardinality(IssuedFor(e)) <= MaxPerHour
    BY DEF CodesWithinLimit, IssuedFor
  <2>1. IsFiniteSet(IssuedFor(e))
    BY FS_Subset DEF Counted, IssuedFor
  <2>2. Cardinality(IssuedFor(e)) \in Nat
    BY <2>1, FS_CardinalityType
  <2>3. QED
    BY <2>2, RegistrationAssumption DEF Counted, TableTypes
<1>3. MailedToNewcomers
  BY DEF MailTrue, MailedToNewcomers
<1>4. LinkedOnly
  BY DEF Linked, OneSession, LinkedOnly
<1>5. OneAdmin
  <2>1. CASE Admins = {}
    BY <2>1, FS_EmptySet DEF OneAdmin
  <2>2. CASE Admins # {}
    <3>1. PICK a : Admins = {a}
      BY <2>2 DEF SoleAdmin
    <3>2. Cardinality({a}) = 1
      BY FS_Singleton
    <3>3. QED
      BY <3>1, <3>2 DEF OneAdmin
  <2>3. QED
    BY <2>1, <2>2
<1>6. QED
  BY <1>1, <1>2, <1>3, <1>4, <1>5

-----------------------------------------------------------------------------
(* The theorems                                                            *)

THEOREM Invariance == Spec => []IInv
<1>1. IInv /\ [Next]_vars => IInv'
  BY NextSound
<1>2. QED
  BY <1>1, InitIInv, PTL DEF Spec

(* The state keeps its types, and the queue of mails its bound.             *)
THEOREM RegistrationTypeCorrect == Spec => []TypeOK
BY Invariance, IInvImplies, PTL

(* No code is guessed at more often than allowed, however many guess.       *)
THEOREM GuessesStayBounded == Spec => []GuessesBounded
BY Invariance, IInvImplies, PTL

(* An address is issued no more codes than allowed, whoever asks for them.  *)
THEOREM CodesStayWithinLimit == Spec => []CodesWithinLimit
BY Invariance, IInvImplies, PTL

(* What has been used up is the account that it says.                       *)
THEOREM ConsumedHaveAccounts == Spec => []ConsumedHasAccount
BY Invariance, IInvImplies, PTL

(* Mails go to those only who had no account when they began.               *)
THEOREM MailGoesToNewcomers == Spec => []MailedToNewcomers
BY Invariance, IInvImplies, PTL

(* Sessions of logins with Google are those of linked accounts.             *)
THEOREM LoginsAreLinked == Spec => []LinkedOnly
BY Invariance, IInvImplies, PTL

(* There is at most one admin.                                              *)
THEOREM AdminIsAlone == Spec => []OneAdmin
BY Invariance, IInvImplies, PTL

(* A verification that waits holds no lock anybody waits for.               *)
THEOREM VerificationIsNoVictim == Spec => []VerificationNotVictim
<1>1. VerificationNotVictim
  <2>1. SUFFICES ASSUME NEW r \in Requests, Deadlocked(r), ask[r].kind = "verify"
                 PROVE  FALSE
    BY DEF VerificationNotVictim
  <2>2. PICK p \in Requests, q \in Requests : Waits(r, p) /\ Waits(q, r)
    BY <2>1 DEF Deadlocked
  <2>3. pc[r] = "lock"
    BY <2>1, <2>2 DEF Waits, WantsRow, WantsBucket
  <2>4. pc[r] # "lock"
    BY <2>1, <2>2 DEF Waits, HasRow, HasBucket
  <2>5. QED
    BY <2>3, <2>4
<1>2. QED
  BY <1>1, PTL

(* Accounts are opened by the code that counts.                             *)
THEOREM CurrentCodeOpens == Spec => OpenedByCurrentCode
<1>1. IInv /\ [Next]_vars => [OpensByCode]_vars
  BY NextSound DEF Sound
<1>2. QED
  BY <1>1, Invariance, PTL DEF Spec, OpenedByCurrentCode

(* Accounts keep their role and, unless they are unverified cashiers', the  *)
(* password they were opened with.                                          *)
THEOREM AccountsAreKept == Spec => AccountsKept
<1>1. IInv /\ [Next]_vars => [KeepsAccounts]_vars
  BY NextSound DEF Sound
<1>2. QED
  BY <1>1, Invariance, PTL DEF Spec, AccountsKept

-----------------------------------------------------------------------------
(* The accounts as ProvenAccounts has them                                 *)

(* An owner that a request has found is still there. *)
OwnersStay ==
  \A r \in owned : ~ At(r, "idle") /\ ask[r].table = "CUSTOMER" /\ Exists(Email(r))

LEMMA OwnersStart == Init => OwnersStay
BY DEF Init, OwnersStay

(* Who is an owner, and what a request asks for, changes at one place only. *)
LEMMA AsksStay ==
  ASSUME Next
  PROVE  \/ owned' = owned /\ ask' = ask
         \/ \E r \in Requests : Call(r) \/ LookForOwner(r)
<1>1. CASE \E r \in Requests : Step(r) \/ Victim(r) \/ Fail(r)
  BY <1>1
  DEF Step, Victim, Fail, Refuse, Reply, Goto, Count, Issue, BeginRegistration, Mail,
      LockForResend, ResendRegistration, Attempt, LockForVerify, RepeatVerifyCashier,
      VerifyRegistration, CreateSession, Appoint, LookForCashier,
      VerifyCashierRegistration
<1>2. QED
  BY <1>1 DEF Next, DeleteExpired, asking

(* Nobody goes back to where it began. *)
LEMMA NoneIdle ==
  ASSUME RequestTypes, Next, NEW r \in Requests, ~ At(r, "idle")
  PROVE  ~ At(r, "idle")'
<1>1. CASE \E q \in Requests : Call(q) \/ Step(q) \/ Victim(q) \/ Fail(q)
  <2>1. PICK q \in Requests : Call(q) \/ Step(q) \/ Victim(q) \/ Fail(q)
    BY <1>1
  <2>2. \E p \in PCs \ {"idle"} : pc' = [pc EXCEPT ![q] = p]
    BY <2>1
    DEF Call, Step, Victim, Fail, Refuse, Reply, Goto, Count, Issue, LookForOwner,
        BeginRegistration, Mail, LockForResend, ResendRegistration, Attempt,
        LockForVerify, RepeatVerifyCashier, VerifyRegistration, CreateSession, Appoint,
        LookForCashier, VerifyCashierRegistration, PCs
  <2>3. QED
    BY <2>2 DEF At, RequestTypes
<1>2. QED
  BY <1>1 DEF Next, DeleteExpired, asking, At

LEMMA OwnersKeep == IInv /\ OwnersStay /\ [Next]_vars => OwnersStay'
<1> SUFFICES ASSUME IInv, OwnersStay, [Next]_vars PROVE OwnersStay'
  OBVIOUS
<1> USE DEF IInv, Asked
<1>1. CASE UNCHANGED vars
  BY <1>1 DEF OwnersStay, vars, asking, avars, At, Exists, Email
<1>2. CASE Next
  <2>1. KeepsAccounts \/ UNCHANGED account
    BY <1>2, NextSound DEF Sound, vars, avars
  <2> SUFFICES ASSUME NEW r \in owned'
               PROVE  ~ At(r, "idle")' /\ ask'[r].table = "CUSTOMER" /\ Exists(Email(r))'
    BY DEF OwnersStay
  <2>2. CASE r \in owned
    <3>1. /\ r \in Requests /\ ~ At(r, "idle")
          /\ ask[r].table = "CUSTOMER" /\ Exists(Email(r)) /\ Email(r) \in Emails
      BY <2>2, AskType DEF OwnersStay, RequestTypes
    <3>2. ask'[r] = ask[r]
      BY <1>2, <3>1, AsksStay DEF Call, LookForOwner, Refuse, Reply, Goto, RequestTypes, At
    <3>3. QED
      BY <1>2, <2>1, <3>1, <3>2, NoneIdle DEF KeepsAccounts, Exists, Email
  <2>3. CASE r \notin owned
    <3>1. PICK q \in Requests : Call(q) \/ LookForOwner(q)
      BY <1>2, <2>3, AsksStay
    <3>2. /\ LookForOwner(q) /\ r = q
          /\ ask[q].table = "CUSTOMER" /\ Exists(Email(q))
          /\ UNCHANGED <<avars, ask>> /\ ~ At(q, "idle")
      BY <2>3, <3>1 DEF Call, LookForOwner, Refuse, Reply, Goto, At
    <3>3. QED
      BY <1>2, <3>2, NoneIdle DEF Exists, Email, avars
  <2>4. QED
    BY <2>2, <2>3
<1>3. QED
  BY <1>1, <1>2

(* What ProvenAccounts sees besides the two variables that it has instead   *)
(* of the queue and of the requests.                                        *)
seen == <<account, google, intent, sessions, pending, count, issued, mailbox>>

Entry(r) == [by |-> r, of |-> Email(r)]

Mapped == [Proven!Next]_Proven!vars

LEMMA Stutters ==
  ASSUME UNCHANGED seen, Underway' = Underway, Opening' = Opening
  PROVE  Mapped
BY DEF Mapped, seen, Proven!vars, Proven!people, Proven!codes, Proven!mails

LEMMA Posts ==
  ASSUME UNCHANGED <<account, google, intent, sessions, pending, count, issued>>,
         Underway' \subseteq Underway, Opening' = Opening,
         mailbox' = mailbox \/ \E c \in Underway : mailbox' = mailbox \cup {c}
  PROVE  Mapped
<1>1. \E arrived \in SUBSET Underway : mailbox' = mailbox \cup arrived
  <2>1. CASE mailbox' = mailbox
    <3>1. {} \in SUBSET Underway /\ mailbox' = mailbox \cup {}
      BY <2>1
    <3>2. QED
      BY <3>1
  <2>2. CASE \E c \in Underway : mailbox' = mailbox \cup {c}
    <3>1. PICK c \in Underway : mailbox' = mailbox \cup {c}
      BY <2>2
    <3>2. {c} \in SUBSET Underway
      BY <3>1
    <3>3. QED
      BY <3>1, <3>2
  <2>3. QED
    BY <2>1, <2>2
<1>2. Underway' \in SUBSET Underway
  OBVIOUS
<1>3. Proven!Post
  BY <1>1, <1>2 DEF Proven!Post, Proven!people, Proven!codes
<1>4. QED
  BY <1>3 DEF Mapped, Proven!Next

Moves(r) ==
  \A q \in Requests :
    /\ q # r => pc'[q] = pc[q]
    /\ ~ At(q, "idle") => ask'[q] = ask[q]

(* A request that moves: what is being mailed, and who is about to enter.   *)
LEMMA PcMoves ==
  ASSUME NEW r \in Requests, Moves(r)
  PROVE  /\ queue' = queue /\ ~ At(r, "mail")' /\ ~ At(r, "mail") => Underway' = Underway
         /\ queue' = queue /\ At(r, "mail")' => Underway' = Underway \cup {r}
         /\ queue' = queue /\ ~ At(r, "mail")' => Underway' \subseteq Underway
         /\ ~ At(r, "session")' /\ ~ At(r, "session") => Opening' = Opening
         /\ ~ At(r, "session")' /\ At(r, "session") => Opening' = Opening \ {Entry(r)}
         /\ At(r, "session")' /\ ~ At(r, "idle") => Opening' = Opening \cup {Entry(r)}
<1> DEFINE mails == {q \in Requests : At(q, "mail")}
           entering == {q \in Requests : At(q, "session")}
<1>1. \A q \in Requests \ {r} : pc'[q] = pc[q]
  BY DEF Moves
<1>2. /\ At(r, "mail")' => mails' = mails \cup {r}
      /\ ~ At(r, "mail")' => mails' = mails \ {r}
      /\ At(r, "session")' => entering' = entering \cup {r}
      /\ ~ At(r, "session")' => entering' = entering \ {r}
  BY <1>1 DEF At
<1>3. /\ ~ At(r, "mail") => r \notin mails
      /\ ~ At(r, "session") => r \notin entering
  OBVIOUS
<1>4. Opening = {Entry(q) : q \in entering} /\ Opening' = {Entry(q)' : q \in entering'}
  BY DEF Opening, Entry
<1>5. \A q \in entering : Entry(q)' = Entry(q)
  BY DEF Moves, Entry, Email, At
<1>6. ~ At(r, "idle") => Entry(r)' = Entry(r)
  BY DEF Moves, Entry, Email
<1>7. \A q \in Requests \ {r} : Entry(q) # Entry(r)
  BY DEF Entry
<1>8. queue' = queue =>
        /\ At(r, "mail")' => Underway' = Underway \cup {r}
        /\ ~ At(r, "mail")' => Underway' \subseteq Underway
        /\ ~ At(r, "mail")' /\ ~ At(r, "mail") => Underway' = Underway
  BY <1>2, <1>3 DEF Underway
<1>9. ~ At(r, "session")' /\ ~ At(r, "session") => Opening' = Opening
  BY <1>2, <1>3, <1>4, <1>5
<1>10. ~ At(r, "session")' /\ At(r, "session") => Opening' = Opening \ {Entry(r)}
  BY <1>2, <1>4, <1>5, <1>7
<1>11. At(r, "session")' /\ ~ At(r, "idle") => Opening' = Opening \cup {Entry(r)}
  BY <1>2, <1>4, <1>5, <1>6
<1>12. QED
  BY <1>8, <1>9, <1>10, <1>11

(* How a request moves. *)
LEMMA PcOf ==
  ASSUME IInv, NEW r \in Requests, ask' = ask,
         NEW p \in PCs, pc' = [pc EXCEPT ![r] = p]
  PROVE  Moves(r) /\ pc'[r] = p
BY DEF IInv, Asked, RequestTypes, Moves

LEMMA RefuseMaps ==
  ASSUME IInv, NEW r \in Requests, NEW a, Refuse(r, a)
  PROVE  Mapped
<1>1. UNCHANGED seen /\ queue' = queue
  BY DEF Refuse, seen, avars, mail, tables
<1>2. Moves(r) /\ pc'[r] = "done"
  BY PcOf DEF Refuse, Reply, PCs
<1>3. /\ ~ At(r, "mail") => Underway' = Underway
      /\ Underway' \subseteq Underway
      /\ ~ At(r, "session") => Opening' = Opening
      /\ Opening' \subseteq Opening
  BY <1>1, <1>2, PcMoves DEF At
<1>4. CASE At(r, "mail")
  <2>1. Opening' = Opening
    BY <1>3, <1>4 DEF At
  <2>2. QED
    BY <1>1, <1>3, <2>1, Posts DEF seen
<1>5. CASE At(r, "session")
  <2>1. Underway' = Underway
    BY <1>3, <1>5 DEF At
  <2>2. Opening' \in SUBSET Opening
    BY <1>3
  <2>3. Proven!Drop
    BY <1>1, <2>1, <2>2 DEF Proven!Drop, Proven!people, Proven!codes, Proven!mails, seen
  <2>4. QED
    BY <2>3 DEF Mapped, Proven!Next
<1>6. CASE ~ At(r, "mail") /\ ~ At(r, "session")
  BY <1>1, <1>3, <1>6, Stutters
<1>7. QED
  BY <1>4, <1>5, <1>6

(* Looking, and waiting for a lock, is nothing. *)
LEMMA MoveMaps ==
  ASSUME IInv, NEW r \in Requests, ~ At(r, "mail"), ~ At(r, "session"),
         Moves(r), pc'[r] \in {"lock", "look", "write"},
         UNCHANGED <<avars, mail, tables>>
  PROVE  Mapped
<1>1. UNCHANGED seen /\ queue' = queue
  BY DEF seen, avars, mail, tables
<1>2. Underway' = Underway /\ Opening' = Opening
  BY <1>1, PcMoves DEF At
<1>3. QED
  BY <1>1, <1>2, Stutters

-----------------------------------------------------------------------------
(* Codes                                                                   *)

LEMMA CodeMoves ==
  ASSUME IInv, NEW r \in Requests, At(r, "write"), NEW row, Issue(r, row)
  PROVE  /\ r \notin issued
         /\ SetRow(r, row)
         /\ count' = [count EXCEPT ![Email(r)] = @ + 1]
         /\ issued' = issued \cup {r}
         /\ Underway' = Underway \/ (row.eligible /\ Underway' = Underway \cup {r})
         /\ Opening' = Opening
         /\ UNCHANGED <<account, google, intent, sessions, mailbox>>
<1>1. r \notin issued
  BY DEF IInv, Asked, Phases, At
<1>2. /\ SetRow(r, row)
      /\ count' = [count EXCEPT ![Email(r)] = @ + 1]
      /\ issued' = issued \cup {r}
      /\ UNCHANGED <<account, google, intent, sessions, mailbox, queue>>
  BY DEF Issue, avars, mail
<1>3. /\ Moves(r)
      /\ pc'[r] = "done" \/ (row.eligible /\ pc'[r] = "mail")
  BY PcOf DEF Issue, Reply, Goto, PCs
<1>4. CASE pc'[r] = "done"
  <2>1. Underway' = Underway /\ Opening' = Opening
    BY <1>2, <1>3, <1>4, PcMoves DEF At
  <2>2. QED
    BY <1>1, <1>2, <2>1
<1>5. CASE row.eligible /\ pc'[r] = "mail"
  <2>1. Underway' = Underway \cup {r} /\ Opening' = Opening
    BY <1>2, <1>3, <1>5, PcMoves DEF At
  <2>2. QED
    BY <1>1, <1>2, <1>5, <2>1
<1>6. QED
  BY <1>3, <1>4, <1>5

LEMMA BeginMaps ==
  ASSUME IInv, OwnersStay, NEW r \in Requests, BeginRegistration(r)
  PROVE  Mapped
<1> DEFINE t == ask[r].table
           e == Email(r)
           eligible == r \notin owned
           row == [id |-> r, code |-> r, eligible |-> eligible, attempts |-> 0,
                   consumed |-> FALSE]
<1>1. At(r, "write") /\ ask[r].kind = "begin" /\ Issue(r, row)
  BY DEF BeginRegistration
<1>2. t \in Tables /\ e \in Emails
  BY <1>1, AskType DEF IInv, Asked, At
<1>3. count[e] < MaxPerHour
  BY <1>1 DEF IInv, Asked, BucketHeld, HasBucket, UnderWay, At
<1>4. ~ eligible => t = "CUSTOMER" /\ Exists(e)
  BY DEF OwnersStay
<1>5. row.eligible = eligible /\ eligible \in BOOLEAN
  OBVIOUS
<1>6. /\ r \notin issued
      /\ SetRow(r, row)
      /\ count' = [count EXCEPT ![e] = @ + 1]
      /\ issued' = issued \cup {r}
      /\ Underway' = Underway \/ (row.eligible /\ Underway' = Underway \cup {r})
      /\ Opening' = Opening
      /\ UNCHANGED <<account, google, intent, sessions, mailbox>>
  BY <1>1, CodeMoves
<1>7. Proven!Issue(r, t, e, row)
  BY <1>3, <1>6 DEF Proven!Issue, Proven!SetRow, SetRow, Proven!people
<1>8. Proven!Register(r, t, e)
  BY <1>4, <1>5, <1>7 DEF Proven!Register, Proven!Exists, Exists
<1>9. QED
  BY <1>2, <1>8 DEF Mapped, Proven!Next, Proven!Tables, Tables

LEMMA ResendMaps ==
  ASSUME IInv, NEW r \in Requests, ResendRegistration(r)
  PROVE  Mapped
<1> DEFINE t == ask[r].table
           e == Email(r)
           row == [Row(r) EXCEPT !.code = r, !.attempts = 0]
<1>1. CASE Refuse(r, "LIMITED")
  BY <1>1, RefuseMaps
<1>2. CASE count[e] < MaxPerHour /\ Issue(r, row)
  <2>1. At(r, "write") /\ ask[r].kind = "resend"
    BY DEF ResendRegistration
  <2>2. t \in Tables /\ e \in Emails
    BY <2>1, AskType DEF IInv, Asked, At
  <2>3. Named(r) /\ ~ Row(r).consumed
    BY <2>1 DEF IInv, Asked, RowHeld, HasRow, UnderWay, At
  <2>4. Proven!Open(t, e)
    BY <2>3 DEF Proven!Open, Named, Row
  <2>5. /\ r \notin issued
        /\ SetRow(r, row)
        /\ count' = [count EXCEPT ![e] = @ + 1]
        /\ issued' = issued \cup {r}
        /\ Underway' = Underway \/ (row.eligible /\ Underway' = Underway \cup {r})
        /\ Opening' = Opening
        /\ UNCHANGED <<account, google, intent, sessions, mailbox>>
    BY <1>2, <2>1, CodeMoves
  <2>6. Proven!Issue(r, t, e, row)
    BY <1>2, <2>5 DEF Proven!Issue, Proven!SetRow, SetRow, Proven!people
  <2>7. Proven!Resend(r, t, e)
    BY <2>4, <2>6 DEF Proven!Resend, Row
  <2>8. QED
    BY <2>2, <2>7 DEF Mapped, Proven!Next, Proven!Tables, Tables
<1>3. QED
  BY <1>1, <1>2 DEF ResendRegistration

LEMMA MailMaps ==
  ASSUME IInv, NEW r \in Requests, Mail(r)
  PROVE  Mapped
<1>1. At(r, "mail") /\ SendCode(r) /\ UNCHANGED <<avars, tables>>
  BY DEF Mail
<1>2. Moves(r) /\ pc'[r] = "done"
  BY PcOf DEF Mail, Reply, PCs
<1>3. Opening' = Opening
  BY <1>1, <1>2, PcMoves DEF At
<1>4. Underway' \subseteq Underway
  <2> DEFINE queued == {queue[i] : i \in 1..Len(queue)}
             mails == {q \in Requests : At(q, "mail")}
  <2>1. r \in mails /\ mails' \subseteq mails
    BY <1>1, <1>2 DEF Moves, At
  <2>2. queued' \subseteq queued \cup {r}
    <3>1. CASE queue' = Append(queue, r)
      <4>1. queue \in Seq(Codes)
        BY DEF IInv, Tabled, MailTypeOK
      <4>2. /\ Len(queue') = Len(queue) + 1
            /\ \A i \in 1..Len(queue') :
                 (i \in 1..Len(queue) /\ queue'[i] = queue[i]) \/ queue'[i] = r
        BY <3>1, <4>1
      <4>3. QED
        BY <4>2
    <3>2. QED
      BY <1>1, <3>1 DEF SendCode
  <2>3. QED
    BY <2>1, <2>2 DEF Underway
<1>5. UNCHANGED seen
  BY <1>1 DEF seen, SendCode, avars, tables
<1>6. QED
  BY <1>3, <1>4, <1>5, Posts DEF seen

LEMMA MailingMaps ==
  ASSUME IInv, Mailing, UNCHANGED <<avars, tables, asking>>
  PROVE  Mapped
<1> DEFINE queued == {queue[i] : i \in 1..Len(queue)}
<1>1. queue \in Seq(Codes)
  BY DEF IInv, Tabled, MailTypeOK
<1>2. /\ queued' \subseteq queued
      /\ mailbox' = mailbox \/ \E c \in queued : mailbox' = mailbox \cup {c}
  <2>1. CASE Deliver
    <3>1. /\ queue # <<>> /\ queue' = Tail(queue)
          /\ mailbox' = mailbox \/ mailbox' = mailbox \cup {Head(queue)}
      BY <2>1 DEF Deliver
    <3>2. /\ Len(queue') = Len(queue) - 1 /\ Len(queue) \in Nat
          /\ \A i \in 1..Len(queue') : i + 1 \in 1..Len(queue) /\ queue'[i] = queue[i + 1]
          /\ Head(queue) = queue[1] /\ 1 \in 1..Len(queue)
      BY <1>1, <3>1
    <3>3. queued' \subseteq queued /\ Head(queue) \in queued
      BY <3>2
    <3>4. QED
      BY <3>1, <3>3
  <2>2. CASE Restart
    <3>1. queue' = <<>> /\ mailbox' = mailbox
      BY <2>2 DEF Restart
    <3>2. queued' = {}
      BY <3>1
    <3>3. QED
      BY <3>1, <3>2
  <2>3. QED
    BY <2>1, <2>2 DEF Mailing
<1>3. Underway' \subseteq Underway /\ queued \subseteq Underway /\ Opening' = Opening
  BY <1>2 DEF Underway, Opening, At, Email, asking
<1>4. mailbox' = mailbox \/ \E c \in Underway : mailbox' = mailbox \cup {c}
  BY <1>2, <1>3
<1>5. QED
  BY <1>3, <1>4, Posts DEF avars, tables

-----------------------------------------------------------------------------
(* Verifications                                                           *)

LEMMA AttemptMaps ==
  ASSUME IInv, NEW r \in Requests, At(r, "lock"), ask[r].kind = "verify",
         Named(r), ~ Row(r).consumed, Row(r).attempts < MaxAttempts, Attempt(r)
  PROVE  Mapped
<1> DEFINE t == ask[r].table
           e == Email(r)
<1>1. t \in Tables /\ e \in Emails
  BY AskType DEF IInv, Asked, At
<1>2. Moves(r) /\ pc'[r] = "done"
  BY PcOf DEF Attempt, Reply, PCs
<1>3. Underway' = Underway /\ Opening' = Opening
  BY <1>2, PcMoves DEF At, Attempt, mail
<1>4. Proven!Try(t, e)
  BY DEF Proven!Try, Proven!Open, Named, Row
<1>5. Proven!SetRow(t, e, [pending[t][e] EXCEPT !.attempts = @ + 1])
  BY DEF Attempt, SetRow, Row, Proven!SetRow
<1>6. Proven!Guess(t, e)
  BY <1>3, <1>4, <1>5 DEF Proven!Guess, Proven!people, Proven!mails, Attempt, avars, mail
<1>7. QED
  BY <1>1, <1>6 DEF Mapped, Proven!Next, Proven!Tables, Tables

LEMMA LockForVerifyMaps ==
  ASSUME IInv, NEW r \in Requests, LockForVerify(r)
  PROVE  Mapped
<1>1. At(r, "lock") /\ ask[r].kind = "verify"
  BY DEF LockForVerify
<1>2. CASE Refuse(r, "INVALID")
  BY <1>2, RefuseMaps
<1>3. CASE /\ Named(r) /\ ~ Row(r).consumed /\ Row(r).attempts < MaxAttempts
           /\ Attempt(r)
  BY <1>1, <1>3, AttemptMaps
<1>4. CASE /\ Goto(r, IF ask[r].table = "CASHIER" THEN "look" ELSE "write")
           /\ UNCHANGED <<avars, mail, tables>>
  <2>1. PICK p \in {"look", "write"} : pc' = [pc EXCEPT ![r] = p]
    BY <1>4 DEF Goto
  <2>2. Moves(r) /\ pc'[r] = p
    BY <1>4, <2>1, PcOf DEF Goto, PCs
  <2>3. QED
    BY <1>1, <1>4, <2>2, MoveMaps DEF At
<1>5. QED
  BY <1>2, <1>3, <1>4 DEF LockForVerify

(* A verification that goes on to write has a proof. *)
LEMMA HasProof ==
  ASSUME IInv, NEW r \in Requests, At(r, "write") \/ At(r, "look"),
         NEW t \in Tables, Is(r, "verify", t), Consume(r),
         UNCHANGED <<google, intent, mail, count, issued>>, Underway' = Underway
  PROVE  /\ Email(r) \in Emails
         /\ Proven!Prove(t, Email(r))
         /\ pending[t][Email(r)].id = ask[r].id
<1> DEFINE e == Email(r)
<1>1. ~ At(r, "idle") /\ ask[r].kind = "verify" /\ ask[r].table = t /\ e \in Emails
  BY AskType DEF IInv, Asked, At, Is
<1>2. Named(r) /\ ~ Row(r).consumed /\ Right(r) /\ Row(r) \in RowsOfTable
  BY <1>1, RowType DEF IInv, Asked, Tabled, RowHeld, HasRow, UnderWay, At, Named
<1>3. Row(r) = pending[t][e] /\ Row(r) # NoRow /\ Row(r).id = ask[r].id
  BY <1>1, <1>2 DEF Row, Named
<1>4. ask[r].code \in mailbox
  BY <1>1, <1>2, RegistrationAssumption DEF IInv, Asked, Phases, Right, Proves, RowsOfTable
<1>5. Proven!Try(t, e) /\ pending[t][e].eligible /\ pending[t][e].code \in mailbox
  BY <1>2, <1>3, <1>4 DEF Right, Proves, Proven!Try, Proven!Open
<1>6. Proven!SetRow(t, e, [pending[t][e] EXCEPT !.consumed = TRUE])
  BY <1>1, <1>2, <1>3 DEF Consume, SetRow, Proven!SetRow
<1>7. Proven!Prove(t, e)
  BY <1>5, <1>6 DEF Proven!Prove, Proven!mails, mail
<1>8. QED
  BY <1>1, <1>3, <1>7

LEMMA VerifyRegistrationMaps ==
  ASSUME IInv, NEW r \in Requests, VerifyRegistration(r)
  PROVE  Mapped
<1> DEFINE e == Email(r)
<1>1. At(r, "write") /\ Is(r, "verify", "CUSTOMER")
  BY DEF VerifyRegistration
<1>2. CASE Refuse(r, "INVALID")
  BY <1>2, RefuseMaps
<1>3. CASE ~ Refuse(r, "INVALID")
  <2>1. /\ ~ Exists(e)
        /\ account' = [account EXCEPT ![e] = NewAccount("CUSTOMER", ask[r].id, FALSE)]
        /\ Consume(r)
        /\ Goto(r, "session") \/ Reply(r, "ERROR")
        /\ UNCHANGED <<google, intent, sessions, visiting, mail, count, issued, tries>>
    BY <1>3 DEF VerifyRegistration
  <2>2. Moves(r) /\ pc'[r] \in {"session", "done"}
    BY <2>1, PcOf DEF Goto, Reply, PCs
  <2>3. Underway' = Underway
    BY <1>1, <2>1, <2>2, PcMoves DEF At, mail
  <2>4. Opening' = Opening \/ Opening' = Opening \cup {[by |-> r, of |-> e]}
    BY <1>1, <2>2, PcMoves DEF At, Entry
  <2>5. "CUSTOMER" \in Tables
    BY DEF Tables
  <2>6. /\ e \in Emails
        /\ Proven!Prove("CUSTOMER", e)
        /\ pending["CUSTOMER"][e].id = ask[r].id
    BY <1>1, <2>1, <2>3, <2>5, HasProof
  <2>7. Proven!Add(e, Proven!NewAccount("CUSTOMER", pending["CUSTOMER"][e].id, FALSE))
    BY <2>1, <2>6 DEF Proven!Add, Proven!NewAccount, NewAccount
  <2>8. Proven!VerifyCustomer(r, e)
    BY <2>1, <2>4, <2>6, <2>7 DEF Proven!VerifyCustomer, Proven!Exists, Exists
  <2>9. QED
    BY <2>6, <2>8 DEF Mapped, Proven!Next
<1>4. QED
  BY <1>2, <1>3

LEMMA AppointMaps ==
  ASSUME IInv, NEW r \in Requests, At(r, "write") \/ At(r, "look"),
         Is(r, "verify", "CASHIER"), Vacant(Email(r)),
         Appoint(r, IF Exists(Email(r))
                    THEN [account[Email(r)] EXCEPT !.by = ask[r].id, !.verified = TRUE,
                                                   !.mustChange = TRUE]
                    ELSE NewAccount("CASHIER", ask[r].id, TRUE))
  PROVE  Mapped
<1> DEFINE e == Email(r)
<1>1. /\ sessions' = {s \in sessions : s.of # e}
      /\ Consume(r)
      /\ UNCHANGED <<google, intent, visiting, mail, count, issued, tries>>
  BY DEF Appoint
<1>2. Moves(r) /\ pc'[r] = "done"
  BY PcOf DEF Appoint, Reply, PCs
<1>3. Underway' = Underway /\ Opening' = Opening
  BY <1>1, <1>2, PcMoves DEF At, mail
<1>4. "CASHIER" \in Tables
  BY DEF Tables
<1>5. /\ e \in Emails
      /\ Proven!Prove("CASHIER", e)
      /\ pending["CASHIER"][e].id = ask[r].id
  BY <1>1, <1>3, <1>4, HasProof
<1>6. Proven!Vacant(e)
  BY DEF Vacant, Proven!Vacant, Exists, Proven!Exists
<1>7. Proven!Add(e, IF Proven!Exists(e)
                    THEN [account[e] EXCEPT !.by = pending["CASHIER"][e].id,
                                            !.verified = TRUE, !.mustChange = TRUE]
                    ELSE Proven!NewAccount("CASHIER", pending["CASHIER"][e].id, TRUE))
  BY <1>5 DEF Appoint, Proven!Add, Proven!NewAccount, NewAccount, Exists, Proven!Exists
<1>8. Proven!VerifyCashier(e)
  BY <1>1, <1>3, <1>5, <1>6, <1>7 DEF Proven!VerifyCashier
<1>9. QED
  BY <1>5, <1>8 DEF Mapped, Proven!Next

LEMMA CashierMaps ==
  ASSUME IInv, NEW r \in Requests, LookForCashier(r) \/ VerifyCashierRegistration(r)
  PROVE  Mapped
<1> DEFINE e == Email(r)
<1>1. At(r, "look") \/ At(r, "write")
  BY DEF LookForCashier, VerifyCashierRegistration
<1>2. Is(r, "verify", "CASHIER")
  BY DEF LookForCashier, VerifyCashierRegistration
<1>3. CASE Refuse(r, "IN_USE")
  BY <1>3, RefuseMaps
<1>4. CASE Goto(r, "write") /\ UNCHANGED <<avars, mail, tables>>
  <2>1. Moves(r) /\ pc'[r] = "write"
    BY <1>4, PcOf DEF Goto, PCs
  <2>2. QED
    BY <1>1, <1>4, <2>1, MoveMaps DEF At
<1>5. CASE /\ Exists(e) /\ Vacant(e)
           /\ Appoint(r, [account[e] EXCEPT !.by = ask[r].id, !.verified = TRUE,
                                            !.mustChange = TRUE])
  BY <1>1, <1>2, <1>5, AppointMaps
<1>6. CASE ~ Exists(e) /\ Appoint(r, NewAccount("CASHIER", ask[r].id, TRUE))
  <2>1. Vacant(e)
    BY <1>6 DEF Vacant
  <2>2. QED
    BY <1>1, <1>2, <1>6, <2>1, AppointMaps
<1>7. QED
  BY <1>3, <1>4, <1>5, <1>6 DEF LookForCashier, VerifyCashierRegistration

LEMMA CreateSessionMaps ==
  ASSUME IInv, NEW r \in Requests, CreateSession(r)
  PROVE  Mapped
<1>1. At(r, "session")
  BY DEF CreateSession
<1>2. CASE Refuse(r, "ERROR")
  BY <1>2, RefuseMaps
<1>3. CASE ~ Refuse(r, "ERROR")
  <2>1. /\ account[Email(r)].active
        /\ Open(r, Email(r))
        /\ Reply(r, "OK") \/ Reply(r, "ERROR")
        /\ UNCHANGED <<account, google, intent, visiting, mail, tables>>
    BY <1>3 DEF CreateSession
  <2>2. Moves(r) /\ pc'[r] = "done"
    BY <2>1, PcOf DEF Reply, PCs
  <2>3. Underway' = Underway /\ Opening' = Opening \ {Entry(r)}
    BY <1>1, <2>1, <2>2, PcMoves DEF At, mail
  <2>4. Entry(r) \in Opening /\ Entry(r).of = Email(r)
    BY <1>1 DEF Entry, Opening
  <2>5. sessions' = sessions \cup {Entry(r)}
    BY <2>1 DEF Open, Entry
  <2>6. Proven!Enter
    BY <2>1, <2>3, <2>4, <2>5
    DEF Proven!Enter, Proven!Active, Proven!people, Proven!codes, Proven!mails, mail, tables
  <2>7. QED
    BY <2>6 DEF Mapped, Proven!Next
<1>4. QED
  BY <1>2, <1>3

LEMMA DeleteMaps ==
  ASSUME NEW t \in Tables, NEW e \in Emails, DeleteExpired(t, e)
  PROVE  Mapped
<1>1. /\ pending[t][e] # NoRow
      /\ pending' = [pending EXCEPT ![t] = [@ EXCEPT ![e] = NoRow]]
      /\ UNCHANGED <<avars, mail, count, issued, tries, asking>>
  BY DEF DeleteExpired
<1>2. Underway' = Underway /\ Opening' = Opening
  BY <1>1 DEF Underway, Opening, At, Email, mail, asking
<1>3. Proven!Expire(t, e)
  BY <1>1, <1>2
  DEF Proven!Expire, Proven!SetRow, Proven!people, Proven!mails, avars, mail
<1>4. QED
  BY <1>3 DEF Mapped, Proven!Next, Proven!Tables, Tables

-----------------------------------------------------------------------------
(* The other ways to an account                                            *)

(* An intent that a visit has locked counts, and is used up. *)
LEMMA UsesIntent ==
  ASSUME IInv, NEW v \in Visits, Locking(v), ~ For(v, "BOOTSTRAP"), Use(v),
         UNCHANGED <<mail, tables, asking>>
  PROVE  /\ errand[v].intent \in Intents /\ Subject(v) \in Subjects
         /\ Proven!Use(errand[v].intent, errand[v].kind)
         /\ For(v, "LINK") => intent[errand[v].intent].for = errand[v].email
<1> DEFINE i == errand[v].intent
<1>1. i \in Intents /\ Subject(v) \in Subjects
  BY ErrandType DEF IInv, AccountsInv, Locking, Subject
<1>2. Usable(v)
  BY DEF IInv, AccountsInv, IntentHeld
<1>3. Underway' = Underway /\ Opening' = Opening
  BY DEF Underway, Opening, At, Email, mail, asking
<1>4. Proven!Use(i, errand[v].kind)
  BY <1>2, <1>3 DEF Proven!Use, Proven!codes, Proven!mails, Usable, Use, mail, tables
<1>5. QED
  BY <1>1, <1>2, <1>4 DEF Usable

LEMMA LoginMaps ==
  ASSUME IInv, NEW v \in Visits, UNCHANGED <<mail, tables, asking>>,
         CompleteOAuthLogin(v) \/ InsertOAuthCustomer(v), Use(v)
  PROVE  Mapped
<1> DEFINE i == errand[v].intent
           s == Subject(v)
           e == EmailOf[s]
<1>1. Locking(v) /\ For(v, "LOGIN") /\ ~ For(v, "BOOTSTRAP")
  BY DEF CompleteOAuthLogin, InsertOAuthCustomer, On, Locking, For
<1>2. i \in Intents /\ s \in Subjects /\ Proven!Use(i, "LOGIN")
  BY <1>1, UsesIntent DEF For
<1>3. CASE /\ google[s] # NoEmail
           /\ account[google[s]].active /\ MayEnter(google[s])
           /\ Open(v, google[s])
           /\ UNCHANGED <<account, google>>
  <2>1. Proven!Login(v, i, s)
    BY <1>2, <1>3
    DEF Proven!Login, Proven!Active, Proven!MayEnter, MayEnter, Open, Proven!people
  <2>2. QED
    BY <1>2, <2>1 DEF Mapped, Proven!Next
<1>4. CASE /\ google[s] = NoEmail /\ Exists(e)
           /\ UNCHANGED <<account, google, sessions>>
  <2>1. Proven!LinkRequired(i, s)
    BY <1>2, <1>4 DEF Proven!LinkRequired, Proven!Exists, Exists, Proven!people
  <2>2. QED
    BY <1>2, <2>1 DEF Mapped, Proven!Next
<1>5. CASE /\ google[s] = NoEmail /\ ~ Exists(e)
           /\ account' = [account EXCEPT ![e] = NewAccount("CUSTOMER", NoPassword, FALSE)]
           /\ google' = [google EXCEPT ![s] = e]
           /\ Open(v, e)
  <2>1. Proven!LoginAnew(v, i, s)
    BY <1>2, <1>5
    DEF Proven!LoginAnew, Proven!Exists, Exists, Proven!Add, Proven!NewAccount, NewAccount,
        Open
  <2>2. QED
    BY <1>2, <2>1 DEF Mapped, Proven!Next
<1>6. CASE UNCHANGED <<account, google, intent, sessions>>
  <2>1. UNCHANGED seen /\ Underway' = Underway /\ Opening' = Opening
    BY <1>6 DEF seen, Underway, Opening, At, Email, mail, tables, asking
  <2>2. QED
    BY <2>1, Stutters
<1>7. QED
  BY <1>3, <1>4, <1>5, <1>6 DEF CompleteOAuthLogin, InsertOAuthCustomer, Rejected

LEMMA LinkMaps ==
  ASSUME IInv, NEW v \in Visits, UNCHANGED <<mail, tables, asking>>,
         CompleteOAuthLink(v), Use(v), UNCHANGED <<account, sessions>>,
         LET e == errand[v].email IN
         /\ account[e].active /\ google[Subject(v)] = NoEmail
         /\ \A g \in Subjects : google[g] # e
         /\ google' = [google EXCEPT ![Subject(v)] = e]
  PROVE  Mapped
<1> DEFINE i == errand[v].intent
<1>1. Locking(v) /\ For(v, "LINK") /\ ~ For(v, "BOOTSTRAP")
  BY DEF CompleteOAuthLink, On, Locking, For
<1>2. /\ i \in Intents /\ Subject(v) \in Subjects /\ Proven!Use(i, "LINK")
      /\ intent[i].for = errand[v].email
  BY <1>1, UsesIntent DEF For
<1>3. Proven!Link(i, Subject(v))
  BY <1>2 DEF Proven!Link, Proven!Active
<1>4. QED
  BY <1>2, <1>3 DEF Mapped, Proven!Next

LEMMA AccountsStepMaps ==
  ASSUME IInv, AccountsNext, UNCHANGED <<mail, tables, asking>>
  PROVE  Mapped
<1>1. Underway' = Underway /\ Opening' = Opening
  BY DEF Underway, Opening, At, Email, mail, asking
<1>2. UNCHANGED <<mailbox, pending, count, issued>>
  BY DEF mail, tables
<1>3. CASE UNCHANGED <<account, google, intent, sessions>>
  BY <1>1, <1>2, <1>3, Stutters DEF seen
<1>4. ASSUME NEW v \in Visits, VisitStep(v) PROVE Mapped
  <2>1. CASE CompleteOAuthLogin(v) \/ InsertOAuthCustomer(v)
    <3>1. Use(v) \/ UNCHANGED <<account, google, intent, sessions>>
      BY <2>1 DEF CompleteOAuthLogin, InsertOAuthCustomer, Rejected
    <3>2. QED
      BY <1>3, <2>1, <3>1, LoginMaps
  <2>2. CASE CompleteOAuthLink(v)
    <3>1. CASE Rejected(v, "REFUSED")
      BY <1>3, <3>1 DEF Rejected
    <3>2. CASE ~ Rejected(v, "REFUSED")
      BY <2>2, <3>2, LinkMaps DEF CompleteOAuthLink
    <3>3. QED
      BY <3>1, <3>2
  <2>3. CASE InsertAdmin(v)
    <3> DEFINE e == errand[v].email
    <3>1. CASE Rejected(v, "ERROR")
      BY <1>3, <3>1 DEF Rejected
    <3>2. CASE ~ Rejected(v, "ERROR")
      <4>1. /\ ~ Exists(e)
            /\ account' = [account EXCEPT ![e] = NewAccount("ADMIN", v, FALSE)]
            /\ UNCHANGED <<google, intent, sessions>>
            /\ step[v] = "insert" /\ For(v, "BOOTSTRAP")
        BY <2>3, <3>2 DEF InsertAdmin, On
      <4>2. e \in Emails /\ Admins = {}
        BY <4>1, ErrandType DEF IInv, AccountsInv, NoAdminYet
      <4>3. Proven!Bootstrap(v, e)
        BY <1>1, <1>2, <4>1, <4>2
        DEF Proven!Bootstrap, Proven!Admins, Admins, Proven!Exists, Exists, Proven!Add,
            Proven!NewAccount, NewAccount, Proven!codes, Proven!mails
      <4>4. QED
        BY <4>2, <4>3 DEF Mapped, Proven!Next
    <3>3. QED
      BY <3>1, <3>2
  <2>4. CASE \/ FindOAuthIntent(v) \/ LockIntent(v) \/ LockBootstrap(v)
             \/ BootstrapAdmin(v)
    BY <1>3, <2>4 DEF FindOAuthIntent, LockIntent, LockBootstrap, BootstrapAdmin
  <2>5. QED
    BY <1>4, <2>1, <2>2, <2>3, <2>4 DEF VisitStep
<1>5. ASSUME NEW i \in Intents, BeginOAuth(i) PROVE Mapped
  <2>1. /\ intent[i] = NoIntent
        /\ UNCHANGED <<account, google, sessions>>
    BY <1>5 DEF BeginOAuth
  <2>2. PICK purpose \in Purposes, e \in Emails \cup {NoEmail} :
          /\ (e = NoEmail) <=> (purpose = "LOGIN")
          /\ Authorized([kind |-> purpose, email |-> e])
          /\ intent' = [intent EXCEPT ![i] =
                          [purpose |-> purpose, for |-> e, open |-> TRUE]]
    BY <1>5 DEF BeginOAuth
  <2>3. CASE purpose = "LOGIN"
    <3>1. Proven!BeginLogin(i)
      BY <1>1, <1>2, <2>1, <2>2, <2>3
      DEF Proven!BeginLogin, Proven!people, Proven!codes, Proven!mails
    <3>2. QED
      BY <3>1 DEF Mapped, Proven!Next
  <2>4. CASE purpose = "LINK"
    <3>1. /\ e \in Emails /\ Exists(e)
          /\ account[e].active /\ MayEnter(e) /\ ~ account[e].mustChange
      BY <2>2, <2>4 DEF Authorized
    <3>2. Proven!BeginLink(i, e)
      BY <1>1, <1>2, <2>1, <2>2, <2>4, <3>1
      DEF Proven!BeginLink, Proven!Exists, Exists, Proven!Active, Proven!MayEnter, MayEnter,
          Proven!people, Proven!codes, Proven!mails
    <3>3. QED
      BY <3>1, <3>2 DEF Mapped, Proven!Next
  <2>5. QED
    BY <2>3, <2>4 DEF Purposes
<1>6. ASSUME NEW e \in Emails, DisableUser(e) PROVE Mapped
  <2>1. Proven!Disable(e)
    BY <1>1, <1>2, <1>6
    DEF DisableUser, Proven!Disable, Proven!Admins, Admins, Proven!Exists, Exists,
        Proven!Active, Proven!codes, Proven!mails
  <2>2. QED
    BY <2>1 DEF Mapped, Proven!Next
<1>7. CASE \E v \in Visits : Visit(v) \/ FailVisit(v)
  BY <1>3, <1>7 DEF Visit, FailVisit, Rejected
<1>8. QED
  BY <1>4, <1>5, <1>6, <1>7 DEF AccountsNext

-----------------------------------------------------------------------------
(* All steps                                                               *)

LEMMA RequestMaps ==
  ASSUME IInv, OwnersStay, NEW r \in Requests, Call(r) \/ Step(r) \/ Victim(r) \/ Fail(r)
  PROVE  Mapped
<1>1. CASE \E a : Refuse(r, a)
  BY <1>1, RefuseMaps
<1>2. CASE Call(r)
  <2>1. Moves(r) /\ pc'[r] = "lock" /\ At(r, "idle")
    BY <1>2 DEF Call, IInv, Asked, RequestTypes, Moves, At
  <2>2. QED
    BY <1>2, <2>1, MoveMaps DEF Call, At
<1>3. CASE Count(r) \/ LookForOwner(r) \/ LockForResend(r)
  <2>1. CASE ~ \E a : Refuse(r, a)
    <3>1. PICK p \in {"look", "write"} : pc' = [pc EXCEPT ![r] = p]
      BY <1>3, <2>1 DEF Count, LookForOwner, LockForResend, Goto
    <3>2. /\ ask' = ask /\ UNCHANGED <<avars, mail, tables>>
          /\ ~ At(r, "mail") /\ ~ At(r, "session")
      BY <1>3, <2>1 DEF Count, LookForOwner, LockForResend, Goto, At
    <3>3. Moves(r) /\ pc'[r] = p
      BY <3>1, <3>2, PcOf DEF PCs
    <3>4. QED
      BY <3>2, <3>3, MoveMaps
  <2>2. QED
    BY <1>1, <2>1
<1>4. CASE RepeatVerifyCashier(r) \/ Victim(r) \/ Fail(r)
  BY <1>1, <1>4 DEF RepeatVerifyCashier, Victim, Fail
<1>5. QED
  BY <1>2, <1>3, <1>4, BeginMaps, MailMaps, ResendMaps, LockForVerifyMaps,
     VerifyRegistrationMaps, CreateSessionMaps, CashierMaps DEF Step

LEMMA NextMaps == IInv /\ OwnersStay /\ [Next]_vars => [Proven!Next]_Proven!vars
<1> SUFFICES ASSUME IInv, OwnersStay, [Next]_vars PROVE Mapped
  BY DEF Mapped
<1>1. CASE UNCHANGED vars
  <2>1. UNCHANGED seen /\ Underway' = Underway /\ Opening' = Opening
    BY <1>1 DEF vars, seen, Underway, Opening, At, Email, avars, mail, tables, asking
  <2>2. QED
    BY <2>1, Stutters
<1>2. QED
  BY <1>1, RequestMaps, DeleteMaps, AccountsStepMaps, MailingMaps DEF Next

LEMMA InitMaps == Init => Proven!Init
<1> SUFFICES ASSUME Init PROVE Proven!Init
  OBVIOUS
<1>1. Underway = {} /\ Opening = {}
  BY DEF Init, Underway, Opening, At
<1>2. QED
  BY <1>1 DEF Init, AccountsInit, Proven!Init

(* However requests and visits interleave, what they do to the accounts is  *)
(* what ProvenAccounts does in one step each, or nothing: no account is     *)
(* opened without a proof that counts then, and no proof is used twice.     *)
THEOREM ImplementsProven == Spec => ProvenSpec
<1>1. IInv /\ OwnersStay /\ [Next]_vars => OwnersStay'
  BY OwnersKeep
<1>2. Spec => []OwnersStay
  BY <1>1, Invariance, OwnersStart, PTL DEF Spec
<1>3. QED
  BY <1>2, Invariance, InitMaps, NextMaps, PTL DEF Spec, ProvenSpec, Proven!Spec

=============================================================================
