----------------------------- MODULE Sessions_proofs -----------------------------
(***************************************************************************)
(* Proofs about Sessions for every set of requests, passwords and asked    *)
(* operations.                                                             *)
(***************************************************************************)
EXTENDS Sessions, TLAPS

-----------------------------------------------------------------------------
(* The inductive invariant                                                 *)

(* Where a request is tells what it is, what it holds and what it has done. *)
Phases ==
  \A r \in Requests :
    /\ At(r, "idle") <=> ask[r] = NoAsk
    /\ At(r, "idle") => hash.by # r
    /\ ~ At(r, "idle") => Token(r) \in sessions
    /\ ~ At(r, "lock") => locks[r] = {}
    /\ ~ At(r, "done") => r \notin sessions
    /\ At(r, "authenticate") => ask[r].kind \in {"logout", "change"}
    /\ At(r, "verify") => ask[r].kind \in {"login", "change"}
    /\ At(r, "rehash") => Is(r, "login")
    /\ At(r, "revoke") => Is(r, "logout")
    /\ At(r, "lock") /\ Is(r, "change") => read[r].word = ask[r].word

Exclusive == \A q, r \in Requests : q # r => locks[q] \cap locks[r] = {}

(* A family, also one that has ended, is named for a session that exists.   *)
Rooted ==
  /\ \A s \in sessions : family[s] \in sessions
  /\ ended \subseteq sessions

(* As long as a transaction has the account, nobody adds a session to those *)
(* that it is about to revoke, or revives the account that it disables.     *)
Covers ==
  \A r \in Requests : At(r, "lock") /\ Account \in locks[r] /\ ~ Is(r, "logout") =>
    /\ \A s \in seen[r], t \in Live : family[t] = family[s] => t \in seen[r]
    /\ Is(r, "disable") /\ status = "ACTIVE" => Live \subseteq seen[r]

IInv ==
  /\ TypeOK
  /\ EndedFamilies
  /\ DisabledHasNone
  /\ OneLive
  /\ TemporaryIsReplaced
  /\ Phases
  /\ Exclusive
  /\ Rooted
  /\ Covers

(* What the store and the account owe to the invariant.                     *)
Stored ==
  /\ status \in {"ACTIVE", "DISABLED"}
  /\ hash \in Hashes
  /\ mustChange \in BOOLEAN
  /\ sessions \subseteq Ids
  /\ family \in [Ids -> Ids]
  /\ revoked \subseteq sessions
  /\ consumed \subseteq revoked
  /\ ended \subseteq Ids
  /\ loggedOut \subseteq Ids
  /\ EndedFamilies
  /\ DisabledHasNone
  /\ OneLive
  /\ Rooted

(* And what the requests owe to it.                                         *)
Kept ==
  /\ ask \in [Requests -> Asks \cup {NoAsk}]
  /\ answer \in [Requests -> Answers \cup {NoAnswer}]
  /\ pc \in [Requests -> {"idle", "authenticate", "verify", "rehash", "revoke",
                          "lock", "done"}]
  /\ read \in [Requests -> Hashes]
  /\ seen \in [Requests -> SUBSET sessions]
  /\ locks \in [Requests -> SUBSET Rows]
  /\ Phases
  /\ Exclusive
  /\ Covers

LEMMA Parts == IInv <=> Stored /\ Kept /\ TemporaryIsReplaced
BY DEF IInv, TypeOK, Stored, Kept

-----------------------------------------------------------------------------
(* Asked, and ready                                                        *)

LEMMA AskType ==
  ASSUME Kept, NEW r \in Requests, ~ At(r, "idle")
  PROVE  /\ ask[r] \in Asks
         /\ ask[r].kind \in Kinds
         /\ ask[r].word \in Words
         /\ ask[r].new \in Words
         /\ Token(r) \in sessions
<1>1. ask[r] \in Asks
  BY DEF Kept, Phases
<1>2. QED
  BY <1>1, SessionsAssumption DEF Kept, Phases

(* A transaction that has all its locks has the account. *)
LEMMA ReadyHolds ==
  ASSUME Kept, NEW r \in Requests, Ready(r)
  PROVE  /\ At(r, "lock")
         /\ ~ At(r, "idle")
         /\ Account \in locks[r]
         /\ r \in Ids
         /\ r \notin sessions
BY DEF Kept, Ready, Wanted, Phases, At, Ids

-----------------------------------------------------------------------------
(* The requests                                                            *)

(* Steps that leave the account and the sessions alone. *)
LEMMA CallKeeps ==
  ASSUME Stored, Kept, NEW r \in Requests, Call(r)
  PROVE  Kept'
<1> USE DEF At
<1>1. PICK m \in Asks :
        /\ m.session \in sessions
        /\ ask' = [ask EXCEPT ![r] = m]
        /\ Goto(r, CASE m.kind = "login" -> "verify"
                     [] m.kind \in {"logout", "change"} -> "authenticate"
                     [] OTHER -> "lock")
  BY DEF Call
<1>2. /\ pc[r] = "idle"
      /\ UNCHANGED <<account, store, answer, read, seen, locks>>
  BY DEF Call
<1>3. /\ pc'[r] \in {"verify", "authenticate", "lock"}
      /\ pc'[r] = "verify" => m.kind = "login"
      /\ pc'[r] = "authenticate" => m.kind \in {"logout", "change"}
      /\ pc'[r] = "lock" => m.kind # "change"
      /\ pc' = [pc EXCEPT ![r] = pc'[r]]
  BY <1>1 DEF Goto, Kept
<1>4. /\ ask' \in [Requests -> Asks \cup {NoAsk}]
      /\ pc' \in [Requests -> {"idle", "authenticate", "verify", "rehash", "revoke",
                               "lock", "done"}]
  BY <1>1, <1>3 DEF Kept
<1>5. Phases'
  BY <1>1, <1>2, <1>3, SessionsAssumption
  DEF Kept, Phases, Is, Token, store, account
<1>6. Covers'
  <2>1. locks[r] = {}
    BY <1>2 DEF Kept, Phases
  <2>2. \A q \in Requests : q # r => ask'[q] = ask[q] /\ pc'[q] = pc[q]
    BY <1>1, <1>3 DEF Kept
  <2>3. QED
    BY <1>2, <2>1, <2>2 DEF Kept, Covers, Is, Live, store, account
<1>7. QED
  BY <1>2, <1>4, <1>5, <1>6 DEF Kept, Exclusive, store

LEMMA ReadsKeep ==
  ASSUME Stored, Kept, NEW r \in Requests,
         Authenticate(r) \/ Verify(r) \/ Look(r)
  PROVE  Kept'
<1> USE DEF At
<1>1. /\ pc[r] \in {"authenticate", "verify", "revoke"}
      /\ UNCHANGED <<account, store, ask, locks>>
      /\ pc' = [pc EXCEPT ![r] = pc'[r]]
      /\ pc'[r] \in {"revoke", "verify", "rehash", "lock", "done"}
  BY DEF Authenticate, Verify, Look, Goto, Reply, Kept
<1>2. locks[r] = {} /\ r \notin sessions
  BY <1>1 DEF Kept, Phases
<1>3. \A q \in Requests : q # r =>
        /\ pc'[q] = pc[q]
        /\ read'[q] = read[q]
        /\ seen'[q] = seen[q]
  BY <1>1 DEF Kept, Authenticate, Verify, Look
<1>4. /\ answer' \in [Requests -> Answers \cup {NoAnswer}]
      /\ read' \in [Requests -> Hashes]
      /\ seen' \in [Requests -> SUBSET sessions]
  BY DEF Kept, Stored, Authenticate, Verify, Look, Reply, Answers, Family
<1>5. /\ pc'[r] = "verify" => ask[r].kind \in {"login", "change"}
      /\ pc'[r] = "rehash" => Is(r, "login")
      /\ pc'[r] = "revoke" => Is(r, "logout")
      /\ pc'[r] = "lock" /\ Is(r, "change") => read'[r].word = ask[r].word
  BY DEF Kept, Phases, Authenticate, Verify, Matches, Look, Goto, Reply, Is
<1>6. Phases'
  BY <1>1, <1>2, <1>3, <1>5 DEF Kept, Phases, Is, Token, store, account
<1>7. Covers'
  BY <1>1, <1>2, <1>3 DEF Kept, Covers, Is, Live, store, account
<1>8. pc' \in [Requests -> {"idle", "authenticate", "verify", "rehash", "revoke",
                            "lock", "done"}]
  BY <1>1 DEF Kept
<1>9. QED
  BY <1>1, <1>4, <1>6, <1>7, <1>8 DEF Kept, Exclusive, store

LEMMA LockRowKeeps ==
  ASSUME Stored, Kept, NEW r \in Requests, LockRow(r)
  PROVE  Kept'
<1> USE DEF At
<1>1. PICK row \in Wanted(r) :
        /\ Free(row)
        /\ locks' = [locks EXCEPT ![r] = @ \cup {row}]
        /\ seen' = IF row = Account /\ ~ Is(r, "logout")
                   THEN [seen EXCEPT ![r] = Touched(r)]
                   ELSE seen
  BY DEF LockRow
<1>2. pc[r] = "lock" /\ UNCHANGED <<account, store, ask, answer, pc, read>>
  BY DEF LockRow
<1>3. Token(r) \in sessions
  BY <1>2, AskType
<1>4. Touched(r) \subseteq sessions
  BY DEF Touched, Family, Live
<1>5. row \in Rows
  <2>1. FirstRows(r) \subseteq Rows /\ seen[r] \subseteq Rows
    BY <1>3 DEF FirstRows, Kept, Stored, Rows
  <2>2. QED
    BY <2>1 DEF Wanted, Rows
<1>6. /\ locks' \in [Requests -> SUBSET Rows]
      /\ seen' \in [Requests -> SUBSET sessions]
  BY <1>1, <1>4, <1>5 DEF Kept
<1>7. Phases'
  BY <1>1, <1>2 DEF Kept, Phases, Is, Token, store, account
<1>8. Exclusive'
  BY <1>1 DEF Kept, Exclusive, Free
<1>9. Covers'
  <2> SUFFICES ASSUME NEW q \in Requests,
                      pc[q] = "lock", Account \in locks'[q], ~ Is(q, "logout")
               PROVE  /\ \A s \in seen'[q], t \in Live :
                           family[t] = family[s] => t \in seen'[q]
                      /\ Is(q, "disable") /\ status = "ACTIVE" => Live \subseteq seen'[q]
    BY <1>2 DEF Covers, Is, Live, store, account
  <2>1. CASE q = r /\ row = Account
    <3>1. seen'[r] = Touched(r)
      BY <1>1, <2>1 DEF Kept
    <3>2. \A s \in Touched(r), t \in Live : family[t] = family[s] => t \in Touched(r)
      BY DEF Touched, Family, Live
    <3>3. Is(r, "disable") /\ status = "ACTIVE" => Touched(r) = Live
      BY DEF Touched, Is
    <3>4. QED
      BY <2>1, <3>1, <3>2, <3>3
  <2>2. CASE ~ (q = r /\ row = Account)
    <3>1. Account \in locks[q] /\ seen'[q] = seen[q]
      BY <1>1, <2>2 DEF Kept
    <3>2. QED
      BY <3>1 DEF Kept, Covers
  <2>3. QED
    BY <2>1, <2>2
<1>10. QED
  BY <1>2, <1>6, <1>7, <1>8, <1>9 DEF Kept, store

LEMMA AbortKeeps ==
  ASSUME Stored, Kept, NEW r \in Requests, pc[r] \notin {"idle", "done"}, Abort(r)
  PROVE  Kept'
<1> USE DEF At
<1>1. /\ answer' = [answer EXCEPT ![r] = "ERROR"]
      /\ pc' = [pc EXCEPT ![r] = "done"]
      /\ locks' = [locks EXCEPT ![r] = {}]
      /\ UNCHANGED <<account, store, ask, read, seen>>
  BY DEF Abort, Reply, Goto
<1>2. Phases'
  BY <1>1 DEF Kept, Phases, Is, Token, store, account
<1>3. Covers'
  BY <1>1 DEF Kept, Covers, Is, Live, store, account
<1>4. QED
  BY <1>1, <1>2, <1>3 DEF Kept, Exclusive, Answers, store

LEMMA RehashKeeps ==
  ASSUME Stored, Kept, NEW r \in Requests, Rehash(r)
  PROVE  Kept' /\ hash' \in Hashes /\ hash'.by = r /\ Is(r, "login")
<1> USE DEF At
<1>1. /\ pc[r] = "rehash"
      /\ hash' = [word |-> ask[r].word, by |-> r]
      /\ pc' = [pc EXCEPT ![r] = "lock"]
      /\ UNCHANGED <<status, mustChange, store, ask, answer, read, seen, locks>>
  BY DEF Rehash, Goto
<1>2. Is(r, "login") /\ locks[r] = {} /\ r \notin sessions
  BY <1>1 DEF Kept, Phases
<1>3. hash' \in Hashes
  BY <1>1, AskType DEF Hashes, Ids
<1>4. Phases'
  BY <1>1, <1>2 DEF Kept, Phases, Is, Token, store
<1>5. Covers'
  BY <1>1, <1>2 DEF Kept, Covers, Is, Live, store
<1>6. pc' \in [Requests -> {"idle", "authenticate", "verify", "rehash", "revoke",
                            "lock", "done"}]
  BY <1>1 DEF Kept
<1>7. QED
  BY <1>1, <1>2, <1>3, <1>4, <1>5, <1>6 DEF Kept, Exclusive, store

(* The end of a transaction that had the account: nobody has it any more. *)
LEMMA EndKeeps ==
  ASSUME Stored, Kept, NEW r \in Requests, Ready(r), NEW a \in Answers, End(r, a),
         UNCHANGED <<ask, read, seen>>,
         sessions \subseteq sessions', sessions' \subseteq sessions \cup {r},
         hash' = hash \/ hash'.by = r
  PROVE  Kept'
<1> USE DEF At
<1>1. /\ pc' = [pc EXCEPT ![r] = "done"]
      /\ locks' = [locks EXCEPT ![r] = {}]
      /\ answer' \in [Requests -> Answers \cup {NoAnswer}]
  BY DEF End, Reply, Goto, Kept, Answers
<1>2. pc[r] = "lock" /\ Account \in locks[r]
  BY ReadyHolds
<1>3. Phases'
  BY <1>1, <1>2 DEF Kept, Phases, Is, Token
<1>4. \A q \in Requests : Account \notin locks'[q]
  BY <1>1, <1>2 DEF Kept, Exclusive
<1>5. Covers'
  BY <1>4 DEF Covers
<1>6. Exclusive'
  BY <1>1 DEF Kept, Exclusive
<1>7. /\ seen' \in [Requests -> SUBSET sessions']
      /\ locks' \in [Requests -> SUBSET Rows]
      /\ pc' \in [Requests -> {"idle", "authenticate", "verify", "rehash", "revoke",
                               "lock", "done"}]
  BY <1>1 DEF Kept
<1>8. QED
  BY <1>1, <1>3, <1>5, <1>6, <1>7 DEF Kept

-----------------------------------------------------------------------------
(* The account and its sessions                                            *)

(* A new session, of a new family or of its parent's. *)
LEMMA OpenStores ==
  ASSUME Stored, NEW r \in Ids \ sessions, status = "ACTIVE",
         NEW f, NEW parents, Open(r, f, parents),
         \/ f = r /\ parents = {}
         \/ \E s \in Live : f = family[s] /\ parents = {s}
  PROVE  Stored'
<1>1. /\ sessions' = sessions \cup {r}
      /\ family' = [family EXCEPT ![r] = f]
      /\ consumed' = consumed \cup parents
      /\ revoked' = revoked \cup parents
      /\ UNCHANGED <<status, hash, mustChange, ended, loggedOut>>
  BY DEF Open, account
<1>2. f \in Ids /\ parents \subseteq Live
  BY DEF Stored, Live
<1>3. \A s \in sessions : family'[s] = family[s]
  BY <1>1 DEF Stored
<1>4. family'[r] = f
  BY <1>1 DEF Stored
<1>5. Live' = (Live \ parents) \cup {r}
  BY <1>1, <1>2 DEF Live, Stored
<1>6. \A s \in Live \ parents : family[s] # f
  <2>1. CASE f = r
    BY <2>1 DEF Stored, Rooted, Live
  <2>2. CASE \E s \in Live : f = family[s] /\ parents = {s}
    BY <2>2 DEF Stored, OneLive
  <2>3. QED
    BY <2>1, <2>2
<1>7. f \notin ended
  BY DEF Stored, Rooted, EndedFamilies
<1>8. EndedFamilies'
  BY <1>1, <1>3, <1>4, <1>5, <1>7 DEF Stored, EndedFamilies, Live
<1>9. OneLive'
  BY <1>3, <1>4, <1>5, <1>6 DEF Stored, OneLive, Live
<1>10. Rooted'
  BY <1>1, <1>3, <1>4 DEF Stored, Rooted, Live
<1>11. DisabledHasNone'
  BY <1>1 DEF DisabledHasNone
<1>12. family' \in [Ids -> Ids]
  BY <1>1, <1>2 DEF Stored
<1>13. QED
  BY <1>1, <1>2, <1>8, <1>9, <1>10, <1>11, <1>12 DEF Stored, Live

(* Whole families are revoked, and all of them with the account. *)
LEMMA RevokeStores ==
  ASSUME Stored, NEW S \in SUBSET sessions, RevokeAll(S),
         \A s \in S, t \in Live : family[t] = family[s] => t \in S,
         status' \in {"ACTIVE", "DISABLED"},
         status' = "DISABLED" => status = "DISABLED" \/ Live \subseteq S,
         hash' \in Hashes, mustChange' \in BOOLEAN
  PROVE  Stored'
<1>1. /\ revoked' = revoked \cup S
      /\ ended' = ended \cup {family[s] : s \in S}
      /\ UNCHANGED <<sessions, family, consumed, loggedOut>>
  BY DEF RevokeAll
<1>2. Live' = Live \ S
  BY <1>1 DEF Live
<1>3. \A s \in S : family[s] \in sessions
  BY DEF Stored, Rooted
<1>4. EndedFamilies'
  BY <1>1, <1>2 DEF Stored, EndedFamilies, Live
<1>5. OneLive'
  BY <1>1, <1>2 DEF Stored, OneLive, Live
<1>6. Rooted'
  BY <1>1, <1>3 DEF Stored, Rooted
<1>7. DisabledHasNone'
  BY <1>2 DEF Stored, DisabledHasNone
<1>8. QED
  BY <1>1, <1>3, <1>4, <1>5, <1>6, <1>7 DEF Stored

(* What a transaction that is ready has to revoke. *)
LEMMA ReadyCovers ==
  ASSUME Kept, NEW r \in Requests, Ready(r), ~ Is(r, "logout")
  PROVE  /\ seen[r] \in SUBSET sessions
         /\ \A s \in seen[r], t \in Live : family[t] = family[s] => t \in seen[r]
         /\ Is(r, "disable") /\ status = "ACTIVE" => Live \subseteq seen[r]
BY ReadyHolds DEF Kept, Covers

(* A logout revokes what it has seen, and no more can be said of it. *)
LEMMA RevokeFamilyStores ==
  ASSUME Stored, Kept, NEW r \in Requests, RevokeFamily(r)
  PROVE  Stored' /\ sessions' = sessions /\ hash' = hash /\ mustChange' = mustChange
<1>1. /\ revoked' = revoked \cup seen[r]
      /\ loggedOut' = loggedOut \cup {family[Token(r)]}
      /\ UNCHANGED <<status, hash, mustChange, sessions, family, consumed, ended>>
  BY DEF RevokeFamily, account
<1>2. seen[r] \subseteq sessions /\ family[Token(r)] \in Ids
  BY AskType, ReadyHolds DEF RevokeFamily, Kept, Stored
<1>3. Live' = Live \ seen[r]
  BY <1>1 DEF Live
<1>4. QED
  BY <1>1, <1>2, <1>3
  DEF Stored, EndedFamilies, DisabledHasNone, OneLive, Rooted

(* A refused transaction changes nothing but its request. *)
LEMMA RefuseKeeps ==
  ASSUME Stored, Kept, NEW r \in Requests, Ready(r), Refuse(r),
         UNCHANGED <<ask, read, seen>>
  PROVE  Stored' /\ Kept' /\ hash' = hash /\ mustChange' = mustChange
<1>1. End(r, "REFUSED") /\ UNCHANGED <<account, store>>
  BY DEF Refuse
<1>2. Kept'
  BY <1>1, EndKeeps DEF Answers, account, store
<1>3. QED
  BY <1>1, <1>2
  DEF account, store, Stored, EndedFamilies, DisabledHasNone, OneLive, Rooted, Live

LEMMA SessionStepsKeep ==
  ASSUME Stored, Kept, NEW r \in Requests,
         CreateSession(r) \/ RotateRefresh(r) \/ RevokeFamily(r)
  PROVE  Stored' /\ Kept' /\ hash' = hash /\ mustChange' = mustChange /\ ask' = ask
<1>1. CASE CreateSession(r)
  <2>1. Ready(r) /\ UNCHANGED <<ask, read, seen>>
    BY <1>1 DEF CreateSession
  <2>2. CASE status = "ACTIVE" /\ Open(r, r, {}) /\ End(r, "OK")
    <3>1. Stored'
      BY <2>1, <2>2, ReadyHolds, OpenStores
    <3>2. Kept'
      BY <2>1, <2>2, EndKeeps DEF Answers, Open, account
    <3>3. QED
      BY <2>1, <2>2, <3>1, <3>2 DEF Open, account
  <2>3. CASE Refuse(r)
    BY <2>1, <2>3, RefuseKeeps
  <2>4. QED
    BY <1>1, <2>2, <2>3 DEF CreateSession
<1>2. CASE RotateRefresh(r)
  <2>1. Ready(r) /\ Is(r, "refresh") /\ UNCHANGED <<ask, read, seen>>
    BY <1>2 DEF RotateRefresh
  <2>2. CASE RevokeAll(seen[r]) /\ UNCHANGED account /\ End(r, "REUSE")
    <3>1. Stored'
      <4>1. ~ Is(r, "logout")
        BY <2>1 DEF Is
      <4>2. UNCHANGED <<status, hash, mustChange>>
        BY <2>2 DEF account
      <4>3. /\ status' \in {"ACTIVE", "DISABLED"}
            /\ status' = "DISABLED" => status = "DISABLED" \/ Live \subseteq seen[r]
            /\ hash' \in Hashes /\ mustChange' \in BOOLEAN
        BY <4>2 DEF Stored
      <4>4. QED
        BY <2>1, <2>2, <4>1, <4>3, ReadyCovers, RevokeStores
    <3>2. Kept'
      BY <2>1, <2>2, EndKeeps DEF Answers, RevokeAll, account
    <3>3. QED
      BY <2>1, <2>2, <3>1, <3>2 DEF account
  <2>3. CASE Refuse(r)
    BY <2>1, <2>3, RefuseKeeps
  <2>4. CASE /\ Token(r) \in Live \ consumed
             /\ status = "ACTIVE"
             /\ Open(r, family[Token(r)], {Token(r)})
             /\ End(r, "OK")
    <3>1. Stored'
      BY <2>1, <2>4, ReadyHolds, OpenStores
    <3>2. Kept'
      BY <2>1, <2>4, EndKeeps DEF Answers, Open, account
    <3>3. QED
      BY <2>1, <2>4, <3>1, <3>2 DEF Open, account
  <2>5. QED
    BY <1>2, <2>2, <2>3, <2>4 DEF RotateRefresh
<1>3. CASE RevokeFamily(r)
  <2>1. Ready(r) /\ End(r, "OK") /\ UNCHANGED <<ask, read, seen>>
    BY <1>3 DEF RevokeFamily
  <2>2. Kept'
    BY <1>3, <2>1, RevokeFamilyStores, EndKeeps DEF Answers
  <2>3. QED
    BY <1>3, <2>1, <2>2, RevokeFamilyStores
<1>4. QED
  BY <1>1, <1>2, <1>3

LEMMA StatusStepsKeep ==
  ASSUME Stored, Kept, NEW r \in Requests, Disable(r) \/ Restore(r)
  PROVE  Stored' /\ Kept' /\ hash' = hash /\ mustChange' = mustChange /\ ask' = ask
<1>1. CASE Disable(r)
  <2>1. /\ Ready(r) /\ Is(r, "disable") /\ ~ Is(r, "logout")
        /\ status' = "DISABLED" /\ RevokeAll(seen[r]) /\ End(r, "OK")
        /\ UNCHANGED <<hash, mustChange, ask, read, seen>>
    BY <1>1 DEF Disable, Is
  <2>2. Stored'
    BY <2>1, ReadyCovers, RevokeStores DEF Stored
  <2>3. Kept'
    BY <2>1, EndKeeps DEF Answers, RevokeAll
  <2>4. QED
    BY <2>1, <2>2, <2>3
<1>2. CASE Restore(r)
  <2>1. /\ Ready(r)
        /\ status' = "ACTIVE" /\ End(r, "OK")
        /\ UNCHANGED <<hash, mustChange, store, ask, read, seen>>
    BY <1>2 DEF Restore
  <2>2. Stored'
    BY <2>1 DEF store, Stored, EndedFamilies, DisabledHasNone, OneLive, Rooted, Live
  <2>3. Kept'
    BY <2>1, EndKeeps DEF Answers, store
  <2>4. QED
    BY <2>1, <2>2, <2>3
<1>3. QED
  BY <1>1, <1>2

(* Whoever sets the password leaves its name at it. *)
LEMMA PasswordStepsKeep ==
  ASSUME Stored, Kept, NEW r \in Requests,
         ResetPassword(r) \/ RecoverPassword(r) \/ ChangePassword(r)
  PROVE  /\ Stored' /\ Kept' /\ ask' = ask
         /\ \/ hash' = hash /\ mustChange' = mustChange
            \/ hash'.by = r /\ (Is(r, "reset") => mustChange')
         /\ hash' # hash /\ Is(r, "change") => hash.word = ask[r].word
<1>1. ASSUME Ready(r), ~ Is(r, "logout"), ~ Is(r, "disable"),
             SetPassword(r), RevokeAll(seen[r]), End(r, "OK"),
             mustChange' \in BOOLEAN,
             UNCHANGED <<status, ask, read, seen>>
      PROVE  Stored' /\ Kept' /\ hash'.by = r
  <2>1. hash' \in Hashes /\ hash'.by = r
    BY <1>1, ReadyHolds, AskType DEF SetPassword, Hashes
  <2>2. Stored'
    BY <1>1, <2>1, ReadyCovers, RevokeStores DEF Stored
  <2>3. Kept'
    BY <1>1, <2>1, EndKeeps DEF Answers, RevokeAll
  <2>4. QED
    BY <2>1, <2>2, <2>3
<1>2. CASE ResetPassword(r)
  <2>1. /\ Ready(r) /\ Is(r, "reset") /\ SetPassword(r) /\ mustChange' = TRUE
        /\ RevokeAll(seen[r]) /\ End(r, "OK")
        /\ UNCHANGED <<status, ask, read, seen>>
    BY <1>2 DEF ResetPassword
  <2>2. ~ Is(r, "logout") /\ ~ Is(r, "disable") /\ ~ Is(r, "change")
    BY <2>1 DEF Is
  <2>3. QED
    BY <1>1, <2>1, <2>2
<1>3. CASE RecoverPassword(r)
  <2>1. Ready(r) /\ Is(r, "recover") /\ UNCHANGED <<ask, read, seen>>
    BY <1>3 DEF RecoverPassword
  <2>2. ~ Is(r, "logout") /\ ~ Is(r, "disable") /\ ~ Is(r, "change") /\ ~ Is(r, "reset")
    BY <2>1 DEF Is
  <2>3. CASE Refuse(r)
    BY <2>1, <2>3, RefuseKeeps
  <2>4. CASE ~ Refuse(r)
    <3>1. /\ SetPassword(r) /\ RevokeAll(seen[r]) /\ End(r, "OK")
          /\ UNCHANGED <<status, mustChange>>
      BY <1>3, <2>4 DEF RecoverPassword
    <3>2. mustChange' \in BOOLEAN
      BY <3>1 DEF Stored
    <3>3. QED
      BY <1>1, <2>1, <2>2, <3>1, <3>2
  <2>5. QED
    BY <2>3, <2>4
<1>4. CASE ChangePassword(r)
  <2>1. Ready(r) /\ Is(r, "change") /\ UNCHANGED <<ask, read, seen>>
    BY <1>4 DEF ChangePassword
  <2>2. ~ Is(r, "logout") /\ ~ Is(r, "disable") /\ ~ Is(r, "reset")
    BY <2>1 DEF Is
  <2>3. CASE Refuse(r)
    BY <2>1, <2>3, RefuseKeeps
  <2>4. CASE ~ Refuse(r)
    <3>1. /\ Proven(r) /\ SetPassword(r) /\ mustChange' = FALSE
          /\ RevokeAll(seen[r]) /\ End(r, "OK") /\ UNCHANGED status
      BY <1>4, <2>4 DEF ChangePassword
    <3>2. hash.word = ask[r].word
      BY <2>1, <3>1, ReadyHolds DEF Proven, Kept, Phases
    <3>3. QED
      BY <1>1, <2>1, <2>2, <3>1, <3>2
  <2>5. QED
    BY <2>3, <2>4
<1>5. QED
  BY <1>2, <1>3, <1>4

-----------------------------------------------------------------------------
(* Every step                                                              *)

LEMMA InitIInv == Init => IInv
<1> SUFFICES ASSUME Init PROVE IInv
  OBVIOUS
<1>1. /\ hash \in Hashes
      /\ \A r \in Requests : hash.by # r
  BY SessionsAssumption DEF Init, Hashes, Ids
<1>2. Stored
  BY <1>1
  DEF Init, Stored, Ids, EndedFamilies, DisabledHasNone, OneLive, Rooted, Live
<1>3. Kept
  BY <1>1, SessionsAssumption
  DEF Init, Kept, Phases, At, Exclusive, Covers, Ids
<1>4. TemporaryIsReplaced
  BY <1>1 DEF TemporaryIsReplaced
<1>5. QED
  BY <1>2, <1>3, <1>4, Parts

(* What a step does to the password, as far as it concerns the invariant. *)
LEMMA StepKeeps ==
  ASSUME Stored, Kept, TemporaryIsReplaced, NEW r \in Requests,
         Call(r) \/ Step(r) \/ Victim(r) \/ Fail(r)
  PROVE  /\ Stored' /\ Kept' /\ TemporaryIsReplaced'
         /\ hash' # hash /\ Is(hash'.by, "change") => hash.word = ask[hash'.by].word
<1>1. CASE Call(r)
  <2>1. UNCHANGED <<account, store>> /\ At(r, "idle")
        /\ \A q \in Requests : q # r => ask'[q] = ask[q]
    BY <1>1 DEF Call, Kept
  <2>2. Stored'
    BY <2>1
    DEF account, store, Stored, EndedFamilies, DisabledHasNone, OneLive, Rooted, Live
  <2>3. hash.by # r
    BY <2>1 DEF Kept, Phases
  <2>4. TemporaryIsReplaced'
    BY <2>1, <2>3 DEF TemporaryIsReplaced, Is, account
  <2>5. QED
    BY <1>1, <2>1, <2>2, <2>4, CallKeeps DEF account
<1>2. CASE \/ Authenticate(r) \/ Verify(r) \/ Look(r) \/ LockRow(r)
           \/ Victim(r) \/ Fail(r)
  <2>1. UNCHANGED <<account, store, ask>>
    BY <1>2
    DEF Authenticate, Verify, Look, LockRow, Victim, Fail, Abort
  <2>2. Stored'
    BY <2>1
    DEF account, store, Stored, EndedFamilies, DisabledHasNone, OneLive, Rooted, Live
  <2>3. TemporaryIsReplaced'
    BY <2>1 DEF TemporaryIsReplaced, Is, account
  <2>4. Kept'
    BY <1>2, ReadsKeep, LockRowKeeps, AbortKeeps DEF Victim, Fail, At
  <2>5. QED
    BY <2>1, <2>2, <2>3, <2>4 DEF account
<1>3. CASE Rehash(r)
  <2>1. /\ Kept' /\ hash' \in Hashes /\ hash'.by = r /\ Is(r, "login")
        /\ UNCHANGED <<status, mustChange, store, ask>>
    BY <1>3, RehashKeeps DEF Rehash
  <2>2. Stored'
    BY <2>1 DEF store, Stored, EndedFamilies, DisabledHasNone, OneLive, Rooted, Live
  <2>3. QED
    BY <2>1, <2>2 DEF TemporaryIsReplaced, Is
<1>4. CASE \/ CreateSession(r) \/ RotateRefresh(r) \/ RevokeFamily(r)
           \/ Disable(r) \/ Restore(r)
  BY <1>4, SessionStepsKeep, StatusStepsKeep DEF TemporaryIsReplaced, Is
<1>5. CASE ResetPassword(r) \/ RecoverPassword(r) \/ ChangePassword(r)
  <2>1. /\ Stored' /\ Kept' /\ ask' = ask
        /\ \/ hash' = hash /\ mustChange' = mustChange
           \/ hash'.by = r /\ (Is(r, "reset") => mustChange')
        /\ hash' # hash /\ Is(r, "change") => hash.word = ask[r].word
    BY <1>5, PasswordStepsKeep
  <2>2. QED
    BY <2>1 DEF TemporaryIsReplaced, Is
<1>6. QED
  BY <1>1, <1>2, <1>3, <1>4, <1>5 DEF Step

LEMMA NextIInv == IInv /\ [Next]_vars => IInv'
<1> SUFFICES ASSUME IInv, [Next]_vars PROVE IInv'
  OBVIOUS
<1>1. CASE Next
  BY <1>1, Parts, StepKeeps DEF Next, IInv, Stored, Kept, TypeOK
<1>2. CASE UNCHANGED vars
  BY <1>2
  DEF vars, account, store, IInv, TypeOK, EndedFamilies, DisabledHasNone, OneLive,
      TemporaryIsReplaced, Phases, Exclusive, Rooted, Covers, Live, At, Is, Token
<1>3. QED
  BY <1>1, <1>2

-----------------------------------------------------------------------------
(* The theorems                                                            *)

THEOREM Invariance == Spec => []IInv
BY InitIInv, NextIInv, PTL DEF Spec

(* The state keeps its types: a token that was exchanged is revoked, and    *)
(* what is revoked exists.                                                  *)
THEOREM SessionsTypeCorrect == Spec => []TypeOK
BY Invariance, PTL DEF IInv

(* What a reuse, a disabling, a reset, a recovery or a change revoked stays *)
(* revoked, whatever refreshes and logins are under way.                    *)
THEOREM EndedStayEnded == Spec => []EndedFamilies
BY Invariance, PTL DEF IInv

(* A disabled account has no session.                                       *)
THEOREM DisabledHasNoSession == Spec => []DisabledHasNone
BY Invariance, PTL DEF IInv

(* A family never has two sessions.                                         *)
THEOREM OneLiveSession == Spec => []OneLive
BY Invariance, PTL DEF IInv

(* A temporary password stays marked as one.                                *)
THEOREM TemporaryMustBeReplaced == Spec => []TemporaryIsReplaced
BY Invariance, PTL DEF IInv

(* A change of the password replaces only the one that was proved.          *)
THEOREM ChangesAreProven == Spec => ChangeProven
<1>1. IInv /\ [Next]_vars =>
        [\A r \in Requests : hash' # hash /\ hash'.by = r /\ Is(r, "change")
                             => hash.word = ask[r].word]_vars
  BY Parts, StepKeeps DEF Next
<1>2. QED
  BY <1>1, Invariance, PTL DEF Spec, ChangeProven

-----------------------------------------------------------------------------
(* The refinement                                                          *)

(* What a transaction found to revoke when it got the account is still what *)
(* it should revoke, as nobody else can commit before it does; a change     *)
(* whose password was written back meanwhile is refused, and a hash that   *)
(* was replaced never comes back.                                          *)
Fresh ==
  \A r \in Requests :
    /\ At(r, "lock") /\ Account \in locks[r] /\ ~ Is(r, "logout")
    /\ Is(r, "change") => Proven(r)
    => seen[r] = Touched(r)

Unmade ==
  \A r \in Requests : pc[r] \in {"idle", "authenticate", "verify", "rehash"} =>
    /\ hash.by # r
    /\ \A q \in Requests : read[q].by # r

(* A logout revokes sessions of its family, its own one among them.         *)
OwnFamily ==
  \A r \in Requests : At(r, "lock") /\ Is(r, "logout") =>
    Token(r) \in seen[r] /\ seen[r] \subseteq Family(Token(r))

(* Nobody is answered before its end. *)
Unanswered == \A r \in Requests : ~ At(r, "done") => answer[r] = NoAnswer

RInv == IInv /\ Fresh /\ Unmade /\ OwnFamily /\ Unanswered

LEMMA InitRInv == Init => RInv
<1> SUFFICES ASSUME Init PROVE RInv
  OBVIOUS
<1>1. \A r \in Requests : hash.by # r /\ read[r] = hash
  BY SessionsAssumption DEF Init, Hashes, Ids
<1>2. QED
  BY <1>1, InitIInv
  DEF Init, RInv, Fresh, Unmade, OwnFamily, Unanswered, At

(* A family only grows, and keeps its name. *)
LEMMA FamilyGrows ==
  ASSUME Stored, Kept, NEW r \in Requests, Call(r) \/ Step(r) \/ Victim(r) \/ Fail(r)
  PROVE  \A s \in sessions : /\ s \in sessions' /\ family'[s] = family[s]
                             /\ Family(s) \subseteq Family(s)'
<1>1. \/ UNCHANGED <<sessions, family>>
      \/ /\ Ready(r)
         /\ \E f : sessions' = sessions \cup {r} /\ family' = [family EXCEPT ![r] = f]
  BY DEF Call, Step, Authenticate, Verify, Rehash, Look, LockRow, CreateSession,
     RotateRefresh, RevokeFamily, Disable, Restore, ResetPassword, RecoverPassword,
     ChangePassword, Victim, Fail, Abort, Refuse, Open, RevokeAll, store
<1>2. CASE UNCHANGED <<sessions, family>>
  BY <1>2 DEF Family
<1>3. CASE /\ Ready(r)
           /\ \E f : sessions' = sessions \cup {r} /\ family' = [family EXCEPT ![r] = f]
  <2>1. r \notin sessions /\ r \in Ids
    BY <1>3, ReadyHolds
  <2>2. \A s \in sessions : family'[s] = family[s] /\ s \in sessions'
    BY <1>3, <2>1 DEF Stored
  <2>3. QED
    BY <2>2 DEF Family
<1>4. QED
  BY <1>1, <1>2, <1>3

LEMMA OwnFamilyStep ==
  ASSUME Stored, Kept, OwnFamily, NEW r \in Requests,
         Call(r) \/ Step(r) \/ Victim(r) \/ Fail(r)
  PROVE  OwnFamily'
<1> USE DEF At
<1> SUFFICES ASSUME NEW q \in Requests, pc'[q] = "lock", Is(q, "logout")'
             PROVE  Token(q)' \in seen'[q] /\ seen'[q] \subseteq Family(Token(q))'
  BY DEF OwnFamily
<1>1. CASE q # r \/ LockRow(r)
  <2>1. pc[q] = "lock" /\ ask'[q] = ask[q] /\ seen'[q] = seen[q]
    BY <1>1
    DEF Call, Step, Authenticate, Verify, Rehash, Look, LockRow, CreateSession,
        RotateRefresh, RevokeFamily, Disable, Restore, ResetPassword, RecoverPassword,
        ChangePassword, Victim, Fail, Abort, Refuse, End, Reply, Goto, Kept, Is
  <2>2. Token(q) \in sessions
    BY <2>1, AskType
  <2>3. Token(q) \in seen[q] /\ seen[q] \subseteq Family(Token(q))
    BY <2>1 DEF OwnFamily, Is
  <2>4. QED
    BY <2>1, <2>2, <2>3, FamilyGrows DEF Token
<1>2. CASE q = r /\ ~ LockRow(r)
  <2>1. pc[r] = "revoke" /\ Look(r)
    BY <1>2
    DEF Call, Step, Authenticate, Verify, Rehash, Look, LockRow, CreateSession,
        RotateRefresh, RevokeFamily, Disable, Restore, ResetPassword, RecoverPassword,
        ChangePassword, Victim, Fail, Abort, Refuse, End, Reply, Goto, Kept, Phases, Is
  <2>2. Token(r) \in sessions
    BY <2>1, AskType
  <2>3. seen'[r] = Family(Token(r)) /\ UNCHANGED <<ask, sessions, family>>
    BY <2>1 DEF Look, Kept, store
  <2>4. QED
    BY <1>2, <2>2, <2>3 DEF Family, Token
<1>3. QED
  BY <1>1, <1>2

(* The steps before a transaction, and those that end one. *)
Early(r) ==
  Call(r) \/ Authenticate(r) \/ Verify(r) \/ Look(r) \/ Victim(r) \/ Fail(r)

Commits(r) ==
  \/ CreateSession(r) \/ RotateRefresh(r) \/ RevokeFamily(r)
  \/ Disable(r) \/ Restore(r)
  \/ ResetPassword(r) \/ RecoverPassword(r) \/ ChangePassword(r)

LEMMA StepKinds ==
  ASSUME NEW r \in Requests
  PROVE  /\ Call(r) \/ Step(r) \/ Victim(r) \/ Fail(r)
              <=> Early(r) \/ Rehash(r) \/ LockRow(r) \/ Commits(r)
         /\ Commits(r) => Ready(r)
BY DEF Step, Early, Commits, CreateSession, RotateRefresh, RevokeFamily, Disable,
   Restore, ResetPassword, RecoverPassword, ChangePassword

LEMMA FreshStep ==
  ASSUME Stored, Kept, Fresh, Unmade, NEW r \in Requests,
         Early(r) \/ Rehash(r) \/ LockRow(r) \/ Commits(r)
  PROVE  Fresh'
<1> USE DEF At
<1> SUFFICES ASSUME NEW q \in Requests,
                    pc'[q] = "lock", Account \in locks'[q], ~ Is(q, "logout")',
                    Is(q, "change")' => Proven(q)'
             PROVE  seen'[q] = Touched(q)'
  BY DEF Fresh
<1>1. CASE LockRow(r)
  <2>1. /\ UNCHANGED <<account, store, ask, answer, pc, read>>
        /\ \E row \in Wanted(r) :
             /\ locks' = [locks EXCEPT ![r] = @ \cup {row}]
             /\ seen' = IF row = Account /\ ~ Is(r, "logout")
                        THEN [seen EXCEPT ![r] = Touched(r)] ELSE seen
    BY <1>1 DEF LockRow
  <2>2. Touched(q)' = Touched(q) /\ Is(q, "logout")' = Is(q, "logout")
        /\ Is(q, "change")' = Is(q, "change") /\ Proven(q)' = Proven(q)
    BY <2>1 DEF Touched, Is, Proven, Token, Family, Live, account, store
  <2>3. CASE Account \in locks[q] /\ seen'[q] = seen[q]
    BY <2>1, <2>2, <2>3 DEF Fresh
  <2>4. CASE q = r /\ seen' = [seen EXCEPT ![r] = Touched(r)]
    BY <2>2, <2>4 DEF Kept
  <2>5. QED
    BY <2>1, <2>2, <2>3, <2>4 DEF Kept
<1>2. CASE Commits(r)
  <2>1. Ready(r) /\ \E a : End(r, a)
    BY <1>2, StepKinds DEF Commits, CreateSession, RotateRefresh, RevokeFamily, Disable,
       Restore, ResetPassword, RecoverPassword, ChangePassword, Refuse
  <2>2. Account \in locks[r] /\ locks' = [locks EXCEPT ![r] = {}]
    BY <2>1, ReadyHolds DEF End
  <2>3. QED
    BY <2>2 DEF Kept, Exclusive
<1>3. CASE Early(r) \/ Rehash(r)
  <2>1. /\ UNCHANGED <<status, store>>
        /\ locks[r] = {} \/ locks'[r] = {}
        /\ locks'[q] \subseteq locks[q]
    BY <1>3 DEF Early, Call, Authenticate, Verify, Rehash, Look, Victim, Fail, Abort,
       account, Kept, Phases
  <2>2. q # r
    BY <1>3, <2>1 DEF Early, Call, Authenticate, Verify, Rehash, Look, Victim, Fail,
       Abort, Kept, Phases
  <2>3. /\ pc[q] = "lock" /\ Account \in locks[q]
        /\ ask'[q] = ask[q] /\ seen'[q] = seen[q] /\ read'[q] = read[q]
    BY <1>3, <2>1, <2>2 DEF Early, Call, Authenticate, Verify, Rehash, Look, Victim, Fail,
       Abort, Reply, Goto, Kept
  <2>4. /\ Token(q)' = Token(q) /\ Live' = Live /\ status' = status
        /\ consumed' = consumed /\ Family(Token(q))' = Family(Token(q))
    <3>1. Token(q)' = Token(q)
      BY <2>3 DEF Token
    <3>2. UNCHANGED <<status, sessions, family, consumed, revoked>>
      BY <2>1 DEF store
    <3>3. QED
      BY <3>1, <3>2 DEF Family, Live
  <2>5. CASE hash' = hash
    <3>1. Proven(q)' = Proven(q)
      BY <2>3, <2>4, <2>5 DEF Proven
    <3>2. Touched(q)' = Touched(q)
      BY <2>3, <2>4, <3>1 DEF Touched, Is
    <3>3. QED
      BY <2>3, <3>1, <3>2 DEF Fresh, Is
  <2>6. CASE Rehash(r)
    <3>1. hash'.by = r /\ read[q].by # r
      BY <2>6 DEF Rehash, Unmade
    <3>2. ~ Proven(q)'
      BY <2>3, <3>1 DEF Proven
    <3>3. ~ Is(q, "change")
      BY <2>3, <3>2 DEF Is
    <3>4. Touched(q)' = Touched(q)
      BY <2>3, <2>4, <3>3 DEF Touched, Is
    <3>5. QED
      BY <2>3, <3>3, <3>4 DEF Fresh, Is
  <2>7. QED
    BY <1>3, <2>5, <2>6
    DEF Early, Call, Authenticate, Verify, Look, Victim, Fail, Abort, account
<1>4. QED
  BY <1>1, <1>2, <1>3

LEMMA UnmadeStep ==
  ASSUME Stored, Kept, Unmade, NEW r \in Requests,
         Early(r) \/ Rehash(r) \/ LockRow(r) \/ Commits(r)
  PROVE  Unmade'
<1> USE DEF At
<1>1. CASE Early(r) \/ LockRow(r)
  <2>1. hash' = hash
    BY <1>1 DEF Early, Call, Authenticate, Verify, Look, LockRow, Victim, Fail, Abort,
       account
  <2>2. \A q \in Requests : read'[q] = read[q] \/ read'[q] = hash
    BY <1>1 DEF Early, Call, Authenticate, Verify, Look, LockRow, Victim, Fail, Abort, Kept
  <2>3. \A q \in Requests : pc'[q] \in {"idle", "authenticate", "verify", "rehash"} =>
                             pc[q] \in {"idle", "authenticate", "verify", "rehash"}
    BY <1>1 DEF Early, Call, Authenticate, Verify, Look, LockRow, Victim, Fail, Abort,
       Reply, Goto, Kept
  <2>4. QED
    BY <2>1, <2>2, <2>3 DEF Unmade
<1>2. CASE Rehash(r) \/ Commits(r)
  <2>1. hash' = hash \/ hash'.by = r
    BY <1>2 DEF Rehash, Commits, CreateSession, RotateRefresh, RevokeFamily, Disable,
       Restore, ResetPassword, RecoverPassword, ChangePassword, SetPassword, Refuse,
       Open, account
  <2>2. read' = read
    BY <1>2 DEF Rehash, Commits, CreateSession, RotateRefresh, RevokeFamily, Disable,
       Restore, ResetPassword, RecoverPassword, ChangePassword
  <2>3. /\ pc'[r] \in {"lock", "done"}
        /\ \A q \in Requests : q # r => pc'[q] = pc[q]
    BY <1>2 DEF Rehash, Commits, CreateSession, RotateRefresh, RevokeFamily, Disable,
       Restore, ResetPassword, RecoverPassword, ChangePassword, Refuse, End, Reply, Goto,
       Kept
  <2>4. QED
    BY <2>1, <2>2, <2>3 DEF Unmade
<1>3. QED
  BY <1>1, <1>2

LEMMA UnansweredStep ==
  ASSUME Stored, Kept, Unanswered, NEW r \in Requests,
         Early(r) \/ Rehash(r) \/ LockRow(r) \/ Commits(r)
  PROVE  Unanswered'
BY DEF Unanswered, Early, Call, Authenticate, Verify, Rehash, Look, LockRow, Victim, Fail,
   Abort, Commits, CreateSession, RotateRefresh, RevokeFamily, Disable, Restore,
   ResetPassword, RecoverPassword, ChangePassword, Refuse, End, Reply, Goto, Kept, At

LEMMA NextRInv == RInv /\ [Next]_vars => RInv'
<1> SUFFICES ASSUME RInv, [Next]_vars PROVE RInv'
  OBVIOUS
<1>1. IInv /\ IInv' /\ Stored /\ Kept
  BY NextIInv, Parts DEF RInv
<1>2. CASE Next
  <2>1. PICK r \in Requests : Call(r) \/ Step(r) \/ Victim(r) \/ Fail(r)
    BY <1>2 DEF Next
  <2>2. Early(r) \/ Rehash(r) \/ LockRow(r) \/ Commits(r)
    BY <2>1, StepKinds
  <2>3. Fresh' /\ Unmade' /\ Unanswered'
    BY <1>1, <2>2, FreshStep, UnmadeStep, UnansweredStep DEF RInv
  <2>4. OwnFamily'
    BY <1>1, <2>1, OwnFamilyStep DEF RInv
  <2>5. QED
    BY <1>1, <2>3, <2>4 DEF RInv
<1>3. CASE UNCHANGED vars
  BY <1>1, <1>3
  DEF vars, account, store, RInv, Fresh, Unmade, OwnFamily, Unanswered, At, Is, Token,
      Touched, Proven, Family, Live
<1>4. QED
  BY <1>2, <1>3

LEMMA IsAsked ==
  ASSUME RInv, NEW r \in Requests, pc[r] \notin {"idle", "done"}
  PROVE  Atomic!Asked(r)
BY Parts DEF RInv, Kept, Phases, Unanswered, At, Atomic!Asked

(* Whoever is answered is admitted no more. *)
LEMMA Answered ==
  ASSUME Kept, NEW r \in Requests, NEW a,
         \/ answer' = [answer EXCEPT ![r] = a]
         \/ answer' = [answer EXCEPT ![r] = "ERROR"],
         pc' = [pc EXCEPT ![r] = "done"], ask' = ask
  PROVE  Atomic!Give(r, a)
<1>1. Admitted' = Admitted \ {r}
  BY DEF Kept, Admitted, At, Is
<1>2. QED
  BY <1>1 DEF Atomic!Give

(* Before its transaction a request is admitted, refused, or goes on unseen. *)
LEMMA EarlyRefines ==
  ASSUME RInv, NEW r \in Requests, Early(r)
  PROVE  Atomic!Next \/ UNCHANGED Atomic!vars
<1> USE DEF At
<1>1. Stored /\ Kept
  BY Parts DEF RInv
<1>2. UNCHANGED <<status, hash, mustChange, sessions, family, consumed, revoked>>
  BY DEF Early, Call, Authenticate, Verify, Look, Victim, Fail, Abort, account, store
<1>3. ASSUME ~ Call(r) PROVE ask' = ask /\ Atomic!Asked(r)
  <2>1. ask' = ask /\ pc[r] \notin {"idle", "done"}
    BY <1>3 DEF Early, Authenticate, Verify, Look, Victim, Fail, Abort
  <2>2. QED
    BY <2>1, IsAsked
<1>4. CASE Call(r)
  <2>1. PICK m \in Asks :
          /\ m.session \in sessions
          /\ ask' = [ask EXCEPT ![r] = m]
          /\ Goto(r, CASE m.kind = "login" -> "verify"
                       [] m.kind \in {"logout", "change"} -> "authenticate"
                       [] OTHER -> "lock")
    BY <1>4 DEF Call
  <2>2. m.kind \in Kinds
    BY SessionsAssumption
  <2>3. pc'[r] = IF m.kind = "login" THEN "verify"
                 ELSE IF m.kind \in {"logout", "change"} THEN "authenticate" ELSE "lock"
    BY <1>1, <2>1 DEF Goto, Kept
  <2>4. pc[r] = "idle" /\ ask[r] = NoAsk /\ ask'[r] = m /\ answer' = answer
    BY <1>1, <1>4, <2>1 DEF Call, Kept, Phases
  <2>5. \A q \in Requests : q # r => pc'[q] = pc[q] /\ ask'[q] = ask[q]
    BY <1>1, <2>1 DEF Goto, Kept
  <2>6. r \notin Admitted /\ r \notin Admitted'
    BY <2>3, <2>4 DEF Admitted, Is
  <2>7. Admitted' = Admitted
    BY <2>5, <2>6 DEF Admitted, Is
  <2>8. Atomic!Call(r)
    BY <1>2, <2>1, <2>4, <2>7 DEF Atomic!Call, Atomic!account, Atomic!store
  <2>9. QED
    BY <2>8 DEF Atomic!Next
<1>5. CASE Authenticate(r)
  <2>1. pc[r] = "authenticate" /\ ~ Call(r) /\ ask[r].kind \in {"logout", "change"}
    BY <1>1, <1>5 DEF Authenticate, Call, Kept, Phases
  <2>2. r \notin Admitted
    BY <2>1 DEF Admitted
  <2>3. CASE /\ Token(r) \in Live /\ status = "ACTIVE"
             /\ Goto(r, IF Is(r, "logout") THEN "revoke" ELSE "verify")
             /\ UNCHANGED answer
    <3>1. Admitted' = Admitted \cup {r}
      BY <1>1, <1>3, <2>1, <2>3 DEF Admitted, Goto, Is, Kept
    <3>2. Atomic!Admit(r)
      BY <1>2, <1>3, <2>1, <2>3, <3>1
      DEF Atomic!Admit, Atomic!account, Atomic!store, Atomic!Token, Atomic!Live,
          Token, Live
    <3>3. QED
      BY <3>2 DEF Atomic!Next
  <2>4. CASE Reply(r, IF Is(r, "logout") THEN "OK" ELSE "REFUSED")
    <3>1. Atomic!Give(r, IF Is(r, "logout") THEN "OK" ELSE "REFUSED")
      BY <1>1, <1>3, <2>1, <2>4, Answered DEF Reply, Goto
    <3>2. Atomic!Refuse(r)
      BY <1>2, <1>3, <2>1, <2>2, <3>1
      DEF Atomic!Refuse, Atomic!account, Atomic!store, Atomic!Is, Is
    <3>3. QED
      BY <3>2 DEF Atomic!Next
  <2>5. QED
    BY <1>5, <2>3, <2>4 DEF Authenticate
<1>6. CASE Verify(r)
  <2>1. pc[r] = "verify" /\ ~ Call(r) /\ ask[r].kind \in {"login", "change"}
    BY <1>1, <1>6 DEF Verify, Call, Kept, Phases
  <2>2. CASE /\ Matches(r) /\ answer' = answer
             /\ Goto(r, IF Is(r, "login") /\ hash.by = Legacy THEN "rehash" ELSE "lock")
    <3>1. Admitted' = Admitted \cup {r}
      BY <1>1, <1>3, <2>1, <2>2 DEF Admitted, Goto, Is, Kept
    <3>2. CASE Is(r, "login")
      <4>1. Atomic!Admit(r)
        BY <1>2, <1>3, <2>1, <2>2, <3>1, <3>2
        DEF Atomic!Admit, Atomic!account, Atomic!store, Atomic!Is, Is, Matches
      <4>2. QED
        BY <4>1 DEF Atomic!Next
    <3>3. CASE Is(r, "change")
      <4>1. r \in Admitted
        BY <2>1, <3>3 DEF Admitted
      <4>2. Admitted' = Admitted
        BY <3>1, <4>1
      <4>3. QED
        BY <1>2, <1>3, <2>1, <2>2, <4>2 DEF Atomic!vars
    <3>4. QED
      BY <2>1, <3>2, <3>3 DEF Is
  <2>3. CASE ~ Matches(r) /\ Reply(r, "REFUSED")
    <3>1. Atomic!Give(r, "REFUSED")
      BY <1>1, <1>3, <2>1, <2>3, Answered DEF Reply, Goto
    <3>2. Atomic!Refuse(r)
      BY <1>2, <1>3, <2>1, <2>3, <3>1
      DEF Atomic!Refuse, Atomic!account, Atomic!store, Atomic!Is, Is, Matches
    <3>3. QED
      BY <3>2 DEF Atomic!Next
  <2>4. QED
    BY <1>6, <2>2, <2>3 DEF Verify
<1>7. CASE Look(r)
  <2>1. pc[r] = "revoke" /\ ~ Call(r) /\ Is(r, "logout") /\ answer' = answer
        /\ pc' = [pc EXCEPT ![r] = "lock"]
    BY <1>1, <1>7 DEF Look, Call, Goto, Kept, Phases
  <2>2. Admitted' = Admitted
    BY <1>1, <1>3, <2>1 DEF Admitted, Is, Kept
  <2>3. QED
    BY <1>2, <1>3, <2>1, <2>2 DEF Atomic!vars
<1>8. CASE Victim(r) \/ Fail(r)
  <2>1. ~ Call(r) /\ Reply(r, "ERROR")
    BY <1>8 DEF Victim, Fail, Call, Abort
  <2>2. Atomic!Give(r, "ERROR")
    BY <1>1, <1>3, <2>1, Answered DEF Reply, Goto
  <2>3. Atomic!Fail(r)
    BY <1>2, <1>3, <2>1, <2>2 DEF Atomic!Fail, Atomic!account, Atomic!store
  <2>4. QED
    BY <2>3 DEF Atomic!Next
<1>9. QED
  BY <1>4, <1>5, <1>6, <1>7, <1>8 DEF Early

LEMMA RehashRefines ==
  ASSUME RInv, NEW r \in Requests, Rehash(r)
  PROVE  Atomic!WriteBack(r)
<1>1. Stored /\ Kept
  BY Parts DEF RInv
<1>2. /\ pc[r] = "rehash"
      /\ hash' = [word |-> ask[r].word, by |-> r]
      /\ pc' = [pc EXCEPT ![r] = "lock"]
      /\ UNCHANGED <<status, mustChange, sessions, family, consumed, revoked, ask, answer>>
  BY DEF Rehash, At, Goto, store
<1>3. Atomic!Asked(r) /\ Is(r, "login") /\ r \in Admitted
  BY <1>1, <1>2, IsAsked DEF Kept, Phases, Admitted, At
<1>4. Admitted' = Admitted
  BY <1>1, <1>2, <1>3 DEF Admitted, At, Is, Kept
<1>5. hash'.word = ask[r].word
  BY <1>2
<1>6. QED
  BY <1>2, <1>3, <1>4, <1>5
  DEF Atomic!WriteBack, Atomic!Admitted, Atomic!Is, Atomic!store, Is

LEMMA LockRowRefines ==
  ASSUME NEW r \in Requests, LockRow(r)
  PROVE  UNCHANGED Atomic!vars
<1>1. UNCHANGED <<account, store, ask, answer, pc>>
  BY DEF LockRow
<1>2. Admitted' = Admitted
  BY <1>1 DEF Admitted, At, Is
<1>3. QED
  BY <1>1, <1>2 DEF account, store, Atomic!vars

(* What a transaction that has its locks can rely on. *)
LEMMA ReadyNow ==
  ASSUME RInv, NEW r \in Requests, Ready(r)
  PROVE  /\ Stored /\ Kept
         /\ Atomic!Asked(r)
         /\ ask[r].kind \in {"login", "logout", "change"} => r \in Admitted
         /\ ~ Is(r, "logout") /\ (Is(r, "change") => Proven(r)) => seen[r] = Touched(r)
<1>1. Stored /\ Kept
  BY Parts DEF RInv
<1>2. pc[r] = "lock" /\ Account \in locks[r]
  BY <1>1, ReadyHolds DEF At
<1>3. QED
  BY <1>1, <1>2, IsAsked DEF RInv, Fresh, Admitted, At

LEMMA Ends ==
  ASSUME Kept, NEW r \in Requests, NEW a, End(r, a), ask' = ask
  PROVE  Atomic!Give(r, a)
BY Answered DEF End, Reply, Goto

(* Without an effect: the account is disabled, a token expired, another     *)
(* password was set meanwhile.                                             *)
LEMMA RefuseRefines ==
  ASSUME RInv, NEW r \in Requests, Ready(r), Refuse(r), ask' = ask,
         \/ ask[r].kind \in {"login", "recover"} /\ status # "ACTIVE"
         \/ Is(r, "refresh") /\ Token(r) \notin consumed
         \/ Is(r, "change")
  PROVE  Atomic!Refuse(r)
<1>1. Atomic!Asked(r) /\ Atomic!Give(r, "REFUSED")
  BY ReadyNow, Ends DEF Refuse
<1>2. UNCHANGED <<status, hash, mustChange, sessions, family, consumed, revoked>>
  BY DEF Refuse, account, store
<1>3. QED
  BY <1>1, <1>2
  DEF Atomic!Refuse, Atomic!account, Atomic!store, Atomic!Is, Atomic!Token, Is, Token

LEMMA SessionStepsRefine ==
  ASSUME RInv, NEW r \in Requests,
         CreateSession(r) \/ RotateRefresh(r) \/ RevokeFamily(r)
  PROVE  \/ Atomic!Login(r) \/ Atomic!Refresh(r) \/ Atomic!Reuse(r) \/ Atomic!Logout(r)
         \/ Atomic!Refuse(r)
<1>1. Ready(r) /\ ask' = ask
  BY DEF CreateSession, RotateRefresh, RevokeFamily
<1>2. /\ Stored /\ Kept /\ Atomic!Asked(r)
      /\ ask[r].kind \in {"login", "logout", "change"} => r \in Admitted
  BY <1>1, ReadyNow
<1>3. CASE CreateSession(r)
  <2>1. Is(r, "login") /\ r \in Admitted
    BY <1>2, <1>3 DEF CreateSession, Is
  <2>2. CASE status = "ACTIVE" /\ Open(r, r, {}) /\ End(r, "OK")
    <3>1. Atomic!Give(r, "OK")
      BY <1>1, <1>2, <2>2, Ends
    <3>2. Atomic!Login(r)
      BY <1>2, <2>1, <2>2, <3>1
      DEF Open, account, Is, Atomic!Login, Atomic!Admitted, Atomic!Is, Atomic!Open,
          Atomic!account
    <3>3. QED
      BY <3>2
  <2>3. CASE status = "DISABLED" /\ Refuse(r)
    BY <1>1, <2>1, <2>3, RefuseRefines DEF Is
  <2>4. QED
    BY <1>3, <2>2, <2>3 DEF CreateSession
<1>4. CASE RotateRefresh(r)
  <2>1. Is(r, "refresh")
    BY <1>4 DEF RotateRefresh
  <2>2. CASE /\ Token(r) \in consumed /\ RevokeAll(seen[r])
             /\ UNCHANGED account /\ End(r, "REUSE")
    <3>1. seen[r] = Family(Token(r))
      BY <1>1, <2>1, <2>2, ReadyNow DEF Touched, Is
    <3>2. Atomic!Give(r, "REUSE")
      BY <1>1, <1>2, <2>2, Ends
    <3>3. Atomic!Reuse(r)
      BY <1>2, <2>1, <2>2, <3>1, <3>2
      DEF RevokeAll, account, Is, Token, Family, Atomic!Reuse, Atomic!Is, Atomic!Token,
          Atomic!Family, Atomic!Revoke, Atomic!account
    <3>4. QED
      BY <3>3
  <2>3. CASE Token(r) \notin consumed /\ Refuse(r)
    BY <1>1, <2>1, <2>3, RefuseRefines
  <2>4. CASE /\ Token(r) \in Live \ consumed /\ status = "ACTIVE"
             /\ Open(r, family[Token(r)], {Token(r)}) /\ End(r, "OK")
    <3>1. Atomic!Give(r, "OK")
      BY <1>1, <1>2, <2>4, Ends
    <3>2. Atomic!Refresh(r)
      BY <1>2, <2>1, <2>4, <3>1
      DEF Open, account, Is, Token, Live, Atomic!Refresh, Atomic!Is, Atomic!Token,
          Atomic!Live, Atomic!Open, Atomic!account
    <3>3. QED
      BY <3>2
  <2>5. QED
    BY <1>4, <2>2, <2>3, <2>4 DEF RotateRefresh
<1>5. CASE RevokeFamily(r)
  <2>1. Is(r, "logout") /\ r \in Admitted /\ At(r, "lock")
    BY <1>2, <1>5 DEF RevokeFamily, Is, Ready
  <2>2. Token(r) \in seen[r] /\ seen[r] \subseteq Family(Token(r))
    BY <2>1 DEF RInv, OwnFamily
  <2>3. Atomic!Give(r, "OK")
    BY <1>1, <1>2, <1>5, Ends DEF RevokeFamily
  <2>4. /\ revoked' = revoked \cup seen[r]
        /\ UNCHANGED <<status, hash, mustChange, sessions, family, consumed>>
    BY <1>5 DEF RevokeFamily, account
  <2>5. \E S \in SUBSET Atomic!Family(Atomic!Token(r)) :
          Atomic!Token(r) \in S /\ Atomic!Revoke(S)
    BY <2>2, <2>4 DEF Atomic!Family, Atomic!Token, Atomic!Revoke, Family, Token
  <2>6. Atomic!Logout(r)
    BY <1>2, <2>1, <2>3, <2>4, <2>5
    DEF Is, Atomic!Logout, Atomic!Admitted, Atomic!Is, Atomic!account
  <2>7. QED
    BY <2>6
<1>6. QED
  BY <1>3, <1>4, <1>5

LEMMA AccountStepsRefine ==
  ASSUME RInv, NEW r \in Requests,
         \/ Disable(r) \/ Restore(r)
         \/ ResetPassword(r) \/ RecoverPassword(r) \/ ChangePassword(r)
  PROVE  \/ Atomic!Disable(r) \/ Atomic!Restore(r) \/ Atomic!Reset(r)
         \/ Atomic!Recover(r) \/ Atomic!Change(r) \/ Atomic!Refuse(r)
<1>1. Ready(r) /\ ask' = ask
  BY DEF Disable, Restore, ResetPassword, RecoverPassword, ChangePassword
<1>2. /\ Stored /\ Kept /\ Atomic!Asked(r)
      /\ ask[r].kind \in {"login", "logout", "change"} => r \in Admitted
  BY <1>1, ReadyNow
<1>3. CASE Disable(r)
  <2>1. /\ Is(r, "disable") /\ status' = "DISABLED" /\ RevokeAll(seen[r])
        /\ End(r, "OK") /\ UNCHANGED <<hash, mustChange>>
    BY <1>3 DEF Disable
  <2>2. seen[r] = Touched(r)
    BY <1>1, <2>1, ReadyNow DEF Is
  <2>3. seen[r] = Live
    BY <1>2, <2>1, <2>2 DEF Touched, Is, Stored, DisabledHasNone
  <2>4. Atomic!Give(r, "OK")
    BY <1>1, <1>2, <2>1, Ends
  <2>5. Atomic!Disable(r)
    BY <1>2, <2>1, <2>3, <2>4
    DEF RevokeAll, Is, Live, Atomic!Disable, Atomic!Is, Atomic!Live, Atomic!Revoke
  <2>6. QED
    BY <2>5
<1>4. CASE Restore(r)
  <2>1. Atomic!Give(r, "OK")
    BY <1>1, <1>2, <1>4, Ends DEF Restore
  <2>2. Atomic!Restore(r)
    BY <1>2, <1>4, <2>1 DEF Restore, store, Is, Atomic!Restore, Atomic!Is, Atomic!store
  <2>3. QED
    BY <2>2
<1>5. CASE ResetPassword(r)
  <2>1. /\ Is(r, "reset") /\ SetPassword(r) /\ mustChange' = TRUE /\ RevokeAll(seen[r])
        /\ End(r, "OK") /\ UNCHANGED status
    BY <1>5 DEF ResetPassword
  <2>2. seen[r] = Live
    BY <1>1, <2>1, ReadyNow DEF Touched, Is
  <2>3. Atomic!Give(r, "OK")
    BY <1>1, <1>2, <2>1, Ends
  <2>4. Atomic!Reset(r)
    BY <1>2, <2>1, <2>2, <2>3
    DEF RevokeAll, SetPassword, Is, Live, Atomic!Reset, Atomic!Is, Atomic!Live,
        Atomic!Revoke
  <2>5. QED
    BY <2>4
<1>6. CASE RecoverPassword(r)
  <2>1. Is(r, "recover")
    BY <1>6 DEF RecoverPassword
  <2>2. CASE status = "DISABLED" /\ Refuse(r)
    BY <1>1, <2>1, <2>2, RefuseRefines DEF Is
  <2>3. CASE /\ status = "ACTIVE" /\ SetPassword(r) /\ RevokeAll(seen[r])
             /\ End(r, "OK") /\ UNCHANGED <<status, mustChange>>
    <3>1. seen[r] = Live
      BY <1>1, <2>1, <2>3, ReadyNow DEF Touched, Is
    <3>2. Atomic!Give(r, "OK")
      BY <1>1, <1>2, <2>3, Ends
    <3>3. Atomic!Recover(r)
      BY <1>2, <2>1, <2>3, <3>1, <3>2
      DEF RevokeAll, SetPassword, Is, Live, Atomic!Recover, Atomic!Is, Atomic!Live,
          Atomic!Revoke
    <3>4. QED
      BY <3>3
  <2>4. QED
    BY <1>6, <2>2, <2>3 DEF RecoverPassword
<1>7. CASE ChangePassword(r)
  <2>1. Is(r, "change") /\ r \in Admitted
    BY <1>2, <1>7 DEF ChangePassword, Is
  <2>2. CASE Refuse(r)
    BY <1>1, <2>1, <2>2, RefuseRefines
  <2>3. CASE /\ Proven(r) /\ SetPassword(r) /\ mustChange' = FALSE
             /\ RevokeAll(seen[r]) /\ End(r, "OK") /\ UNCHANGED status
    <3>1. seen[r] = Live \ Family(Token(r))
      BY <1>1, <2>1, <2>3, ReadyNow DEF Touched, Is
    <3>2. hash.word = ask[r].word /\ status = "ACTIVE"
      BY <1>1, <1>2, <2>1, <2>3, ReadyHolds DEF Proven, Kept, Phases
    <3>3. Atomic!Give(r, "OK")
      BY <1>1, <1>2, <2>3, Ends
    <3>4. Atomic!Change(r)
      BY <1>2, <2>1, <2>3, <3>1, <3>2, <3>3
      DEF RevokeAll, SetPassword, Is, Live, Family, Token, Atomic!Change, Atomic!Admitted,
          Atomic!Is, Atomic!Live, Atomic!Family, Atomic!Token, Atomic!Revoke
    <3>5. QED
      BY <3>4
  <2>4. QED
    BY <1>7, <2>2, <2>3 DEF ChangePassword
<1>8. QED
  BY <1>3, <1>4, <1>5, <1>6, <1>7

LEMMA InitRefines == Init => Atomic!Init
<1> SUFFICES ASSUME Init PROVE Atomic!Init
  OBVIOUS
<1>1. hash.word \in Words
  BY SessionsAssumption DEF Init
<1>2. Admitted = {}
  BY SessionsAssumption DEF Init, Admitted, At
<1>3. QED
  BY <1>1, <1>2 DEF Init, Ids, Atomic!Init

(* Every request has its whole effect at one moment.  So a request that     *)
(* reads, locks and revokes statement by statement does to the account, to  *)
(* its sessions and to its client nothing that one without interruption     *)
(* would not do; only a logout and the writing back of a hash do less, or   *)
(* more, than one would like, and what they do is stated.                   *)
THEOREM ImplementsAccount == Spec => AccountSpec
<1>1. RInv /\ [Next]_vars => [Atomic!Next]_(Atomic!vars)
  <2> SUFFICES ASSUME RInv, [Next]_vars
               PROVE  Atomic!Next \/ UNCHANGED Atomic!vars
    OBVIOUS
  <2>1. CASE Next
    <3>1. PICK r \in Requests : Call(r) \/ Step(r) \/ Victim(r) \/ Fail(r)
      BY <2>1 DEF Next
    <3>2. CASE Early(r)
      BY <3>2, EarlyRefines
    <3>3. CASE Rehash(r)
      BY <3>3, RehashRefines DEF Atomic!Next
    <3>4. CASE LockRow(r)
      BY <3>4, LockRowRefines
    <3>5. CASE Commits(r)
      BY <3>5, SessionStepsRefine, AccountStepsRefine DEF Commits, Atomic!Next
    <3>6. QED
      BY <3>1, <3>2, <3>3, <3>4, <3>5, StepKinds
  <2>2. CASE UNCHANGED vars
    BY <2>2 DEF vars, account, store, Admitted, At, Is, Atomic!vars
  <2>3. QED
    BY <2>1, <2>2
<1>2. QED
  BY <1>1, InitRefines, InitRInv, NextRInv, PTL DEF Spec, AccountSpec, Atomic!Spec

=============================================================================
