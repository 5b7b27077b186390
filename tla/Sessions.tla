-------------------------------- MODULE Sessions --------------------------------
(***************************************************************************)
(* The sessions and the password of one account of the ordering API        *)
(* (identity/application/service.go and cashiers.go, adapters/postgres/    *)
(* store.go and cashiers.go); accounts share nothing.                      *)
(*                                                                         *)
(* A request first reads, outside any transaction, and then runs one READ  *)
(* COMMITTED transaction that takes row locks one by one and changes       *)
(* everything when it commits.  A session is named for the request that    *)
(* created it, and stands for its access and its refresh token.            *)
(***************************************************************************)
EXTENDS FiniteSets

CONSTANTS
  Requests,
  First,      \* a session from before
  Account,    \* the row of the account in "users"
  Words,      \* passwords
  Legacy,     \* made hashes with parameters that are no longer configured
  FirstHashes,  \* of the password, at first
  Asks,       \* the operations that requests may ask for
  NoAsk,
  NoAnswer

Ids == Requests \cup {First}

Rows == Ids \cup {Account}

Hashes == [word : Words, by : Ids \cup {Legacy}]

Kinds == {"login", "refresh", "logout", "change", "reset", "recover", "disable",
          "restore"}

(* What an admin does to the account of a cashier.                          *)
Managing == {"reset", "disable", "restore"}

Answers == {"OK", "REFUSED", "REUSE", "ERROR"}

ASSUME SessionsAssumption ==
  \* the session whose token it carries, the password it proves and the one it
  \* sets, as far as the operation has them
  /\ Asks \subseteq [kind : Kinds, session : Ids, word : Words, new : Words]
  /\ FirstHashes \subseteq [word : Words, by : {First, Legacy}]
  /\ First \notin Requests
  /\ Account \notin Ids
  /\ Legacy \notin Ids
  /\ NoAsk \notin Asks
  /\ NoAnswer \notin Answers

VARIABLES
  status,      \* is the account active?
  hash,        \* of its password, and who made it
  mustChange,  \* password_change_required
  sessions,    \* that have been committed
  family,      \* of each session
  consumed,    \* sessions whose refresh token was exchanged
  revoked,     \* sessions
  ended,       \* families that were revoked, other than by a logout
  loggedOut,   \* families that were revoked by a logout
  ask,         \* of each request
  answer,
  pc,
  read,        \* the hash a request has read and verified
  seen,        \* the sessions that its statement which revokes some has found
  locks        \* the rows each request has locked

account == <<status, hash, mustChange>>
store == <<sessions, family, consumed, revoked, ended, loggedOut>>
vars == <<account, store, ask, answer, pc, read, seen, locks>>

-----------------------------------------------------------------------------

At(r, step) == pc[r] = step

Goto(r, step) == pc' = [pc EXCEPT ![r] = step]

Is(r, kind) == ask[r].kind = kind

Token(r) == ask[r].session

Family(s) == {x \in sessions : family[x] = family[s]}

Live == sessions \ revoked

Reply(r, a) ==
  /\ answer' = [answer EXCEPT ![r] = a]
  /\ Goto(r, "done")

(* The end of a transaction; the answer to its COMMIT may get lost. *)
End(r, a) ==
  /\ Reply(r, a) \/ Reply(r, "ERROR")
  /\ locks' = [locks EXCEPT ![r] = {}]

Init ==
  /\ status = "ACTIVE"
  /\ hash \in FirstHashes
  /\ mustChange = FALSE
  /\ sessions = {First}
  /\ family = [s \in Ids |-> s]
  /\ consumed = {}
  /\ revoked = {}
  /\ ended = {}
  /\ loggedOut = {}
  /\ ask = [r \in Requests |-> NoAsk]
  /\ answer = [r \in Requests |-> NoAnswer]
  /\ pc = [r \in Requests |-> "idle"]
  /\ read = [r \in Requests |-> hash]
  /\ seen = [r \in Requests |-> {}]
  /\ locks = [r \in Requests |-> {}]

-----------------------------------------------------------------------------
(* Locks                                                                   *)

(* Has this password change verified the password that is still current?    *)
Proven(r) == status = "ACTIVE" /\ hash = read[r]

(* Mutant: without AND family_id <> $2. *)
Touched_OwnToo(r) ==
  CASE Is(r, "refresh") /\ Token(r) \in consumed -> Family(Token(r))
    [] Is(r, "change") /\ Proven(r) -> Live
    [] Is(r, "reset") -> Live
    [] ask[r].kind \in {"recover", "disable"} /\ status = "ACTIVE" -> Live
    [] OTHER -> {}

(* The sessions that the transaction revokes, seen when it has the account. *)
Touched(r) ==
  CASE Is(r, "refresh") /\ Token(r) \in consumed -> Family(Token(r))
    [] Is(r, "change") /\ Proven(r) -> Live \ Family(Token(r))
    [] Is(r, "reset") -> Live
    [] ask[r].kind \in {"recover", "disable"} /\ status = "ACTIVE" -> Live
    [] OTHER -> {}

FirstRows(r) ==
  CASE Is(r, "refresh") -> {Token(r)}   \* FOR UPDATE OF s, u
    [] Is(r, "logout") -> seen[r]
    [] OTHER -> {Account}

(* Mutant: FOR UPDATE OF s. *)
Wanted_TokenOnly(r) ==
  IF ~ FirstRows(r) \subseteq locks[r] THEN FirstRows(r) \ locks[r]
  ELSE IF Account \notin locks[r] /\ ~ Is(r, "refresh") THEN {Account}
  ELSE seen[r] \ locks[r]

(* The rows that the statement a transaction is at still has to lock.  The  *)
(* last one of a logout writes an audit record, which refers to the account. *)
Wanted(r) ==
  IF ~ FirstRows(r) \subseteq locks[r] THEN FirstRows(r) \ locks[r]
  ELSE IF Account \notin locks[r] THEN {Account}
  ELSE seen[r] \ locks[r]

Free(row) == \A r \in Requests : row \notin locks[r]

Ready(r) == At(r, "lock") /\ Wanted(r) = {}

LockRow(r) ==
  /\ At(r, "lock")
  /\ \E row \in Wanted(r) :
       /\ Free(row)
       /\ locks' = [locks EXCEPT ![r] = @ \cup {row}]
       /\ seen' = IF row = Account /\ ~ Is(r, "logout")
                  THEN [seen EXCEPT ![r] = Touched(r)]
                  ELSE seen
  /\ UNCHANGED <<account, store, ask, answer, pc, read>>

(* Requests that wait for each other in a circle. *)
Deadlocked(r) ==
  \E D \in SUBSET Requests :
    /\ r \in D
    /\ \A d \in D :
         /\ At(d, "lock")
         /\ Wanted(d) # {}
         /\ \A row \in Wanted(d) : \E e \in D \ {d} : row \in locks[e]

(* Mutant: without the deferred Rollback. *)
Abort_KeepsLocks(r) ==
  /\ Reply(r, "ERROR")
  /\ UNCHANGED <<account, store, ask, read, seen, locks>>

Abort(r) ==
  /\ Reply(r, "ERROR")
  /\ locks' = [locks EXCEPT ![r] = {}]
  /\ UNCHANGED <<account, store, ask, read, seen>>

(* The database rolls one of them back (40P01), and nobody tries again. *)
Victim(r) == At(r, "lock") /\ Deadlocked(r) /\ Abort(r)

Fail(r) == pc[r] \notin {"idle", "done"} /\ Abort(r)

-----------------------------------------------------------------------------
(* Before the transaction                                                  *)

(* The account has one role: a cashier is managed, and an admin recovers.   *)
OneRole(kind) ==
  \A q \in Requests :
    ask[q] # NoAsk => /\ kind = "recover" => ask[q].kind \notin Managing
                      /\ kind \in Managing => ~ Is(q, "recover")

Call(r) ==
  /\ At(r, "idle")
  /\ \E m \in Asks :
       /\ m.session \in sessions
       /\ OneRole(m.kind)
       /\ ask' = [ask EXCEPT ![r] = m]
       /\ Goto(r, CASE m.kind = "login" -> "verify"
                    [] m.kind \in {"logout", "change"} -> "authenticate"
                    [] OTHER -> "lock")
  /\ UNCHANGED <<account, store, answer, read, seen, locks>>

(* An access token that has expired is as good as none. *)
Authenticate(r) ==
  /\ At(r, "authenticate")
  /\ \/ /\ Token(r) \in Live
        /\ status = "ACTIVE"
        /\ Goto(r, IF Is(r, "logout") THEN "revoke" ELSE "verify")
        /\ UNCHANGED answer
     \/ Reply(r, IF Is(r, "logout") THEN "OK" ELSE "REFUSED")
  /\ UNCHANGED <<account, store, ask, read, seen, locks>>

Matches(r) ==
  /\ hash.word = ask[r].word
  /\ Is(r, "login") => status = "ACTIVE"

Verify(r) ==
  /\ At(r, "verify")
  /\ IF Matches(r)
     THEN /\ read' = [read EXCEPT ![r] = hash]
          /\ Goto(r, IF Is(r, "login") /\ hash.by = Legacy THEN "rehash" ELSE "lock")
          /\ UNCHANGED answer
     ELSE Reply(r, "REFUSED") /\ UNCHANGED read
  /\ UNCHANGED <<account, store, ask, seen, locks>>

(* UpdatePasswordHash: a statement of its own. *)
Rehash(r) ==
  /\ At(r, "rehash")
  /\ hash' = [word |-> ask[r].word, by |-> r]
  /\ Goto(r, "lock")
  /\ UNCHANGED <<status, mustChange, store, ask, answer, read, seen, locks>>

(* RevokeFamily is one statement: it revokes what it sees when it begins. *)
Look(r) ==
  /\ At(r, "revoke")
  /\ seen' = [seen EXCEPT ![r] = Family(Token(r))]
  /\ Goto(r, "lock")
  /\ UNCHANGED <<account, store, ask, answer, read, locks>>

-----------------------------------------------------------------------------
(* The transaction                                                         *)

Refuse(r) == End(r, "REFUSED") /\ UNCHANGED <<account, store>>

(* A new session of family f, which takes the place of "parents". *)
Open(r, f, parents) ==
  /\ sessions' = sessions \cup {r}
  /\ family' = [family EXCEPT ![r] = f]
  /\ consumed' = consumed \cup parents
  /\ revoked' = revoked \cup parents
  /\ UNCHANGED <<account, ended, loggedOut>>

RevokeAll(S) ==
  /\ revoked' = revoked \cup S
  /\ ended' = ended \cup {family[s] : s \in S}
  /\ UNCHANGED <<sessions, family, consumed, loggedOut>>

(* Mutant: that the account was active when the password was verified will do. *)
CreateSession_NoCheck(r) ==
  /\ Ready(r) /\ Is(r, "login")
  /\ Open(r, r, {}) /\ End(r, "OK")
  /\ UNCHANGED <<ask, read, seen>>

CreateSession(r) ==
  /\ Ready(r) /\ Is(r, "login")
  /\ \/ status = "ACTIVE" /\ Open(r, r, {}) /\ End(r, "OK")
     \/ status = "DISABLED" /\ Refuse(r)
  /\ UNCHANGED <<ask, read, seen>>

(* Mutant: nobody looks whether the token has been exchanged. *)
RotateRefresh_AnyToken(r) ==
  /\ Ready(r) /\ Is(r, "refresh")
  /\ IF status = "ACTIVE"
     THEN Open(r, family[Token(r)], {Token(r)}) /\ End(r, "OK")
     ELSE Refuse(r)
  /\ UNCHANGED <<ask, read, seen>>

(* A refresh token expires, too. *)
RotateRefresh(r) ==
  /\ Ready(r) /\ Is(r, "refresh")
  /\ \/ /\ Token(r) \in consumed
        /\ RevokeAll(seen[r])
        /\ UNCHANGED account
        /\ End(r, "REUSE")
     \/ Token(r) \notin consumed /\ Refuse(r)
     \/ /\ Token(r) \in Live \ consumed
        /\ status = "ACTIVE"
        /\ Open(r, family[Token(r)], {Token(r)})
        /\ End(r, "OK")
  /\ UNCHANGED <<ask, read, seen>>

RevokeFamily(r) ==
  /\ Ready(r) /\ Is(r, "logout")
  /\ revoked' = revoked \cup seen[r]
  /\ loggedOut' = loggedOut \cup {family[Token(r)]}
  /\ End(r, "OK")
  /\ UNCHANGED <<account, sessions, family, consumed, ended, ask, read, seen>>

Disable(r) ==
  /\ Ready(r) /\ Is(r, "disable")
  /\ status' = "DISABLED"
  /\ RevokeAll(seen[r])
  /\ End(r, "OK")
  /\ UNCHANGED <<hash, mustChange, ask, read, seen>>

Restore(r) ==
  /\ Ready(r) /\ Is(r, "restore")
  /\ status' = "ACTIVE"
  /\ End(r, "OK")
  /\ UNCHANGED <<hash, mustChange, store, ask, read, seen>>

SetPassword(r) == hash' = [word |-> ask[r].new, by |-> r]

ResetPassword(r) ==
  /\ Ready(r) /\ Is(r, "reset")
  /\ SetPassword(r)
  /\ mustChange' = TRUE
  /\ RevokeAll(seen[r])
  /\ End(r, "OK")
  /\ UNCHANGED <<status, ask, read, seen>>

RecoverPassword(r) ==
  /\ Ready(r) /\ Is(r, "recover")
  /\ \/ /\ status = "ACTIVE"
        /\ SetPassword(r)
        /\ RevokeAll(seen[r])
        /\ End(r, "OK")
        /\ UNCHANGED <<status, mustChange>>
     \/ status = "DISABLED" /\ Refuse(r)
  /\ UNCHANGED <<ask, read, seen>>

(* Mutant: without AND password_hash = $2. *)
ChangePassword_Unconditional(r) ==
  /\ Ready(r) /\ Is(r, "change")
  /\ \/ /\ status = "ACTIVE"
        /\ SetPassword(r)
        /\ mustChange' = FALSE
        /\ RevokeAll(seen[r])
        /\ End(r, "OK")
        /\ UNCHANGED status
     \/ status = "DISABLED" /\ Refuse(r)
  /\ UNCHANGED <<ask, read, seen>>

(* UPDATE .. WHERE password_hash = $2: the one that was verified. *)
ChangePassword(r) ==
  /\ Ready(r) /\ Is(r, "change")
  /\ \/ /\ Proven(r)
        /\ SetPassword(r)
        /\ mustChange' = FALSE
        /\ RevokeAll(seen[r])
        /\ End(r, "OK")
        /\ UNCHANGED status
     \/ ~ Proven(r) /\ Refuse(r)
  /\ UNCHANGED <<ask, read, seen>>

-----------------------------------------------------------------------------

Step(r) ==
  \/ Authenticate(r) \/ Verify(r) \/ Rehash(r) \/ Look(r) \/ LockRow(r)
  \/ CreateSession(r) \/ RotateRefresh(r) \/ RevokeFamily(r)
  \/ Disable(r) \/ Restore(r)
  \/ ResetPassword(r) \/ RecoverPassword(r) \/ ChangePassword(r)

Next == \E r \in Requests : Call(r) \/ Step(r) \/ Victim(r) \/ Fail(r)

Spec == Init /\ [][Next]_vars

(* A request that can go on goes on, and the database finds deadlocks. *)
FairSpec == Spec /\ \A r \in Requests : WF_vars(Step(r) \/ Victim(r))

-----------------------------------------------------------------------------
(* Properties                                                              *)

TypeOK ==
  /\ status \in {"ACTIVE", "DISABLED"}
  /\ hash \in Hashes
  /\ mustChange \in BOOLEAN
  /\ sessions \subseteq Ids
  /\ family \in [Ids -> Ids]
  /\ revoked \subseteq sessions
  /\ consumed \subseteq revoked
  /\ ended \subseteq Ids
  /\ loggedOut \subseteq Ids
  /\ ask \in [Requests -> Asks \cup {NoAsk}]
  /\ answer \in [Requests -> Answers \cup {NoAnswer}]
  /\ pc \in [Requests -> {"idle", "authenticate", "verify", "rehash", "revoke",
                          "lock", "done"}]
  /\ read \in [Requests -> Hashes]
  /\ seen \in [Requests -> SUBSET sessions]
  /\ locks \in [Requests -> SUBSET Rows]

(* What a reused token, a disabling, a reset, a recovery or a change of the *)
(* password revokes stays revoked: no refresh that was under way brings a   *)
(* session of such a family back.  (README.md: "Disable and reset revoke    *)
(* active sessions".)                                                      *)
EndedFamilies == \A s \in Live : family[s] \notin ended

(* A disabled account has no session, not even one whose login had verified *)
(* the password, and found the account active, before.                      *)
DisabledHasNone == status = "DISABLED" => Live = {}

(* A refresh token is exchanged once: a family never has two sessions.      *)
OneLive == \A s, t \in Live : family[s] = family[t] => s = t

(* A temporary password opens nothing but the change of it: as long as it   *)
(* is the password, a change is required, even if a change that had         *)
(* verified the password before the reset comes to its end after it.        *)
TemporaryIsReplaced ==
  (hash.by \in Requests /\ Is(hash.by, "reset")) => mustChange

(* A change of the password replaces the password that the user proved to   *)
(* know, never one that was set meanwhile.                                 *)
ChangeProven ==
  [][\A r \in Requests : hash' # hash /\ hash'.by = r /\ Is(r, "change")
                            => hash.word = ask[r].word]_vars

(* The password changes only by a change, a reset or a recovery.            *)
(* (README.md: "The command replaces the password".)                        *)
ReplacedOnPurpose ==
  [][hash'.word # hash.word =>
       \E r \in Requests : /\ hash'.by = r
                           /\ ask[r].kind \in {"change", "reset", "recover"}]_vars

(* A logout revokes the family, as its audit record says.                   *)
LogoutEndsFamily == \A s \in Live : family[s] \notin loggedOut

(* Requests that have proved the password, or a token, and not ended yet.   *)
Admitted ==
  {r \in Requests :
     \/ pc[r] \in {"rehash", "revoke"}
     \/ At(r, "verify") /\ Is(r, "change")
     \/ At(r, "lock") /\ ask[r].kind \in {"login", "logout", "change"}}

(* Every request has its whole effect at one moment, although it reads      *)
(* before its transaction, takes its locks one by one, and revokes what it  *)
(* found before it commits.                                                *)
Atomic == INSTANCE AtomicAccount WITH password <- hash.word, admitted <- Admitted
AccountSpec == Atomic!Spec

(* Every request is answered, in spite of deadlocks between refreshes and   *)
(* the operations that lock the account first.                             *)
EventuallyAnswered ==
  \A r \in Requests : ask[r] # NoAsk ~> answer[r] # NoAnswer

=============================================================================
