------------------------------ MODULE AtomicAccount ------------------------------
(***************************************************************************)
(* What the sessions of an account promise, without locks and transactions: *)
(* a request has its whole effect at one moment between its call and its   *)
(* answer, or none.  Who logs in, logs out or changes the password has     *)
(* been admitted before: by the password, or by a token that was alive.    *)
(*                                                                         *)
(* Two things are less than one would like, and are as the code has them:  *)
(* a logout may leave sessions of its family behind, and a login may write *)
(* back the password it has proved.                                        *)
(***************************************************************************)

CONSTANTS Requests, First, Words, Asks, NoAsk, NoAnswer

VARIABLES
  status,      \* is the account active?
  password,
  mustChange,
  sessions,
  family,      \* of each session
  consumed,    \* sessions that were exchanged for another
  revoked,
  ask,
  answer,
  admitted     \* requests that have proved who they are, and are not answered

vars == <<status, password, mustChange, sessions, family, consumed, revoked, ask,
          answer, admitted>>

account == <<status, password, mustChange>>
store == <<sessions, family, consumed, revoked>>

Is(r, kind) == ask[r].kind = kind

Token(r) == ask[r].session

Asked(r) == ask[r] # NoAsk /\ answer[r] = NoAnswer

Admitted(r, kind) == Asked(r) /\ Is(r, kind) /\ r \in admitted

Live == sessions \ revoked

Family(s) == {x \in sessions : family[x] = family[s]}

(* The answer may get lost, although the request has had its effect. *)
Give(r, a) ==
  /\ answer' = [answer EXCEPT ![r] = a] \/ answer' = [answer EXCEPT ![r] = "ERROR"]
  /\ admitted' = admitted \ {r}
  /\ UNCHANGED ask

Init ==
  /\ status = "ACTIVE"
  /\ password \in Words
  /\ mustChange = FALSE
  /\ sessions = {First}
  /\ family = [s \in Requests \cup {First} |-> s]
  /\ consumed = {}
  /\ revoked = {}
  /\ ask = [r \in Requests |-> NoAsk]
  /\ answer = [r \in Requests |-> NoAnswer]
  /\ admitted = {}

Call(r) ==
  /\ ask[r] = NoAsk
  /\ \E m \in Asks : m.session \in sessions /\ ask' = [ask EXCEPT ![r] = m]
  /\ UNCHANGED <<account, store, answer, admitted>>

Admit(r) ==
  /\ Asked(r)
  /\ status = "ACTIVE"
  /\ \/ Is(r, "login") /\ password = ask[r].word
     \/ ask[r].kind \in {"logout", "change"} /\ Token(r) \in Live
  /\ admitted' = admitted \cup {r}
  /\ UNCHANGED <<account, store, ask, answer>>

(* The hash of the password is made anew. *)
WriteBack(r) ==
  /\ Admitted(r, "login")
  /\ password' = ask[r].word
  /\ UNCHANGED <<status, mustChange, store, ask, answer, admitted>>

(* A session of family f, in the place of "parents". *)
Open(r, f, parents) ==
  /\ sessions' = sessions \cup {r}
  /\ family' = [family EXCEPT ![r] = f]
  /\ consumed' = consumed \cup parents
  /\ revoked' = revoked \cup parents
  /\ UNCHANGED account

Revoke(S) == revoked' = revoked \cup S /\ UNCHANGED <<sessions, family, consumed>>

Login(r) ==
  /\ Admitted(r, "login")
  /\ status = "ACTIVE"
  /\ Open(r, r, {})
  /\ Give(r, "OK")

Refresh(r) ==
  /\ Asked(r) /\ Is(r, "refresh")
  /\ status = "ACTIVE"
  /\ Token(r) \in Live \ consumed
  /\ Open(r, family[Token(r)], {Token(r)})
  /\ Give(r, "OK")

(* A token comes back that was exchanged: somebody else has it, too. *)
Reuse(r) ==
  /\ Asked(r) /\ Is(r, "refresh")
  /\ Token(r) \in consumed
  /\ Revoke(Family(Token(r)))
  /\ UNCHANGED account
  /\ Give(r, "REUSE")

Logout(r) ==
  /\ Admitted(r, "logout")
  /\ \E S \in SUBSET Family(Token(r)) : Token(r) \in S /\ Revoke(S)
  /\ UNCHANGED account
  /\ Give(r, "OK")

Disable(r) ==
  /\ Asked(r) /\ Is(r, "disable")
  /\ status' = "DISABLED"
  /\ Revoke(Live)
  /\ UNCHANGED <<password, mustChange>>
  /\ Give(r, "OK")

Restore(r) ==
  /\ Asked(r) /\ Is(r, "restore")
  /\ status' = "ACTIVE"
  /\ UNCHANGED <<password, mustChange, store>>
  /\ Give(r, "OK")

Reset(r) ==
  /\ Asked(r) /\ Is(r, "reset")
  /\ password' = ask[r].new
  /\ mustChange' = TRUE
  /\ Revoke(Live)
  /\ UNCHANGED status
  /\ Give(r, "OK")

Recover(r) ==
  /\ Asked(r) /\ Is(r, "recover")
  /\ status = "ACTIVE"
  /\ password' = ask[r].new
  /\ Revoke(Live)
  /\ UNCHANGED <<status, mustChange>>
  /\ Give(r, "OK")

(* The password is still the one that was proved; other devices log in again. *)
Change(r) ==
  /\ Admitted(r, "change")
  /\ status = "ACTIVE"
  /\ password = ask[r].word
  /\ password' = ask[r].new
  /\ mustChange' = FALSE
  /\ Revoke(Live \ Family(Token(r)))
  /\ UNCHANGED status
  /\ Give(r, "OK")

(* Tokens expire: whatever needs one may be refused.  A logout without one  *)
(* is answered as if it had been done.                                     *)
Refuse(r) ==
  /\ Asked(r)
  /\ \/ /\ \/ Is(r, "login") /\ (status # "ACTIVE" \/ password # ask[r].word)
           \/ Is(r, "refresh") /\ Token(r) \notin consumed
           \/ Is(r, "change")
           \/ Is(r, "recover") /\ status # "ACTIVE"
        /\ Give(r, "REFUSED")
     \/ Is(r, "logout") /\ r \notin admitted /\ Give(r, "OK")
  /\ UNCHANGED <<account, store>>

Fail(r) ==
  /\ Asked(r)
  /\ Give(r, "ERROR")
  /\ UNCHANGED <<account, store>>

Next ==
  \E r \in Requests :
    \/ Call(r) \/ Admit(r) \/ WriteBack(r)
    \/ Login(r) \/ Refresh(r) \/ Reuse(r) \/ Logout(r)
    \/ Disable(r) \/ Restore(r) \/ Reset(r) \/ Recover(r) \/ Change(r)
    \/ Refuse(r) \/ Fail(r)

Spec == Init /\ [][Next]_vars

=============================================================================
