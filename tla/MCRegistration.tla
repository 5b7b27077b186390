----------------------------- MODULE MCRegistration -----------------------------
(* A small instance of Registration: one address that everybody is after,   *)
(* and another.                                                             *)
EXTENDS Registration, TLC

CONSTANTS r1, r2, v1, v2, e1, e2, g1, i1

OneEmail == [s \in {g1} |-> e1]

(* Everybody who may choose a password, and one from before. *)
AllMakers == {r1, r2, v1, v2, First}

Before(role, verified) ==
  [role |-> role, by |-> NoPassword, active |-> TRUE, verified |-> verified,
   mustChange |-> FALSE]

(* The first address is vacant or an old cashier's, the other vacant or the *)
(* admin's.                                                                 *)
SomeAccounts ==
  {[e \in {e1, e2} |-> IF e = e1 THEN a ELSE b] :
     a \in {Nobody, Before("CASHIER", FALSE)},
     b \in {Nobody, Before("ADMIN", FALSE)}}

SomeLinks == {[s \in {g1} |-> e] : e \in {NoEmail, e2}}

Visiting(kind, e) == [kind |-> kind, intent |-> i1, subject |-> g1, email |-> e]

SomeErrands ==
  {Visiting("LOGIN", e1), Visiting("LINK", e1), Visiting("BOOTSTRAP", e1),
   Visiting("BOOTSTRAP", e2)}

RowBefore ==
  [id |-> First, code |-> First, eligible |-> TRUE, attempts |-> 0, consumed |-> FALSE]

SomePending ==
  {[t \in Tables |-> [e \in {e1, e2} |->
      IF e = e1 /\ t \in T THEN RowBefore ELSE NoRow]] :
     T \in {{"CUSTOMER"}, {"CASHIER"}}}

Asking(kind, table, id, code) ==
  [kind |-> kind, table |-> table, email |-> e1, id |-> id, code |-> code]

SomeAsks ==
  {[Asking("begin", "CUSTOMER", First, Wrong) EXCEPT !.email = e2]} \cup
  {Asking("begin", t, First, Wrong) : t \in Tables} \cup
  {Asking("resend", t, id, Wrong) : t \in Tables, id \in Ids} \cup
  {Asking("verify", t, id, c) : t \in Tables, id \in Ids, c \in Ids \cup {Wrong}}

(* Two requests and a visit, or two visits, of which v1 begins.             *)
Few ==
  \/ On(v2, "idle")
  \/ ~ On(v1, "idle") /\ \A r \in Requests : At(r, "idle")

(* No step and no property looks at an answer once it has been given.       *)
WithoutAnswers ==
  <<account, google, intent, sessions, errand, step, mail, tables, ask, pc, owned>>

Symmetry == Permutations(Requests)

=============================================================================
