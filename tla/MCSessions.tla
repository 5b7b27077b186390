------------------------------- MODULE MCSessions -------------------------------
(* Small instances of Sessions.                                             *)
EXTENDS Sessions, TLC

CONSTANTS old, new

(* A hash that is to be replaced by a login, which leads to one that is not. *)
OldHash == {[word |-> old, by |-> Legacy]}

Ask(kind, s, word, next) == [kind |-> kind, session |-> s, word |-> word, new |-> next]

(* An operation that has no session carries the first one's, which is ignored. *)
Refreshes == {Ask("refresh", s, old, old) : s \in Ids}
FromFirst == {Ask("logout", First, old, old), Ask("change", First, old, new)}
Anywhere ==
  {Ask("login", First, w, w) : w \in Words}
  \cup
  {Ask("reset", First, old, new),
   Ask("recover", First, old, new), Ask("disable", First, old, old),
   Ask("restore", First, old, old)}

AllAsks == Refreshes \cup FromFirst \cup Anywhere

Symmetry == Permutations(Requests)

=============================================================================
