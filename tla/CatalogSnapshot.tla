----------------------------- MODULE CatalogSnapshot -----------------------------
(***************************************************************************)
(* The catalog that customers page through.  Every API process copies the  *)
(* products of the point of sale page by page (Service.Sync) and publishes *)
(* them as a new revision (Store.ReplaceSnapshot), which keeps itself and  *)
(* the revision before it.  A reader takes the current revision with its   *)
(* first page and names it on later ones (Store.Products).                 *)
(*                                                                         *)
(* Revisions are kept relative to the present: a reader's age is the       *)
(* number of publications since its revision was the current one, 2 when   *)
(* it has been deleted.  Of a product's data only `available' is kept: it  *)
(* tells the revisions apart.                                              *)
(***************************************************************************)
EXTENDS Integers, FiniteSets

CONSTANTS
  Products,  \* product ids, by which pages are ordered
  Syncers,   \* API processes, a catalog synchroniser in each
  Readers,   \* customers
  SyncPage,  \* syncPageSize
  Limit,     \* products on a reader's page
  NoRow      \* there is no row for a product

ASSUME CatalogAssumption ==
  /\ Products \subseteq Nat \ {0}
  /\ IsFiniteSet(Products)
  /\ SyncPage \in Nat \ {0}
  /\ Limit \in Nat \ {0}
  /\ NoRow \notin BOOLEAN

VARIABLES
  source,    \* items of the point of sale: available or not, or NoRow
  current,   \* catalog_products of the current revision
  previous,  \* and of the revision before it
  phase,     \* what a synchroniser is doing
  cursor,    \* afterID, the last product it has read
  found,     \* the products it has read
  at,        \* what a reader's request is doing
  age,       \* its snapshot revision
  after,     \* after_id, the last product it has
  got,       \* the products on its pages
  answer,    \* how its reading ended
  opened     \* history: its snapshot, as it was when it read the revision

catalogVars == <<current, previous>>
syncVars    == <<phase, cursor, found>>
readVars    == <<at, age, after, got, answer, opened>>
vars == <<source, catalogVars, syncVars, readVars>>

-----------------------------------------------------------------------------

Rows == BOOLEAN

Tables == [Products -> Rows \cup {NoRow}]

Nothing == [p \in Products |-> NoRow]

Known(table) == {p \in Products : table[p] # NoRow}

(* WHERE id > after ORDER BY id LIMIT size *)
Following(table, last) == {p \in Known(table) : p > last}

Page(table, last, size) ==
  {p \in Following(table, last) :
     Cardinality({q \in Following(table, last) : q < p}) < size}

HasMore(table, last, size) ==
  Page(table, last, size) # Following(table, last)

(* NextAfterID: the last product of a page. *)
IsLast(p, page) == p \in page /\ \A q \in page : q <= p

(* The products of a page are added to those of the pages before. *)
With(products, table, page) ==
  [p \in Products |-> IF p \in page THEN table[p] ELSE products[p]]

Snapshot(n) == CASE n = 0 -> current
                 [] n = 1 -> previous
                 [] OTHER -> Nothing

Init ==
  /\ source \in [Products -> {TRUE, NoRow}]
  /\ current = Nothing
  /\ previous = Nothing
  /\ phase = [s \in Syncers |-> "idle"]
  /\ cursor = [s \in Syncers |-> 0]
  /\ found = [s \in Syncers |-> Nothing]
  /\ at = [r \in Readers |-> "idle"]
  /\ age = [r \in Readers |-> 0]
  /\ after = [r \in Readers |-> 0]
  /\ got = [r \in Readers |-> Nothing]
  /\ answer = [r \in Readers |-> "NONE"]
  /\ opened = [r \in Readers |-> Nothing]

-----------------------------------------------------------------------------
(* The point of sale adds, removes, sells out and restocks items.           *)

Change(p) ==
  /\ \E row \in Rows \cup {NoRow} : source' = [source EXCEPT ![p] = row]
  /\ UNCHANGED <<catalogVars, syncVars, readVars>>

-----------------------------------------------------------------------------
(* Synchronisation.                                                        *)

Sync(s) ==
  /\ phase[s] = "idle"
  /\ phase' = [phase EXCEPT ![s] = "reading"]
  /\ UNCHANGED <<source, catalogVars, cursor, found, readVars>>

(* One page of the source; Sync goes on until there is no next one. *)
ReadSource(s) ==
  /\ phase[s] = "reading"
  /\ LET page == Page(source, cursor[s], SyncPage)
     IN /\ found' = [found EXCEPT ![s] = With(found[s], source, page)]
        /\ IF HasMore(source, cursor[s], SyncPage)
           THEN /\ \E p \in Products :
                     IsLast(p, page) /\ cursor' = [cursor EXCEPT ![s] = p]
                /\ UNCHANGED phase
           ELSE /\ phase' = [phase EXCEPT ![s] = "publishing"]
                /\ UNCHANGED cursor
  /\ UNCHANGED <<source, catalogVars, readVars>>

Rest(s) ==
  /\ phase' = [phase EXCEPT ![s] = "idle"]
  /\ cursor' = [cursor EXCEPT ![s] = 0]
  /\ found' = [found EXCEPT ![s] = Nothing]

(* Mutant: the synchroniser ends with its first error. *)
SyncFails_Stops(s) ==
  /\ phase[s] \in {"reading", "publishing"}
  /\ phase' = [phase EXCEPT ![s] = "stopped"]
  /\ UNCHANGED <<source, catalogVars, cursor, found, readVars>>

(* The source is out of reach or answers badly, or the transaction fails:   *)
(* runCatalogSync logs it and tries again at the next tick.                 *)
SyncFails(s) ==
  /\ phase[s] \in {"reading", "publishing"}
  /\ Rest(s)
  /\ UNCHANGED <<source, catalogVars, readVars>>

(* The products that were read, and those of the revision before that were  *)
(* not, as unavailable.                                                    *)
Merged(products) ==
  [p \in Products |->
     IF products[p] # NoRow THEN products[p]
     ELSE IF current[p] # NoRow THEN FALSE ELSE NoRow]

Aged == [r \in Readers |-> IF age[r] < 2 THEN age[r] + 1 ELSE 2]

(* Mutant: products that are no longer in the source are not kept. *)
Replace_Forgets(s) ==
  /\ phase[s] = "publishing"
  /\ current' = found[s]
  /\ previous' = current
  /\ age' = Aged
  /\ Rest(s)
  /\ UNCHANGED <<source, at, after, got, answer, opened>>

(* Mutant: DELETE .. WHERE catalog_revision < revision. *)
Replace_PrunesAll(s) ==
  /\ phase[s] = "publishing"
  /\ current' = Merged(found[s])
  /\ previous' = Nothing
  /\ age' = Aged
  /\ Rest(s)
  /\ UNCHANGED <<source, at, after, got, answer, opened>>

(* The UPDATE of catalog_sync_state, its first statement, makes one such    *)
(* transaction wait for the other; readers see all of it or nothing.        *)
ReplaceSnapshot(s) ==
  /\ phase[s] = "publishing"
  /\ current' = Merged(found[s])
  /\ previous' = current
  /\ age' = Aged
  /\ Rest(s)
  /\ UNCHANGED <<source, at, after, got, answer, opened>>

-----------------------------------------------------------------------------
(* A customer's reading: each of these is a statement of its own.           *)

Goto(r, place) == at' = [at EXCEPT ![r] = place]

(* A request without snapshot_revision reads the current one.  A customer    *)
(* may start over at any time, for instance after an error.                 *)
Open(r) ==
  /\ Goto(r, "check")
  /\ age' = [age EXCEPT ![r] = 0]
  /\ after' = [after EXCEPT ![r] = 0]
  /\ got' = [got EXCEPT ![r] = Nothing]
  /\ answer' = [answer EXCEPT ![r] = "NONE"]
  /\ opened' = [opened EXCEPT ![r] = current]
  /\ UNCHANGED <<source, catalogVars, syncVars>>

(* The client asks for the page after the last product it has, or asks      *)
(* again when its request failed.                                          *)
NextPage(r) ==
  /\ after[r] # 0
  /\ at[r] # "done"
  /\ Goto(r, "check")
  /\ UNCHANGED <<source, catalogVars, syncVars, age, after, got, answer, opened>>

Finish(r, result) ==
  /\ Goto(r, "done")
  /\ answer' = [answer EXCEPT ![r] = result]

(* SELECT EXISTS .. WHERE catalog_revision = snapshot *)
Check(r) ==
  /\ at[r] = "check"
  /\ IF Known(Snapshot(age[r])) = {}
     THEN Finish(r, "EXPIRED")
     ELSE Goto(r, "read") /\ UNCHANGED answer
  /\ UNCHANGED <<source, catalogVars, syncVars, age, after, got, opened>>

(* A page of a table, and whether it is the last one. *)
Receive(r, table) ==
  LET page == Page(table, after[r], Limit)
  IN /\ got' = [got EXCEPT ![r] = With(got[r], table, page)]
     /\ IF HasMore(table, after[r], Limit)
        THEN /\ Goto(r, "waiting")
             /\ \E p \in Products :
                  IsLast(p, page) /\ after' = [after EXCEPT ![r] = p]
             /\ UNCHANGED answer
        ELSE Finish(r, "COMPLETE") /\ UNCHANGED after

(* Mutant: WHERE catalog_revision = (the current one), as in Resolve. *)
Read_Current(r) ==
  /\ at[r] = "read"
  /\ Receive(r, current)
  /\ UNCHANGED <<source, catalogVars, syncVars, age, opened>>

Read(r) ==
  /\ at[r] = "read"
  /\ Receive(r, Snapshot(age[r]))
  /\ UNCHANGED <<source, catalogVars, syncVars, age, opened>>

-----------------------------------------------------------------------------

SyncStep(s) == Sync(s) \/ ReadSource(s) \/ SyncFails(s) \/ ReplaceSnapshot(s)

ReadStep(r) == Open(r) \/ NextPage(r) \/ Check(r) \/ Read(r)

Next ==
  \/ \E p \in Products : Change(p)
  \/ \E s \in Syncers : SyncStep(s)
  \/ \E r \in Readers : ReadStep(r)

Spec == Init /\ [][Next]_vars

(* Every synchroniser has a ticker; no page of the source is out of reach   *)
(* for ever, nor does the database refuse every publication.                *)
Fairness ==
  \A s \in Syncers :
    /\ WF_vars(SyncStep(s))
    /\ \A c \in Products \cup {0} : SF_vars(cursor[s] = c /\ ReadSource(s))
    /\ SF_vars(ReplaceSnapshot(s))

FairSpec == Spec /\ Fairness

-----------------------------------------------------------------------------
(* Properties                                                              *)

(* Everything has its type, and a synchroniser at rest has no products left *)
(* from an attempt that failed.                                            *)
TypeOK ==
  /\ source \in Tables /\ current \in Tables /\ previous \in Tables
  /\ phase \in [Syncers -> {"idle", "reading", "publishing"}]
  /\ cursor \in [Syncers -> Products \cup {0}]
  /\ found \in [Syncers -> Tables]
  /\ \A s \in Syncers : phase[s] = "idle" => cursor[s] = 0 /\ found[s] = Nothing
  /\ at \in [Readers -> {"idle", "check", "read", "waiting", "done"}]
  /\ age \in [Readers -> 0 .. 2]
  /\ after \in [Readers -> Products \cup {0}]
  /\ got \in [Readers -> Tables]
  /\ answer \in [Readers -> {"NONE", "COMPLETE", "EXPIRED"}]
  /\ opened \in [Readers -> Tables]

(* The pages of a reader are pages of one snapshot, without gaps: up to its *)
(* cursor it has what the catalog was when it began, whatever was published *)
(* between its requests and between their statements.                      *)
OneSnapshot ==
  \A r \in Readers, p \in Products :
    /\ p <= after[r] => got[r][p] = opened[r][p]
    /\ got[r][p] # NoRow => got[r][p] = opened[r][p]

(* One publication does not disturb a reader: its reading ends with the     *)
(* whole snapshot unless two newer ones were published, or the catalog was  *)
(* empty.  (The DELETE of ReplaceSnapshot.)                                 *)
OldSnapshotServed ==
  \A r \in Readers : age[r] < 2 =>
    /\ answer[r] = "COMPLETE" => got[r] = opened[r]
    /\ answer[r] = "EXPIRED" => opened[r] = Nothing

(* What a customer has on the screen, from however old a snapshot, is in    *)
(* the catalog that a checkout is compared with: a product that has left    *)
(* the source is unavailable there, not unknown.                           *)
ShownStaysKnown ==
  \A r \in Readers : Known(got[r]) \subseteq Known(current)

(* When the point of sale changes no more, the catalog becomes the same,    *)
(* and stays so, through failed synchronisations and through slow ones that *)
(* publish what they read before.                                          *)
EventuallyCurrent ==
  <>[][UNCHANGED source]_source =>
    <>[](\A p \in Products : IF source[p] = NoRow THEN current[p] # TRUE
                             ELSE current[p] = source[p])

=============================================================================
