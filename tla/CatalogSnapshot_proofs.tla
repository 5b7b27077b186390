------------------------- MODULE CatalogSnapshot_proofs -------------------------
(***************************************************************************)
(* Proofs about CatalogSnapshot for every number of synchronisers, readers *)
(* and products, and all page sizes.                                       *)
(***************************************************************************)
EXTENDS CatalogSnapshot, FiniteSetTheorems, TLAPS

-----------------------------------------------------------------------------
(* The inductive invariant                                                 *)

(* The revisions that are kept are the ones that readers began with.        *)
Held ==
  \A r \in Readers :
    /\ age[r] = 0 => opened[r] = current
    /\ age[r] = 1 => opened[r] = previous

(* A product that was in any revision is in the current one. *)
NeverForgotten ==
  /\ Known(previous) \subseteq Known(current)
  /\ \A r \in Readers : Known(opened[r]) \subseteq Known(current)

(* A reading that goes on has no result. *)
Unanswered == \A r \in Readers : at[r] # "done" => answer[r] = "NONE"

IInv ==
  /\ TypeOK
  /\ OneSnapshot
  /\ OldSnapshotServed
  /\ Held
  /\ NeverForgotten
  /\ Unanswered

-----------------------------------------------------------------------------
(* Pages                                                                   *)

(* A page has what follows, and leaves no gaps. *)
LEMMA PageOfTable ==
  ASSUME NEW table \in Tables, NEW last \in Nat, NEW size \in Nat
  PROVE  /\ Page(table, last, size) \subseteq Following(table, last)
         /\ \A p \in Page(table, last, size), q \in Following(table, last) :
              q < p => q \in Page(table, last, size)
<1> DEFINE F == Following(table, last)
<1>1. Page(table, last, size) \subseteq F
  BY DEF Page
<1>2. ASSUME NEW p \in Page(table, last, size), NEW q \in F, q < p
      PROVE  q \in Page(table, last, size)
  <2> DEFINE A == {x \in F : x < q}
             B == {x \in F : x < p}
  <2>1. F \subseteq Products /\ Products \subseteq Nat /\ IsFiniteSet(Products)
    BY CatalogAssumption DEF Following, Known
  <2>2. p \in F /\ p \in Nat /\ q \in Nat
    BY <1>1, <2>1
  <2>3. A \subseteq B
    <3>1. ASSUME NEW x \in F, x < q PROVE x < p
      <4>1. x \in Nat
        BY <2>1
      <4>2. QED
        BY <1>2, <2>2, <3>1, <4>1
    <3>2. QED
      BY <3>1
  <2>4. IsFiniteSet(B)
    BY <2>1, FS_Subset
  <2>5. IsFiniteSet(A) /\ Cardinality(A) <= Cardinality(B)
    BY <2>3, <2>4, FS_Subset
  <2>6. Cardinality(B) < size
    BY DEF Page
  <2>7. Cardinality(A) \in Nat /\ Cardinality(B) \in Nat
    BY <2>4, <2>5, FS_CardinalityType
  <2>8. Cardinality(A) < size
    BY <2>5, <2>6, <2>7
  <2>9. QED
    BY <2>8 DEF Page
<1>3. QED
  BY <1>1, <1>2

(* Products gained from a page make a table again. *)
LEMMA WithType ==
  ASSUME NEW products \in Tables, NEW table \in Tables, NEW page
  PROVE  With(products, table, page) \in Tables
BY DEF With, Tables

LEMMA NothingType == Nothing \in Tables
BY DEF Nothing, Tables

(* A table gives every product a row or none. *)
LEMMA TableValue ==
  ASSUME NEW table \in Tables, NEW p \in Products
  PROVE  table[p] \in Rows \cup {NoRow}
BY DEF Tables

LEMMA SnapshotType ==
  ASSUME TypeOK, NEW n \in 0 .. 2
  PROVE  Snapshot(n) \in Tables
BY NothingType DEF Snapshot, TypeOK

LEMMA MergedType ==
  ASSUME TypeOK, NEW products \in Tables
  PROVE  /\ Merged(products) \in Tables
         /\ Known(current) \subseteq Known(Merged(products))
<1>1. Merged(products) \in Tables
  BY DEF Merged, Tables, Rows
<1>2. ASSUME NEW p \in Products, current[p] # NoRow
      PROVE  Merged(products)[p] # NoRow
  <2>1. FALSE # NoRow
    BY CatalogAssumption
  <2>2. QED
    BY <1>2, <2>1 DEF Merged
<1>3. QED
  BY <1>1, <1>2 DEF Known

-----------------------------------------------------------------------------
(* Every step keeps the invariant.                                         *)

LEMMA InitIInv == Init => IInv
<1> SUFFICES ASSUME Init PROVE IInv
  OBVIOUS
<1> USE NothingType
<1>1. TypeOK
  <2>1. source \in Tables
    BY DEF Init, Tables, Rows
  <2>2. QED
    BY <2>1 DEF Init, TypeOK
<1>2. OneSnapshot /\ OldSnapshotServed /\ Held /\ NeverForgotten /\ Unanswered
  BY DEF Init, OneSnapshot, OldSnapshotServed, Held, NeverForgotten, Unanswered
<1>3. QED
  BY <1>1, <1>2 DEF IInv

(* The point of sale is not part of it. *)
LEMMA ChangeKeeps ==
  ASSUME IInv, NEW p \in Products, Change(p) PROVE IInv'
<1>1. source' \in Tables
  BY DEF Change, IInv, TypeOK, Tables, Rows
<1>2. UNCHANGED <<current, previous, phase, cursor, found,
                  at, age, after, got, answer, opened>>
  BY DEF Change, catalogVars, syncVars, readVars
<1>3. TypeOK'
  BY <1>1, <1>2 DEF IInv, TypeOK
<1>4. QED
  BY <1>2, <1>3 DEF IInv, OneSnapshot, OldSnapshotServed, Held, NeverForgotten,
                    Unanswered

(* A synchroniser that reads changes nothing that readers see. *)
LEMMA SyncingKeeps ==
  ASSUME IInv, NEW s \in Syncers, Sync(s) \/ ReadSource(s) \/ SyncFails(s)
  PROVE  IInv'
<1>1. UNCHANGED <<source, current, previous, at, age, after, got, answer, opened>>
  BY DEF Sync, ReadSource, SyncFails, catalogVars, readVars
<1>2. /\ phase' \in [Syncers -> {"idle", "reading", "publishing"}]
      /\ cursor' \in [Syncers -> Products \cup {0}]
      /\ found' \in [Syncers -> Tables]
      /\ \A t \in Syncers : phase'[t] = "idle" => cursor'[t] = 0 /\ found'[t] = Nothing
  <2>1. CASE Sync(s)
    BY <2>1 DEF Sync, IInv, TypeOK
  <2>2. CASE ReadSource(s)
    <3> DEFINE page == Page(source, cursor[s], SyncPage)
    <3>1. With(found[s], source, page) \in Tables
      BY WithType DEF IInv, TypeOK
    <3>2. found' \in [Syncers -> Tables]
      BY <2>2, <3>1 DEF ReadSource, IInv, TypeOK
    <3>3. /\ phase' \in [Syncers -> {"idle", "reading", "publishing"}]
          /\ cursor' \in [Syncers -> Products \cup {0}]
      BY <2>2 DEF ReadSource, IInv, TypeOK
    <3>4. phase'[s] # "idle"
      BY <2>2 DEF ReadSource, IInv, TypeOK
    <3>5. \A t \in Syncers \ {s} :
            phase'[t] = phase[t] /\ cursor'[t] = cursor[t] /\ found'[t] = found[t]
      BY <2>2 DEF ReadSource, IInv, TypeOK
    <3>6. QED
      BY <3>2, <3>3, <3>4, <3>5 DEF IInv, TypeOK
  <2>3. CASE SyncFails(s)
    BY <2>3, NothingType DEF SyncFails, Rest, IInv, TypeOK
  <2>4. QED
    BY <2>1, <2>2, <2>3
<1>3. TypeOK'
  BY <1>1, <1>2 DEF IInv, TypeOK
<1>4. QED
  BY <1>1, <1>3 DEF IInv, OneSnapshot, OldSnapshotServed, Held, NeverForgotten,
                    Unanswered

(* A publication makes every revision one older. *)
LEMMA ReplaceKeeps ==
  ASSUME IInv, NEW s \in Syncers, ReplaceSnapshot(s) PROVE IInv'
<1>1. UNCHANGED <<source, at, after, got, answer, opened>>
  BY DEF ReplaceSnapshot
<1>2. /\ current' \in Tables
      /\ Known(current) \subseteq Known(current')
  BY MergedType DEF ReplaceSnapshot, IInv, TypeOK
<1>3. previous' = current
  BY DEF ReplaceSnapshot
<1>4. \A r \in Readers :
        /\ age'[r] \in 0 .. 2
        /\ age'[r] # 0
        /\ age'[r] = 1 => age[r] = 0
  BY DEF ReplaceSnapshot, Aged, IInv, TypeOK
<1>5. age' \in [Readers -> 0 .. 2]
  BY DEF ReplaceSnapshot, Aged, IInv, TypeOK
<1>6. TypeOK'
  <2>1. /\ phase' \in [Syncers -> {"idle", "reading", "publishing"}]
        /\ cursor' \in [Syncers -> Products \cup {0}]
        /\ found' \in [Syncers -> Tables]
        /\ \A t \in Syncers : phase'[t] = "idle" => cursor'[t] = 0 /\ found'[t] = Nothing
    BY NothingType DEF ReplaceSnapshot, Rest, IInv, TypeOK
  <2>2. QED
    BY <1>1, <1>2, <1>3, <1>5, <2>1 DEF IInv, TypeOK
<1>7. OneSnapshot' /\ Unanswered'
  BY <1>1 DEF IInv, OneSnapshot, Unanswered
<1>8. Held'
  BY <1>1, <1>3, <1>4 DEF IInv, Held
<1>9. OldSnapshotServed'
  <2>1. \A r \in Readers : age'[r] < 2 => age[r] < 2
    BY <1>4 DEF IInv, TypeOK
  <2>2. QED
    BY <1>1, <2>1 DEF IInv, OldSnapshotServed
<1>10. NeverForgotten'
  BY <1>1, <1>2, <1>3 DEF IInv, NeverForgotten, Known
<1>11. QED
  BY <1>6, <1>7, <1>8, <1>9, <1>10 DEF IInv

LEMMA OpenKeeps ==
  ASSUME IInv, NEW r \in Readers, Open(r) PROVE IInv'
<1>1. UNCHANGED <<source, current, previous, phase, cursor, found>>
  BY DEF Open, catalogVars, syncVars
<1>2. \A q \in Readers \ {r} :
        /\ at'[q] = at[q] /\ age'[q] = age[q] /\ after'[q] = after[q]
        /\ got'[q] = got[q] /\ answer'[q] = answer[q] /\ opened'[q] = opened[q]
  BY DEF Open, Goto, IInv, TypeOK
<1>3. /\ at'[r] = "check" /\ age'[r] = 0 /\ after'[r] = 0
      /\ got'[r] = Nothing /\ answer'[r] = "NONE" /\ opened'[r] = current
  BY DEF Open, Goto, IInv, TypeOK
<1>4. TypeOK'
  BY <1>1, NothingType DEF Open, Goto, IInv, TypeOK
<1>5. OneSnapshot'
  <2>1. \A p \in Products : Nothing[p] = NoRow /\ ~ (p <= 0)
    BY CatalogAssumption DEF Nothing
  <2>2. QED
    BY <1>2, <1>3, <2>1 DEF IInv, OneSnapshot
<1>6. OldSnapshotServed'
  BY <1>2, <1>3 DEF IInv, OldSnapshotServed
<1>7. Held' /\ NeverForgotten' /\ Unanswered'
  BY <1>1, <1>2, <1>3 DEF IInv, Held, NeverForgotten, Unanswered, Known
<1>8. QED
  BY <1>4, <1>5, <1>6, <1>7 DEF IInv

LEMMA NextPageKeeps ==
  ASSUME IInv, NEW r \in Readers, NextPage(r) PROVE IInv'
<1>1. UNCHANGED <<source, current, previous, phase, cursor, found,
                  age, after, got, answer, opened>>
  BY DEF NextPage, catalogVars, syncVars
<1>2. /\ at' \in [Readers -> {"idle", "check", "read", "waiting", "done"}]
      /\ \A q \in Readers : at'[q] # "done" => at[q] # "done"
  BY DEF NextPage, Goto, IInv, TypeOK
<1>3. TypeOK'
  BY <1>1, <1>2 DEF IInv, TypeOK
<1>4. QED
  BY <1>1, <1>2, <1>3 DEF IInv, OneSnapshot, OldSnapshotServed, Held,
                          NeverForgotten, Unanswered

(* A snapshot that is found empty, while it is kept, has always been so. *)
LEMMA CheckKeeps ==
  ASSUME IInv, NEW r \in Readers, Check(r) PROVE IInv'
<1>1. UNCHANGED <<source, current, previous, phase, cursor, found,
                  age, after, got, opened>>
  BY DEF Check, catalogVars, syncVars
<1>2. \A q \in Readers \ {r} : at'[q] = at[q] /\ answer'[q] = answer[q]
  BY DEF Check, Goto, Finish, IInv, TypeOK
<1>3. /\ at' \in [Readers -> {"idle", "check", "read", "waiting", "done"}]
      /\ answer' \in [Readers -> {"NONE", "COMPLETE", "EXPIRED"}]
  BY DEF Check, Goto, Finish, IInv, TypeOK
<1>4. answer[r] = "NONE"
  BY DEF Check, IInv, Unanswered
<1>5. \/ /\ Known(Snapshot(age[r])) = {}
         /\ at'[r] = "done" /\ answer'[r] = "EXPIRED"
      \/ at'[r] = "read" /\ answer'[r] = "NONE"
  BY <1>4 DEF Check, Goto, Finish, IInv, TypeOK
<1>6. TypeOK'
  BY <1>1, <1>3 DEF IInv, TypeOK
<1>7. ASSUME age[r] < 2, answer'[r] = "EXPIRED" PROVE opened[r] = Nothing
  <2>1. opened[r] = Snapshot(age[r])
    BY <1>7 DEF IInv, TypeOK, Held, Snapshot
  <2>2. Known(opened[r]) = {}
    BY <1>5, <1>7, <2>1
  <2>3. \A p \in Products : opened[r][p] = NoRow
    BY <2>2 DEF Known
  <2>4. opened[r] \in Tables
    BY DEF IInv, TypeOK
  <2>5. QED
    BY <2>3, <2>4 DEF Tables, Nothing
<1>8. OldSnapshotServed'
  BY <1>1, <1>2, <1>5, <1>7 DEF IInv, OldSnapshotServed
<1>9. Unanswered'
  BY <1>2, <1>5 DEF IInv, Unanswered
<1>10. QED
  BY <1>1, <1>6, <1>8, <1>9 DEF IInv, OneSnapshot, Held, NeverForgotten

(* A page continues the pages before it. *)
LEMMA ReadKeeps ==
  ASSUME IInv, NEW r \in Readers, Read(r) PROVE IInv'
<1> DEFINE table == Snapshot(age[r])
           page == Page(table, after[r], Limit)
<1>1. UNCHANGED <<source, current, previous, phase, cursor, found, age, opened>>
  BY DEF Read, catalogVars, syncVars
<1>2. \A q \in Readers \ {r} :
        /\ at'[q] = at[q] /\ after'[q] = after[q]
        /\ got'[q] = got[q] /\ answer'[q] = answer[q]
  BY DEF Read, Receive, Goto, Finish, IInv, TypeOK
<1>3. table \in Tables /\ after[r] \in Nat /\ Limit \in Nat
  <2>1. age[r] \in 0 .. 2 /\ after[r] \in Products \cup {0}
    BY DEF IInv, TypeOK
  <2>2. table \in Tables
    BY <2>1, SnapshotType DEF IInv
  <2>3. Products \subseteq Nat /\ Limit \in Nat
    BY CatalogAssumption
  <2>4. after[r] \in Nat
    <3>1. CASE after[r] = 0
      BY <3>1
    <3>2. CASE after[r] \in Products
      BY <2>3, <3>2, Zenon
    <3>3. QED
      BY <2>1, <3>1, <3>2
  <2>5. QED
    BY <2>2, <2>3, <2>4
<1>4. got'[r] = With(got[r], table, page)
  BY DEF Read, Receive, IInv, TypeOK
<1>5. answer[r] = "NONE"
  BY DEF Read, IInv, Unanswered
<1>6. \/ /\ at'[r] = "waiting" /\ answer'[r] = "NONE"
         /\ page # Following(table, after[r])
         /\ IsLast(after'[r], page)
      \/ /\ at'[r] = "done" /\ answer'[r] = "COMPLETE" /\ after'[r] = after[r]
         /\ page = Following(table, after[r])
  BY <1>5 DEF Read, Receive, HasMore, Goto, Finish, IInv, TypeOK
<1>7. TypeOK'
  <2>1. got' \in [Readers -> Tables]
    <3>1. With(got[r], table, page) \in Tables
      BY <1>3, WithType DEF IInv, TypeOK
    <3>2. QED
      BY <3>1 DEF Read, Receive, IInv, TypeOK
  <2>2. /\ at' \in [Readers -> {"idle", "check", "read", "waiting", "done"}]
        /\ answer' \in [Readers -> {"NONE", "COMPLETE", "EXPIRED"}]
        /\ after' \in [Readers -> Products \cup {0}]
    BY DEF Read, Receive, Goto, Finish, IInv, TypeOK
  <2>3. QED
    BY <1>1, <2>1, <2>2 DEF IInv, TypeOK
<1>8. page \subseteq Following(table, after[r])
      /\ \A p \in page, q \in Following(table, after[r]) : q < p => q \in page
  BY <1>3, PageOfTable
<1>9. ASSUME NEW p \in Products
      PROVE  /\ p \in page => /\ age[r] < 2
                              /\ table[p] = opened[r][p]
                              /\ got'[r][p] = table[p]
             /\ p \notin page => got'[r][p] = got[r][p]
             /\ age[r] < 2 => table[p] = opened[r][p]
  <2>1. age[r] < 2 => table = opened[r]
    BY DEF IInv, TypeOK, Held, Snapshot
  <2>2. ~ (age[r] < 2) => table[p] = NoRow
    BY DEF IInv, TypeOK, Snapshot, Nothing
  <2>3. p \in page => table[p] # NoRow
    BY <1>8 DEF Following, Known
  <2>4. /\ p \in page => got'[r][p] = table[p]
        /\ p \notin page => got'[r][p] = got[r][p]
    BY <1>4 DEF With
  <2>5. QED
    BY <2>1, <2>2, <2>3, <2>4
<1>10. ASSUME NEW p \in Products
       PROVE  /\ p <= after'[r] => got'[r][p] = opened[r][p]
              /\ got'[r][p] # NoRow => got'[r][p] = opened[r][p]
  <2>1. CASE p \in page
    BY <1>9, <2>1
  <2>2. CASE p \notin page
    <3>1. got'[r][p] = got[r][p]
      BY <1>9, <2>2
    <3>2. got[r][p] # NoRow => got[r][p] = opened[r][p]
      BY DEF IInv, OneSnapshot
    <3>3. ASSUME p <= after[r] PROVE got[r][p] = opened[r][p]
      BY <3>3 DEF IInv, OneSnapshot
    <3>4. ASSUME p <= after'[r], ~ (p <= after[r]) PROVE got[r][p] = opened[r][p]
      <4>1. IsLast(after'[r], page) /\ after'[r] \in page /\ after'[r] \in Products
        BY <1>6, <1>8, <3>4 DEF IsLast, Following, Known
      <4>2. p \in Nat /\ after'[r] \in Nat /\ p > after[r] /\ p < after'[r]
        <5>1. p \in Nat /\ after'[r] \in Nat
          BY <4>1, CatalogAssumption
        <5>2. p # after'[r]
          BY <2>2, <4>1
        <5>3. QED
          BY <1>3, <3>4, <5>1, <5>2
      <4>3. p \notin Following(table, after[r])
        BY <1>8, <2>2, <4>1, <4>2
      <4>4. table[p] = NoRow
        BY <4>2, <4>3 DEF Following, Known
      <4>5. opened[r][p] = NoRow
        BY <1>9, <4>1, <4>4
      <4>6. QED
        BY <3>2, <4>5
    <3>5. QED
      BY <3>1, <3>2, <3>3, <3>4
  <2>3. QED
    BY <2>1, <2>2
<1>11. OneSnapshot'
  BY <1>1, <1>2, <1>10 DEF IInv, OneSnapshot
<1>12. ASSUME age[r] < 2, answer'[r] = "COMPLETE" PROVE got'[r] = opened[r]
  <2>1. page = Following(table, after[r])
    BY <1>6, <1>12
  <2>2. ASSUME NEW p \in Products PROVE got'[r][p] = opened[r][p]
    <3>1. CASE p <= after[r]
      BY <1>6, <1>10, <1>12, <3>1
    <3>2. CASE ~ (p <= after[r])
      <4>1. p > after[r]
        BY <1>3, <3>2, CatalogAssumption
      <4>2. CASE table[p] = NoRow
        BY <1>9, <1>10, <1>12, <4>2
      <4>3. CASE table[p] # NoRow
        BY <1>9, <2>1, <4>1, <4>3 DEF Following, Known
      <4>4. QED
        BY <4>2, <4>3
    <3>3. QED
      BY <3>1, <3>2
  <2>3. got'[r] \in Tables /\ opened[r] \in Tables
    BY <1>7 DEF IInv, TypeOK
  <2>4. QED
    BY <2>2, <2>3 DEF Tables
<1>13. OldSnapshotServed'
  BY <1>1, <1>2, <1>6, <1>12 DEF IInv, OldSnapshotServed
<1>14. Held' /\ NeverForgotten' /\ Unanswered'
  BY <1>1, <1>2, <1>6 DEF IInv, Held, NeverForgotten, Unanswered
<1>15. QED
  BY <1>7, <1>11, <1>13, <1>14 DEF IInv

LEMMA NextIInv == IInv /\ [Next]_vars => IInv'
<1> SUFFICES ASSUME IInv, [Next]_vars PROVE IInv'
  OBVIOUS
<1>1. CASE \E p \in Products : Change(p)
  BY <1>1, ChangeKeeps
<1>2. CASE \E s \in Syncers : SyncStep(s)
  BY <1>2, SyncingKeeps, ReplaceKeeps DEF SyncStep
<1>3. CASE \E r \in Readers : ReadStep(r)
  BY <1>3, OpenKeeps, NextPageKeeps, CheckKeeps, ReadKeeps DEF ReadStep
<1>4. CASE UNCHANGED vars
  BY <1>4 DEF vars, catalogVars, syncVars, readVars, IInv, TypeOK, OneSnapshot,
              OldSnapshotServed, Held, NeverForgotten, Unanswered
<1>5. QED
  BY <1>1, <1>2, <1>3, <1>4 DEF Next

-----------------------------------------------------------------------------
(* The theorems.                                                           *)

(* The inductive invariant holds. *)
THEOREM CatalogInvariance == Spec => []IInv
BY InitIInv, NextIInv, PTL DEF Spec

(* TypeOK holds: whatever fails, a synchronisation starts from nothing.      *)
THEOREM CatalogTypeCorrect == Spec => []TypeOK
<1>1. IInv => TypeOK
  BY DEF IInv
<1>2. QED
  BY <1>1, CatalogInvariance, PTL

(* The pages of a reader are pages of one snapshot (Store.Products). *)
THEOREM PagesOfOneSnapshot == Spec => []OneSnapshot
<1>1. IInv => OneSnapshot
  BY DEF IInv
<1>2. QED
  BY <1>1, CatalogInvariance, PTL

(* A reading is cut short only by two publications (ReplaceSnapshot). *)
THEOREM TwoSnapshotsAreServed == Spec => []OldSnapshotServed
<1>1. IInv => OldSnapshotServed
  BY DEF IInv
<1>2. QED
  BY <1>1, CatalogInvariance, PTL

(* What a customer was shown is never unknown to a checkout                 *)
(* (ReplaceSnapshot keeps products that left the source).                   *)
THEOREM ProductsStayKnown == Spec => []ShownStaysKnown
<1>1. IInv => ShownStaysKnown
  BY DEF IInv, OneSnapshot, NeverForgotten, ShownStaysKnown, Known
<1>2. QED
  BY <1>1, CatalogInvariance, PTL

=============================================================================
