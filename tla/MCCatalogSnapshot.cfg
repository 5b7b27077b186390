\* Two products on pages of one; safety and liveness together.
CONSTANTS
  Products = {1, 2}
  Syncers = {s1}
  Readers = {r1}
  SyncPage = 1
  Limit = 1
  NoRow = NoRow
SPECIFICATION FairSpec
INVARIANTS OneSnapshot OldSnapshotServed ShownStaysKnown
 
