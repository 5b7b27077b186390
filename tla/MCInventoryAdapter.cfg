\* Two calls, two transactions for each; liveness is checked with safety, so no
\* symmetry.
CONSTANTS
  Items = {1, 2}
  Kind <- MCKind
  Recipe <- MCRecipe
  Scale = 2
  opA = opA
  opB = opB
  ev1 = ev1
  ev2 = ev2
  Calls = {c1, c2}
  Operations = {opA, opB}
  Events = {ev1, ev2}
  Commands <- MCCommands
  Levels = {0, 2}
  MaxTries = 2
  NoCommand = NoCommand
  NoAnswer = NoAnswer
SPECIFICATION FairSpec
INVARIANT NoOversell
PROPERTIES AtomicSpec EventuallyAnswered
