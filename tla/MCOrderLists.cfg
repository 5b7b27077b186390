CONSTANTS
  Orders = {1, 2, 3}
  Cashiers = {k1, k2}
  Requests = {r1, r2}
  Asks <- SomeAsks
  MaxTime = 1
  NoAsk = NoAsk
  NoAnswer = NoAnswer
  NoFulfillment = NoFulfillment
  Nobody = Nobody
  Never = Never
  Lists = {l1}
  Wishes <- SomeWishes
  Customers = {c1, c2}
  Owner <- SomeOwner
  MaxLimit = 2
  NoWish = NoWish
  c1 = c1
  c2 = c2
  k1 = k1
  k2 = k2
  r1 = r1
  r2 = r2
  l1 = l1
SPECIFICATION Spec
CONSTRAINT Few
ACTION_CONSTRAINT ByTurns
INVARIANTS TypeOK TrailTrue NothingMissed PageLoadable
PROPERTIES LifeSpec
VIEW WhatMatters
CHECK_DEADLOCK FALSE
