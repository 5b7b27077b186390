\* A retry after the catalog has changed.
CONSTANTS
  Requests = {r1, r2}
  Customers = {c1}
  Checkouts = {k1}
  Products = {p1}
  Prices = {8, 9}
  NotOrderable = NotOrderable
  NoBody = NoBody
  NoAnswer = NoAnswer
SPECIFICATION Spec
PROPERTY ReuseReturnsOutcome
