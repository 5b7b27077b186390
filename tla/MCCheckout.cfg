\* Three requests for one checkout id, two customers, a product that changes;
\* liveness is checked with safety, so no symmetry.
CONSTANTS
  Requests = {r1, r2, r3}
  Customers = {c1, c2}
  Checkouts = {k1}
  Products = {p1}
  Prices = {8, 9}
  NotOrderable = NotOrderable
  NoBody = NoBody
  NoAnswer = NoAnswer
SPECIFICATION FairSpec
PROPERTIES PromiseSpec EventuallyAnswered
