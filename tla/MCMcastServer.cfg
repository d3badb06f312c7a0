SPECIFICATION Spec
CONSTANTS
  Clients = {c1, c2}
  Devs = {d1, d2}
  Periods = {2}
  MaxSubs = 2
  InboxMax = 1
  Copies = 1
  NoDev = NoDev
INVARIANTS NoDuplicateSubscriber
PROPERTIES ClosesOnlyWhenEmpty EverySubscriptionEnds StreamStops
