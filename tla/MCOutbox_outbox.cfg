\* Two workers, a confirmation for two users and a status change for one.
SPECIFICATION FairSpec
CONSTANTS
  u1 = u1
  u2 = u2
  Users = {u1, u2}
  Recipients <- ConfirmThenStatus
  MaxEvents = 2
  Announced = {1}
  Workers = {w1, w2}
  BatchSize = 2
  MaxAttempts = 2
  MaxStalls = 1
INVARIANTS
  PublishedIsDelivered
  GivenUpLate
  HandledAlone
PROPERTIES
  EveryEventSettles
\* Every event may have been published or given up.
CHECK_DEADLOCK FALSE
