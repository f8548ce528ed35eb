\* Two requests at a time of a customer and an administrator.
SPECIFICATION Spec
CONSTANTS
  Requests = {r1, r2}
  Users = {adm, cli}
  Admins = {adm}
  Customers = {cli}
  MaxSessions = 3
  MaxCodes = 1
  MaxPrivacy = 1
SYMMETRY Symmetry
INVARIANTS
  RotatedOnce
  CodeUsedOnce
  FulfilledOnce
PROPERTIES
  DeletedIsNotRefreshed
\* Every row there may be has been used up.
CHECK_DEADLOCK FALSE
