\* Two requests at a time of a customer, an agent and an administrator, and an attachment.
SPECIFICATION Spec
CONSTANTS
  Requests = {r1, r2}
  Users = {cust, agent, boss}
  Customers = {cust}
  Agents = {agent}
  Admins = {boss}
  Tickets = {t1}
  Assets = {f1}
  MaxMessages = 3
SYMMETRY Symmetry
INVARIANTS
  UnreadIsCounted
  FilesBelong
PROPERTIES
  ClaimedOnce
\* Every row there may be has been used up.
CHECK_DEADLOCK FALSE
