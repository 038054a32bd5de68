SPECIFICATION Spec
CONSTANTS
  buyer = buyer g1 = g1 g2 = g2 g3 = g3
  o1 = o1 o2 = o2
  c1 = c1 c2 = c2 c3 = c3 c4 = c4
  Users = {buyer, g1, g2}
  Minors = {}
  NoUser = NoUser
  referrer <- MCReferrer
  Orders = {o1}
  Buyer <- MCBuyer
  Calls = {c1, c2}
  Totals = {99}
  Ratios = {3000}
  AdminOps <- RoleOps
  Faults = {}
PROPERTIES
  DistributedOnce
\* Every call made, nothing is left to happen.
CHECK_DEADLOCK FALSE
