SPECIFICATION Spec
CONSTANTS
  buyer = buyer g1 = g1 g2 = g2
  o1 = o1 o2 = o2
  r1 = r1 r2 = r2 r3 = r3
  Users = {buyer, g1, g2}
  Minors = {}
  NoUser = NoUser
  referrer <- MCReferrer
  Orders = {o1, o2}
  Buyer <- MCBuyer
  Total <- MCTotal
  Ratios = {}
  Periods <- MCPeriods
  LastDay = 3
  Runs = {r1, r2}
  MinPayout = 40
  WithholdingBps = 330
  AdminOps <- NoOps
INVARIANTS
  CarriedOver
\* Every run made and every day passed, nothing is left to happen.
CHECK_DEADLOCK FALSE
