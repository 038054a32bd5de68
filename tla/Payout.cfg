SPECIFICATION FairSpec
CONSTANTS
  buyer = buyer g1 = g1 g2 = g2
  o1 = o1 o2 = o2
  r1 = r1 r2 = r2 r3 = r3
  Users = {buyer, g1, g2}
  Minors = {g1}
  NoUser = NoUser
  referrer <- MCReferrer
  Orders = {o1}
  Buyer <- MCBuyer
  Total <- MCTotal
  Ratios = {3000}
  Periods <- MCPeriods
  LastDay = 1
  Runs = {r1, r2}
  MinPayout = 25
  WithholdingBps = 330
  AdminOps <- AccountOps
INVARIANTS
  PayoutsSound
  CompleteRun
PROPERTIES
  PayoutFinal
  RunEnds
\* Every run made and every day passed, nothing is left to happen.
CHECK_DEADLOCK FALSE
