SPECIFICATION FairSpec
CONSTANTS
  c1 = c1 c2 = c2 u1 = u1
  Users = {u1}
  Minors = {u1}
  Calls = {c1, c2}
  MarkRoles = {"STAFF"}
  EventTypes = {"paid", "cancelled"}
  EventTimes = {1, 2}
  Quantities = {1}
  PageSize = 2
  Tables = {"users", "payouts", "products", "ledger"}
  MaxRows = 4
  MaxFetches = 2
INVARIANTS
  StatusTraced
  NoticesSettled
  ItemsKept
  ShownIsRight
PROPERTIES
  NothingSpins
CHECK_DEADLOCK FALSE
