SPECIFICATION Spec
CONSTANTS
  c1 = c1 c2 = c2 c3 = c3
  People = {1, 2, 3, 4, 5, 6, 7, 8}
  Minors = {7}
  Applicants = {1, 6, 7}
  Emails = {7, 8}
  Calls = {c1, c2}
  MaxUsers = 7
  AdminOps <- Meanwhile
INVARIANTS
  RejoinAccepted
\* Every call made, nothing is left to happen.
CHECK_DEADLOCK FALSE
