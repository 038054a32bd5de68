SPECIFICATION FairSpec
CONSTANTS
  c1 = c1 c2 = c2 k1 = k1
  None = None
  NeedsTotp = NeedsTotp
  Calls = {c1, c2}
  MaxSecrets = 2
  Links = {k1}
  MaxOpens = 1
INVARIANTS
  ButtonsSound
  WelcomeIsGranted
  LockedOutByOverlap
  CodeFillsOneForm
PROPERTIES
  ButtonComesBack
CHECK_DEADLOCK FALSE
