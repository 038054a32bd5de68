SPECIFICATION Spec
CONSTANTS
  c1 = c1 c2 = c2 c3 = c3
  Calls = {c1, c2, c3}
  Operations = {"login", "totpLogin", "refresh", "setup", "enable", "disable", "otpRequest", "otpVerify"}
  Kinds = {"SMS", "EMAIL"}
  Reachable = {"SMS", "EMAIL"}
  LastTick = 1
  OtpTtl = 0
  OtpCooldown = 0
  MaxAttempts = 2
  SessionTtl = 1
INVARIANTS
  RotatedIsRevoked
  ReuseRefused
  OtpOnce
  ChallengesSound
  RequestsSpaced
\* Every call made, nothing is left to happen.
CHECK_DEADLOCK FALSE
