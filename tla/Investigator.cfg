SPECIFICATION Spec
CHECK_DEADLOCK FALSE
CONSTANTS
  Targets = 2
  Concurrency = 2
  MaxFaults = 2
INVARIANT EditFollowsVerdict
INVARIANT VerdictDecidesPlan
INVARIANT SilenceTakesTwoFaults
INVARIANT NothingLeftPending
PROPERTY RemovalStands
