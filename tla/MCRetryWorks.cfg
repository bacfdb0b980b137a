CONSTANTS
  Starts = {s1, s2, s3}
  Children = {c1, c2, c3}
  NoChild = NoChild
  MaxRestarts = 1
  MaxRetries = 1
SPECIFICATION SupervisorSpec
CHECK_DEADLOCK FALSE
INVARIANT RetryWorks
