CONSTANTS
  MaxLen = 4
  StreamLen = 6
  RetryLimit = 10
SPECIFICATION Spec
INVARIANT InterruptIsRetried
CHECK_DEADLOCK FALSE
