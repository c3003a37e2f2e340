SPECIFICATION Spec
CONSTANTS
  IdSpan = 3
  MaxAttempts = 2
  MaxRetries = 1
  MaxPoll = 2
  MaxCalls = 5
  MaxInds = 2
  MaxFaults = 2
INVARIANT AnswerIsOwn
INVARIANT CleanCallsAreExact
INVARIANT CleanPollsGetIndications
INVARIANT AcknowledgedIsQueued
PROPERTY CallReturns
CHECK_DEADLOCK FALSE
