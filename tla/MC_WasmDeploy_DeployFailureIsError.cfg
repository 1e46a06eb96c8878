CONSTANTS
  MAX_EVM_RESULT = 2
  Bytes <- MCBytes
  MaxCalls = 3

SPECIFICATION Spec
\* a panic ends the calling thread, and the model stops after MaxCalls calls
CHECK_DEADLOCK FALSE

INVARIANT DeployFailureIsError
