\* Sandbox admission over every request of MC_SandboxPolicy; the call
\* returns and the model stops, so deadlock is not checked.
CONSTANTS
  None = None
  Names <- MCNames
  CharsOf <- MCCharsOf
  Cwd <- MCCwd
  Requests <- MCRequests
  Registered <- MCRegistered
SPECIFICATION Spec
CHECK_DEADLOCK FALSE
INVARIANT NormalizeMatchesReference LeastPrivilege LimitsMatchSpec AdmittedGrantValid
