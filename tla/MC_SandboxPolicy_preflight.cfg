\* Repro: requests that ToolPreflight::preflight builds and admits reach
\* Sandbox::execute and open a file outside the capability (PathConfined).
CONSTANTS
  None = None
  Names <- MCNames
  CharsOf <- MCCharsOf
  Cwd <- MCCwd
  Requests <- MCPreflightRequests
  Registered <- MCRegistered
SPECIFICATION Spec
CHECK_DEADLOCK FALSE
INVARIANT PathConfined
