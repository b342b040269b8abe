\* Repro: the file opened for an admitted op lies outside its capability,
\* root or whitelists (PathConfined is violated).
CONSTANTS
  None = None
  Names <- MCNames
  CharsOf <- MCCharsOf
  Cwd <- MCCwd
  Requests <- MCRequests
  Registered <- MCRegistered
SPECIFICATION Spec
CHECK_DEADLOCK FALSE
INVARIANT PathConfined
