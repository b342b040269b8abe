\* Flat fields with defaults; eight source trees, two sources per load.
CONSTANTS
  a = a  b = b
  Names = {a, b}
  Scalars = {1, 2}
  NoDefault = NoDefault
  None = None
  Fields <- MCFields
  Inputs <- MCInputs
SPECIFICATION Spec
INVARIANT MergeMatchesReference DefaultsKeepSources
PROPERTY ChangedKeysExact
