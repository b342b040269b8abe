\* Nested fields a.b and a.b.a: the default of a.b.a replaces a configured a.b.
CONSTANTS
  a = a  b = b
  Names = {a, b}
  Scalars = {1, 2}
  NoDefault = NoDefault
  None = None
  Fields <- MCNestedFields
  Inputs <- MCInputs
SPECIFICATION Spec
INVARIANT DefaultsKeepSources
