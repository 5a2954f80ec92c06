CONSTANTS
  Key = "g"
  Segments = {"a", "true", ""}
  Literals = {"a", ""}
  Placeholders = {":x", ":y"}
  TypeNames = {"Literal", "Boolean", "Hex"}
  Declared = {"Literal", "Boolean"}
  Accepts <- MCAccepts
  Absent = Absent
  MaxAlts = 2
  MaxPatLen = 3
  MaxReqLen = 3
SPECIFICATION Spec
INVARIANT TypeOK
INVARIANT DiagnosticsComplete
PROPERTY Refinement
