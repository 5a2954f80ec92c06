CONSTANTS
  Key = "g"
  Segments = {"true", ""}
  Literals = {}
  Placeholders = {":x"}
  TypeNames = {"Literal", "Boolean", "Hex"}
  Declared = {"Literal", "Boolean"}
  Accepts <- MCAccepts
  Absent = Absent
  MaxAlts = 2
  MaxPatLen = 2
  MaxReqLen = 2
  GroupKeys = {"g", "h"}
  PathChoices <- MCPathChoices
  NonString = NonString
  NonBool = NonBool
  Missing = Missing
  DocValues = {TRUE, FALSE}
  FormRoute <- MCFormRoute
SPECIFICATION Spec
CHECK_DEADLOCK FALSE
INVARIANT UnknownGroupAnswered
