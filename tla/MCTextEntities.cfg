CONSTANTS
  Payload = {0, 1}
  Values <- EntityValues
  ValueType <- MCValueType
  Encode <- EncodeEntityDoc
  Decode <- DecodeEntityDoc
  DecimalKeys = {"initial_shared_version", "bridge_object_version"}
  Chars = {43, 45, 47, 48, 49, 57, 58}
  UnknownKey = "extra"
  TagIndices = {0}
  MaxEdits = 3
  EditOps = {"set", "ins", "del", "drop", "dup", "add", "inc", "dec"}
SPECIFICATION Spec
INVARIANT TypeOK
INVARIANT TextRoundTrip
INVARIANT FieldEditsDetected
