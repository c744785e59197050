CONSTANTS
  Payload = {0, 1}
  Values <- TagValues
  ValueType <- MCValueType
  Encode <- EncodeEntityDoc
  Decode <- DecodeEntityDoc
  DecimalKeys = {"initial_shared_version", "bridge_object_version"}
  Chars = {43, 45, 47, 48, 49, 57, 58}
  UnknownKey = "extra"
  TagIndices = {0, 1, 2, 3, 4, 5, 6, 7, 8}
  MaxEdits = 2
  EditOps = {"index"}
SPECIFICATION Spec
INVARIANT IndexTagMeansWireVariant
