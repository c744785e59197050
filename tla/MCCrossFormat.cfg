CONSTANTS
  Payload = {0, 1, 2}
  Values <- MCValues
  Serialize <- SerializeEntity
  Deserialize <- DeserializeEntity
  AlterBytes = {0, 1, 5, 127, 128, 255}
  MaxAlter = 2
SPECIFICATION Spec
INVARIANT Canonical
