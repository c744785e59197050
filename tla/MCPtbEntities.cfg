CONSTANTS
  Payload = {0, 1}
  Values <- MCValues
  Serialize <- SerializeEntity
  Deserialize <- DeserializeEntity
  AlterBytes = {0, 1, 2, 3, 4, 7, 127, 128, 255}
  MaxAlter = 2
SPECIFICATION Spec
INVARIANT TypeOK
INVARIANT RoundTrip
INVARIANT Canonical
