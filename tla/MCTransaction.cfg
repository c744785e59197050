CONSTANTS
  Payload = {0, 1, 2}
  KindPayload = {0}
  MaxCommands = 2
  MaxSignatures = 1
  Values <- MCValues
  Serialize <- SerializeEntity
  Deserialize <- DeserializeEntity
  AlterBytes = {0, 1, 3, 127, 128, 255}
  MaxAlter = 1
SPECIFICATION Spec
INVARIANT RoundTrip
INVARIANT Canonical
