CONSTANTS
  ByteSample = {1, 128, 255}
  MaxBytes = 4
  SextetSample = {0, 1, 16, 63, 64}
  MaxEdits = 2
SPECIFICATION Spec
INVARIANT Base64MatchesReference
INVARIANT Base64Strict
