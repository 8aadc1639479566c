SPECIFICATION Spec
CONSTANTS
  WordBits = 22
  HalfBits = 11
  Types <- MCTypes
  Later <- MCLater
  UnknownFields <- MCUnknownFields
  Noise <- MCNoise
INVARIANTS
  DecodedIsTyped
  RoundTrip
  NeverOutOfRange
  CutsAreNoticed
  UnknownFieldsSkipped
CHECK_DEADLOCK FALSE
