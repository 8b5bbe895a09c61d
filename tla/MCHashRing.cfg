SPECIFICATION Spec
CONSTANTS
  Names = {a, b, c}
  None = None
  VNodes = 2
  Space = 7
  Hashes <- AllHashes
INVARIANTS TypeOK RingHoldsMembers RoutesClockwise
PROPERTIES OnlyItsKeysMove
