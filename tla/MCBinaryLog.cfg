CONSTANTS
  ByteBase = 16
  U16 = 1
  U32 = 2
  U64 = 2
  U128 = 3
  FractionDigits = 2
  HexBase = 4
  Controls = {0, 1}
  ShortEscapes = {1, 2, 3}
  Callsites <- MCCallsites
  Events <- MCEvents
  MaxFrames = 4
  MaxRuns = 2
SPECIFICATION Spec
INVARIANTS
  TypeOK
  CompleteLogExpands
  TornTailReported
  IntactPrefixDecodes
  TextsEscaped
PROPERTY DecoderEnds
