CONSTANTS
  NoEnc = NoEnc
  NoHint = NoHint
  Files <- AllFiles
  Detections <- MCDetections
  Locales <- MCLocales
  KnownCodecs <- MCKnownCodecs
SPECIFICATION Spec
INVARIANTS
  TypeOK
  NullsOnlyForWideEncodings
