CONSTANTS
  NoEnc = NoEnc
  NoHint = NoHint
  Files <- HintFiles
  Detections <- KnownDetections
  Locales <- MCLocales
  KnownCodecs <- MCKnownCodecs
SPECIFICATION Spec
INVARIANTS
  FilenameHintOverrides
