CONSTANTS
  n1 = n1
  n2 = n2
  n3 = n3
  Top = Top
  Unknown = Unknown
  IndexName = IndexName
  NoName = NoName
  NoResp = NoResp
  Names <- MCNames
  Files <- MCFiles
  MaxHops = 2
  MaxGetNext = 10
SPECIFICATION Spec
INVARIANT
  DefectNeverFailsOpen
