\* getnext and getipath over every member shape.
CONSTANTS
  n1 = n1
  n2 = n2
  Empty = Empty
  NoPath = NoPath
  NoResp = NoResp
  Names = {n1, n2}
  Archives <- MCArchives
  MaxGetNext = 5
SPECIFICATION Spec
INVARIANTS
  TypeOK
  ServedInTarOrder
  ReleasedAtEnd
