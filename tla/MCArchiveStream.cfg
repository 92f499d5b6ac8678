\* zip, tar and rar: streaming and random access over every member shape.
CONSTANTS
  n1 = n1
  n2 = n2
  Empty = Empty
  NoPath = NoPath
  NoResp = NoResp
  Kinds = {"zip", "tar", "rar"}
  Names = {n1, n2}
  Archives <- MCArchives
  MaxGetNext = 5
SPECIFICATION Spec
INVARIANTS
  TypeOK
  MembersServedAsStored
PROPERTY
  StreamRefinement
