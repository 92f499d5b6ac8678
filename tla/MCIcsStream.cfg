CONSTANTS
  NoPath = NoPath
  BadPath = BadPath
  NoResp = NoResp
  Files <- WellNestedFiles
  MaxGetNext = 10
SPECIFICATION Spec
INVARIANTS
  TypeOK
  ExtractsTopLevelComponents
PROPERTY
  StreamRefinement
