\* Both modes (epubcatenate set or unset), streaming and random access
\* over every item shape and spine, the stream pulled to its end.
CONSTANTS
  e1 = e1
  e2 = e2
  NoSpine = NoSpine
  NoResp = NoResp
  NoPath = NoPath
  Names = {e1, e2}
  Books <- MCBooks
  MaxGetNext = 4
SPECIFICATION FairSpec
INVARIANTS
  TypeOK
  ReleasedAtEnd
  AddressesAnswerAsStored
PROPERTIES
  StreamRefinement
  StreamEnds
