\* getnext/getipath over every container family, chmcatenate set or unset.
CONSTANTS
  h = h
  p = p
  q = q
  Members <- MCMembers
  Containers <- AllContainers
  NoPath = NoPath
  NoTopics = NoTopics
  NoHome = NoHome
  NoFile = NoFile
  NoResp = NoResp
  CodecNames <- MCCodecNames
  MaxGetNext = 6
SPECIFICATION Spec
INVARIANT TypeOK
INVARIANT HandleHeldWhileStreaming
INVARIANT WalkComplete
INVARIANT CharsetAsDeclared
INVARIANT CatenationCoversIndex
PROPERTY StreamRefinement
