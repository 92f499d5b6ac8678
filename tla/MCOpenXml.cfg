CONSTANTS
  Files <- MCFiles
  Value <- MCValue
SPECIFICATION Spec
INVARIANTS
  TypeOK
  InDocumentOrder
  BlocksIndependent
