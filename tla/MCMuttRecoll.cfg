CONSTANTS
  Folders = {"INBOX", "AllMail"}
  AllMail = "AllMail"
  Uniqs = {"u1", "u2"}
  Flags = {"", "S"}
  Contents = {"c1", "c2"}
  NoMsg = NoMsg
  NoPick = NoPick
  InitStores <- MCInitStores
  MaxResults = 3
  MaxRenames = 2
SPECIFICATION Spec
INVARIANTS
  TypeOK
  OneLinkPerMessage
  LossesExplained
