SPECIFICATION PartSpec
CONSTANTS
  File = {f1, f2, f3}
  NoFile = NoFile
  Call = {k1, k2}
  MaxTries = 5
  Phone = {p1, p2}
  NoPhone = NoPhone
INVARIANTS TypeOK TriesBounded UnsentIsExplained LoginIsSound
PROPERTY RequestsEnd
CHECK_DEADLOCK FALSE
