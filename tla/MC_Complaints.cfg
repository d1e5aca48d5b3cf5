SPECIFICATION PartSpec
CONSTANTS
  NoComplaint = NoComplaint
  Complaint = {c1, c2}
  Holder = {h1, h2}
  Call = {k1, k2}
  MaxAccepted = 2
  Photo = {p1, p2}
  NoPhoto = NoPhoto
  Submission = {s1, s2}
  SaveCall = {v1, v2}
SYMMETRY MCSymmetry
CONSTRAINT MCBound
INVARIANTS TypeOK NeverLost RecordsConsistent DuplicatesAreExplained FormPostsItsPhoto FormIsExplained
PROPERTIES DeletedIsNotPosted ImplementsDelivery
CHECK_DEADLOCK FALSE
