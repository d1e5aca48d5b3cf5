SPECIFICATION PartFairSpec
CONSTANTS
  NoComplaint = NoComplaint
  Complaint = {c1, c2}
  Holder = {h1}
  Call = {k1, k2}
  MaxAccepted = 1
  Photo = {p1, p2}
  NoPhoto = NoPhoto
  Submission = {s1}
  SaveCall = {v1}
PROPERTY ComplaintsGoOn
CHECK_DEADLOCK FALSE
