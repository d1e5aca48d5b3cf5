SPECIFICATION Spec
CONSTANTS
  Complaint = {c1}
  Grievances = 1
  Spaced = {}
  Statuses = 1
  MaxDay = 2
INVARIANT NoSelectionShowsAll
