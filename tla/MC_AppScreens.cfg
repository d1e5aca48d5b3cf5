SPECIFICATION Spec
CONSTANTS
  Complaint = {c1, c2}
  Fetch = {f1, f2}
  MaxStatus = 2
  MaxUpdates = 2
  MaxTask = 6
  MaxLate = 2
  MaxAsked = 2
  Grievances = 2
  Spaced = {2}
  Statuses = 2
  MaxDay = 3
  Distance = {0, 1, 2, 3}
  Limit = 1
  MaxRoads = 3
SYMMETRY MCSymmetry
INVARIANTS TypesHold UpdatesAreShown HomeNeedsLogin ListMatchesCriteria RoadIsRight
PROPERTIES ScreensGoForward
CHECK_DEADLOCK FALSE
