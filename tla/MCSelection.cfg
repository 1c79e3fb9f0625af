SPECIFICATION Spec
CONSTANTS
  Requests <- MCRequests
  MaxSize = 7
  MaxBeam = 4
  Values = {0, 1, 2}
INVARIANTS
  RangeHasRoom
  BeamHoldsBest
PROPERTY
  SelectionEnds
