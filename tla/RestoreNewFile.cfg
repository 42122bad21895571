\* A file made after the last snapshot, and a recovery without --force.
SPECIFICATION Spec
CONSTANTS
  Paths = {p, q}
  Present = {p}
  Scopes = {{p, q}, {p}}
  Values = {v1, v2}
  Uncovered = {}
  Absent = Absent
  Mixed = Mixed
  Unmerged = Unmerged
  Sessions = {s1}
  Manual = Manual
  MaxEntries = 2
  MaxTime = 5
  MaxEvents = 1
SYMMETRY Symmetry
CHECK_DEADLOCK FALSE
PROPERTY NewFilesSurvive
