\* Hooks of two sessions, edits and one recovery at a time on two paths; at most two
\* edits or failures, three entries and the seconds to write them.
SPECIFICATION Spec
CONSTANTS
  Paths = {p, q}
  Present = {p}
  Scopes = {{p, q}, {p}}
  Values = {v1, v2, v3}
  Uncovered = {v3}
  Absent = Absent
  Mixed = Mixed
  Unmerged = Unmerged
  Sessions = {s1, s2}
  Manual = Manual
  MaxEntries = 3
  MaxTime = 5
  MaxEvents = 2
SYMMETRY Symmetry
CHECK_DEADLOCK FALSE
INVARIANTS RestoreExact MergeKeepsEdits
PROPERTIES NothingLost EditsSurvive
