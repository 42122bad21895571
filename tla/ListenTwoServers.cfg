\* The promise of Listen with CleanStaleSockets beside it.
SPECIFICATION Spec
CONSTANTS
  Procs = {p1, p2}
  Absent = Absent
  Stale = Stale
  NoProc = NoProc
INVARIANT OneServer
