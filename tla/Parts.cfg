\* Three daemons claim a socket; two sessions on a clock of three days; two installs and
\* an edit; a background and a foreground command with two capturers; two writers' three
\* snapshots of three files; one snapshot and two config commands at a meta.json.
SPECIFICATION PartsSpec
CONSTANTS
  Procs = {p1, p2, p3}
  Absent = Absent
  Stale = Stale
  NoProc = NoProc
  NoSettings = NoSettings
  Sessions = {1, 2}
  CLI = 0
  None = None
  Retention = 3
  SoftCap = 1
  DefaultRetention = 2
  DefaultCap = 1
  Grace = 1
  MaxTime = 3
  Installers = {i1, i2}
  Exes = {old, v1, v2}
  Gone = {old}
  NewExes = {v1, v2}
  Keys = {perms}
  Broken = Broken
  Denied = Denied
  MaxEdits = 1
  Bgs = {b1}
  Fgs = {f1}
  Capturers = {daemon, direct}
  NoSHA = NoSHA
  MaxWrites = 1
  Files = {"f", "g", "h"}
  Dirs <- Below
  Matched <- Patterns
  Ignored = {"g"}
  Forced = {"g"}
  Inside = {"f"}
  Writers = {w1, w2}
  Direct = {w2}
  Sparse = Sparse
  NoHead = NoHead
  MaxSnaps = 3
  MaxChanges = 1
  Size <- Sizes
  Snappers = {n1}
  Setters = {t1, t2}
  Values = {0, 1, 2}
  Env = 3
  Default = 4
  NoFile = NoFile
  Half = Half
INVARIANTS PartsTypeOK ServerOwnsPath
INVARIANTS OneHook InstalledIsSeen FinalHoldsAll AloneIsSafe SettingInForce
PROPERTIES ActiveKept RecentKept LastKept 
PROPERTIES HoldsWhatStood BigStaysOut FailsOnlyFor
CHECK_DEADLOCK FALSE
