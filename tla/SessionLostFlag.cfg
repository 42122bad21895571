\* A hook that writes directly while a slow daemon comes up for another.
SPECIFICATION Spec
CONSTANTS
  Cmds = {c1, c2}
  Daemons = {d1}
  Faults = {"slow"}
  NoSHA = NoSHA
  NoDaemon = NoDaemon
  NoCmd = NoCmd
INVARIANT OverlapFlagged
