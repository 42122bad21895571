\* No daemon at all: every hook writes directly, under the flock
\* and within its budget or not.
SPECIFICATION Spec
CONSTANTS
  Cmds = {c1, c2}
  Daemons = {}
  Faults = {"nospawn", "deadline", "esc", "git"}
  NoSHA = NoSHA
  NoDaemon = NoDaemon
  NoCmd = NoCmd
SYMMETRY Symmetry
INVARIANTS DirectInv OverlapFlagged
