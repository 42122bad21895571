\* Daemons crash, stop and are spawned again between and during requests.
SPECIFICATION Spec
CONSTANTS
  Cmds = {c1, c2}
  Daemons = {d1, d2}
  Faults = {"crash", "stop"}
  NoSHA = NoSHA
  NoDaemon = NoDaemon
  NoCmd = NoCmd
SYMMETRY Symmetry
INVARIANTS AckedDurable OpenPairFlagged PreBeforeRun
PROPERTY ProtectedStays
