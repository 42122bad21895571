\* Two parallel commands and one daemon, no failure.
SPECIFICATION Spec
CONSTANTS
  Cmds = {c1, c2}
  Daemons = {d1}
  Faults = {}
  NoSHA = NoSHA
  NoDaemon = NoDaemon
  NoCmd = NoCmd
INVARIANT SkippedIsUnchanged
