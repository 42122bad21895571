\* Hooks and a daemon that keep running.
SPECIFICATION FairSpec
CONSTANTS
  Cmds = {c1, c2}
  Daemons = {d1}
  Faults = {"esc"}
  NoSHA = NoSHA
  NoDaemon = NoDaemon
  NoCmd = NoCmd
INVARIANTS Attribution ServedInv
PROPERTIES PostRecorded OrphanClosed
