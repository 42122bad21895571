\* One command's hooks through every kind of failure at once; two daemons, which
\* may hang, crash and stop.
SPECIFICATION HookSpec
CONSTANTS
  Cmds = {c1}
  Daemons = {d1, d2}
  Faults = {"deadline", "git", "crash", "stop", "slow", "nospawn", "esc", "resume"}
  NoSHA = NoSHA
  NoDaemon = NoDaemon
  NoCmd = NoCmd
INVARIANT SessionInv
PROPERTIES HookEndsEventually HookWindsDown KeepsPromises
