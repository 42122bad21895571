\* A background command and one in the foreground beside it, with a write each.
SPECIFICATION BgSpec
CONSTANTS
  Bgs = {b1}
  Fgs = {f1}
  Capturers = {daemon, direct}
  NoSHA = NoSHA
  MaxWrites = 1
INVARIANT BgOverlapFlagged
CHECK_DEADLOCK FALSE
