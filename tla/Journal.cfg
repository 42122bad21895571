\* Every journal of up to four rows, two keys and the empty one; every two commands
\* of two sessions in six ticks of half a second, between which either may wait for its
\* post's snapshot and for the snapshot itself; three appends, any of which may
\* be cut short, beside two repairs.
SPECIFICATION LedgerSpec
CONSTANTS
  Keys = {"a", "b"}
  Shas = {"s", "t"}
  MaxRows = 4
  Sessions = {s1, s2}
  Second = 2
  MaxTime = 5
  MaxEntries = 2
  Idle = Idle
  Writers = {w1, w2, w3}
  Repairers = {r1, r2}
  MayBeCorrupt = TRUE
  Tearing = TRUE
  NoOwner = NoOwner
SYMMETRY Symmetry
INVARIANTS MergedIsLastSet PairsWithLastPre  
INVARIANT NothingDropped
PROPERTIES AppendIsMerge GoodStays WedgedByGlue
