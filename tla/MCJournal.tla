----------------------------- MODULE MCJournal -----------------------------
(* The journal: what its readers compute, on every small input, which is the  *)
(* folds of Journal over up to MaxRows rows and the overlaps of Overlap over  *)
(* the commands of two sessions; and the file of JournalFile under appends    *)
(* and repairs.  A behaviour is about one of the three.                       *)
EXTENDS Journal, Overlap, FiniteSets, TLC

CONSTANTS Keys,     \* tool_use_ids
          Shas,     \* snapshots
          MaxRows,  \* bound on the journal's length
          Writers, Repairers, MayBeCorrupt, Tearing, NoOwner  \* JournalFile's

\* One field stands for every field with an empty value (mergeEntry treats them
\* alike), and one for the flag.
Zero == [key |-> "", pre |-> "", overlapped |-> FALSE]
Row  == [key : Keys \cup {""}, pre : Shas \cup {""}, overlapped : BOOLEAN]

VARIABLES rows,   \* the journal's rows, in file order
          path, lines, ended, flock, fd, stage, read, acked, strays, bad  \* JournalFile's

fileVars == <<path, lines, ended, flock, fd, stage, read, acked, strays, bad>>

File == INSTANCE JournalFile

ASSUME ProcsAssumption ==
  Writers \cap Repairers = {} /\ NoOwner \notin File!Procs /\ "first" \notin Repairers

ASSUME KeysAssumption == "" \notin Keys

ASSUME FaultAssumption == MayBeCorrupt \in BOOLEAN /\ Tearing \in BOOLEAN

AppendRow(row) == Len(rows) < MaxRows /\ rows' = Append(rows, row)

\* No row is there, no command has begun, the file is empty and nobody has it open.
NoRows  == rows = <<>>
Resting == Init
Unused  == File!Init /\ lines["first"] = <<>>

LedgerInit == NoRows /\ Init /\ File!Init

LedgerNext ==
  \/ Resting /\ Unused /\ (\E row \in Row : AppendRow(row)) /\ UNCHANGED <<vars, fileVars>>
  \/ NoRows /\ Unused /\ Next /\ UNCHANGED <<rows, fileVars>>
  \/ NoRows /\ Resting /\ File!Next /\ UNCHANGED <<rows, vars>>
  \/ Unused /\ UNCHANGED <<rows, vars, fileVars>>   \* a bound is reached

LedgerSpec == LedgerInit /\ [][LedgerNext]_<<rows, vars, fileVars>>

Symmetry == Permutations(Sessions) \cup Permutations(Writers) \cup Permutations(Repairers)
-----------------------------------------------------------------------------
EntryOf(rs, key) == FirstOf(Zero, ReadMerged(Zero, rs), key)

\* A row with a key that no earlier row has, or with none, starts an entry: the
\* entries are in the order of these rows.
FirstSeen == {i \in DOMAIN rows :
                rows[i].key = "" \/ \A j \in 1..(i - 1) : rows[j].key # rows[i].key}

Place(i) == Cardinality({j \in FirstSeen : j <= i})

LastSet(key, f) ==
  LET having == {i \in DOMAIN rows : rows[i].key = key /\ rows[i][f] # Zero[f]}
  IN  IF having = {} THEN Zero[f]
      ELSE rows[CHOOSE i \in having : \A j \in having : j <= i][f]

Whole(i) ==
  IF rows[i].key = "" THEN rows[i] ELSE [f \in DOMAIN Zero |-> LastSet(rows[i].key, f)]

\* What ReadMerged promises, said without folding: the entries' keys are the
\* rows' keys in first-seen order (an empty key's rows each standing alone), and
\* a field of an entry is that of the last row of its key that has one.
MergedIsLastSet ==
  LET merged == ReadMerged(Zero, rows)
  IN  /\ Len(merged) = Cardinality(FirstSeen)
      /\ \A i \in FirstSeen : merged[Place(i)] = Whole(i)

\* Appending a row is merging it into the entry of its key, and changes no other
\* entry: what the modules over Shadow take the journal's state to be.
AppendIsMerge ==
  [][rows' # rows => \A key \in Keys :
       EntryOf(rows', key) =
         IF Last(rows').key = key
         THEN [MergeEntry(Zero, EntryOf(rows, key), Last(rows')) EXCEPT !.key = key]
         ELSE EntryOf(rows, key)]_rows

\* The pairing of a post finds the last pre its key was given.
PairsWithLastPre ==
  \A key \in Keys : PreSHAFor(Zero, rows, key) = LastSet(key, "pre")
-----------------------------------------------------------------------------
\* A row whose Append returned is never dropped, but for the strays.
NothingDropped == File!NothingDropped

\* A row whose line parses keeps such a line, and is read unless another line is bad.
GoodStays == [][File!GoodStay]_fileVars

\* A ledger only stops being readable by an append that follows a tear.
WedgedByGlue == [][File!WedgeByGlue]_fileVars
=============================================================================
