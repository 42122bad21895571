---------------------------- MODULE JournalFile ----------------------------
(* The journal as a file (internal/journal/journal.go and repair.go): writers *)
(* open it, take its flock and append a line; one may die half-way through    *)
(* the line; readers take no lock; `doctor --repair` moves bad lines aside    *)
(* and renames a rewritten file over the path.  A file is an inode: who has   *)
(* it open keeps it when the path is renamed over, and the flock is on it.    *)
EXTENDS Naturals, Sequences, SequencesExt

CONSTANTS Writers,    \* processes that append one row each, the row named after them
          Repairers,  \* doctor --repair processes
          MayBeCorrupt, \* TRUE if the file may hold a line that no append wrote
          Tearing,    \* TRUE if a writer may die (or fill the disk) mid-line
          NoOwner     \* a flock nobody holds

Procs == Writers \cup Repairers

\* The path's first file, and the one each repair writes and renames over it.
Inodes == {"first"} \cup Repairers

VARIABLES path,    \* the inode the path names
          lines,   \* the lines of every inode: if one parses (good), whose bytes it has (rows)
          ended,   \* whether the last line of an inode ends in a newline
          flock,   \* owner of every inode's flock
          fd,      \* the inode a process has open
          stage,   \* where a process is
          read,    \* the lines a repair has read
          acked,   \* writers whose Append returned nil
          strays,  \* of those, the ones written where no repair would look for them
          bad      \* rows in the lines moved to journal.bad

vars == <<path, lines, ended, flock, fd, stage, read, acked, strays, bad>>

Init ==
  /\ path = "first"
  /\ \E corrupt \in {FALSE, MayBeCorrupt} :
       lines = [i \in Inodes |->
                  IF i = "first" /\ corrupt THEN <<[good |-> FALSE, rows |-> {}]>>
                                            ELSE <<>>]
  /\ ended = [i \in Inodes |-> TRUE]
  /\ flock = [i \in Inodes |-> NoOwner]
  /\ fd = [p \in Procs |-> "first"]
  /\ stage = [p \in Procs |-> "start"]
  /\ read = [p \in Repairers |-> <<>>]
  /\ acked = {}
  /\ strays = {}
  /\ bad = {}

Goto(p, s) == stage' = [stage EXCEPT ![p] = s]
Unlock(p)  == flock' = [flock EXCEPT ![fd[p]] = NoOwner]

\* Append and Repair open the path ...
Open(p) ==
  /\ stage[p] = "start"
  /\ fd' = [fd EXCEPT ![p] = path]
  /\ Goto(p, "opened")
  /\ UNCHANGED <<path, lines, ended, flock, read, acked, strays, bad>>

\* ... and wait for the flock of what they have opened.
Lock(p) ==
  /\ stage[p] = "opened"
  /\ flock[fd[p]] = NoOwner
  /\ flock' = [flock EXCEPT ![fd[p]] = p]
  /\ Goto(p, "locked")
  /\ UNCHANGED <<path, lines, ended, fd, read, acked, strays, bad>>

\* O_APPEND: the bytes go to the end of the file, which is the middle of a line
\* if the last one has no newline.
Glued(content, w, good) ==
  LET last == Last(content)
  IN  Front(content) \o <<[good |-> good, rows |-> last.rows \cup {w}]>>

\* A repair is about to replace a file whose flock it has not: while it waited for
\* the flock of the file it had opened, another took the path from that file.
Unguarded == \E r \in Repairers : stage[r] \in {"read", "rename"} /\ fd[r] # path

\* A row goes astray in a file that has lost the path, or is about to lose it to a
\* repair that has read it already and does not have its flock.
Strays(w) == IF fd[w] = path /\ ~Unguarded THEN strays ELSE strays \cup {w}

\* Mutant of Write: no newline is written after the row.
WriteNoNewline(w) ==
  /\ stage[w] = "locked"
  /\ lines' = [lines EXCEPT ![fd[w]] =
                 IF ended[fd[w]] THEN Append(@, [good |-> TRUE, rows |-> {w}])
                                 ELSE Glued(@, w, FALSE)]
  /\ ended' = [ended EXCEPT ![fd[w]] = FALSE]
  /\ acked' = acked \cup {w}
  /\ strays' = Strays(w)
  /\ Unlock(w)
  /\ Goto(w, "done")
  /\ UNCHANGED <<path, fd, read, bad>>

Write(w) ==
  /\ stage[w] = "locked"
  /\ lines' = [lines EXCEPT ![fd[w]] =
                 IF ended[fd[w]] THEN Append(@, [good |-> TRUE, rows |-> {w}])
                                 ELSE Glued(@, w, FALSE)]
  /\ ended' = [ended EXCEPT ![fd[w]] = TRUE]
  /\ acked' = acked \cup {w}
  /\ strays' = Strays(w)
  /\ Unlock(w)
  /\ Goto(w, "done")
  /\ UNCHANGED <<path, fd, read, bad>>

\* The write stops half-way, or just before the newline; the flock goes with
\* the descriptor, and Append has returned no nil.
Tear(w) ==
  /\ Tearing
  /\ stage[w] = "locked"
  /\ \E good \in {ended[fd[w]], FALSE} :
       lines' = [lines EXCEPT ![fd[w]] =
                   IF ended[fd[w]] THEN Append(@, [good |-> good, rows |-> {w}])
                                   ELSE Glued(@, w, FALSE)]
  /\ ended' = [ended EXCEPT ![fd[w]] = FALSE]
  /\ Unlock(w)
  /\ Goto(w, "done")
  /\ UNCHANGED <<path, fd, read, acked, strays, bad>>

Good(line) == line.good
Bad(line)  == ~line.good
RowsOf(s)  == UNION {s[i].rows : i \in DOMAIN s}

\* The lines that parse, or those that do not, in the order of the file.
Sorted(s, good) ==
  LET out[n \in 0..Len(s)] ==
        IF n = 0 THEN <<>>
        ELSE IF Good(s[n]) = good THEN Append(out[n - 1], s[n])
        ELSE out[n - 1]
  IN  out[Len(s)]

\* Mutant of RepairReads: the flock is given up once the journal is read.
RepairReadsUnlocked(r) ==
  /\ stage[r] = "locked"
  /\ read' = [read EXCEPT ![r] = lines[path]]
  /\ Goto(r, IF \E i \in DOMAIN lines[path] : Bad(lines[path][i]) THEN "read"
                                                                  ELSE "done")
  /\ Unlock(r)
  /\ UNCHANGED <<path, lines, ended, fd, acked, strays, bad>>

\* Repair reads the path, which need not be the file it has locked.
RepairReads(r) ==
  /\ stage[r] = "locked"
  /\ read' = [read EXCEPT ![r] = lines[path]]
  /\ IF \E i \in DOMAIN lines[path] : Bad(lines[path][i])
     THEN Goto(r, "read") /\ UNCHANGED flock
     ELSE Goto(r, "done") /\ Unlock(r)
  /\ UNCHANGED <<path, lines, ended, fd, acked, strays, bad>>

\* No other repair's lines stand under the temporary name.  Two repairs never meet
\* there: the second waits for the flock of the file the first has open.  That a third,
\* which has opened the file the first made, does not meet the second is a bound.
TmpFree == \A q \in Repairers : stage[q] # "rename"

\* The bad lines are appended to journal.bad, the good ones written to a new
\* file; then the new file takes the path.
RepairQuarantines(r) ==
  /\ stage[r] = "read"
  /\ TmpFree
  /\ bad' = bad \cup RowsOf(Sorted(read[r], FALSE))
  /\ lines' = [lines EXCEPT ![r] = Sorted(read[r], TRUE)]
  /\ Goto(r, "rename")
  /\ UNCHANGED <<path, ended, flock, fd, read, acked, strays>>

RepairRenames(r) ==
  /\ stage[r] = "rename"
  /\ path' = r
  /\ Unlock(r)
  /\ Goto(r, "done")
  /\ UNCHANGED <<lines, ended, fd, read, acked, strays, bad>>

Over == (\A p \in Procs : stage[p] = "done") /\ UNCHANGED vars

Next ==
  \/ \E p \in Procs : Open(p) \/ Lock(p)
  \/ \E w \in Writers : Write(w) \/ Tear(w)
  \/ \E r \in Repairers : RepairReads(r) \/ RepairQuarantines(r) \/ RepairRenames(r)
  \/ Over

Spec == Init /\ [][Next]_vars
-----------------------------------------------------------------------------
\* Mutant of ReadFails: a torn last line is not tolerated.
ReadFailsOnTorn == \E i \in DOMAIN lines[path] : Bad(lines[path][i])

\* Read fails on a line it cannot parse, except a last one without a newline.
ReadFails ==
  \E i \in DOMAIN lines[path] :
    Bad(lines[path][i]) /\ ~(i = Len(lines[path]) /\ ~ended[path])

\* The rows of the lines that parse, and what Read returns: of a ledger with one bad
\* line, nothing.
Parsed   == UNION {lines[path][i].rows : i \in {j \in DOMAIN lines[path] :
                                                  Good(lines[path][j])}}
Readable == IF ReadFails THEN {} ELSE Parsed

\* A row whose Append returned is never dropped, however many repairs there are: it
\* can be read, or stands in a line of the journal or of journal.bad (journal.go:
\* "append-only audit ledger"; repair.go: "the audit trail is never deleted").  The
\* exceptions are rows written to a file that a repair had renamed over by then, as
\* Append opens the path before it has the flock and does not look again; and rows
\* written while a repair is at work on a file it has not locked, as it does the same.
NothingDropped == acked \ strays \subseteq RowsOf(lines[path]) \cup bad

\* An acknowledged row whose line parses keeps such a line, through appends, tears and
\* repairs, and Read returns it unless it fails on another line: a repair reads,
\* rewrites and renames under the flock of the file it rewrites, or a row is a stray.
GoodStay ==
  LET held == (Parsed \cap acked) \ strays
  IN  held \subseteq Parsed' /\ (ReadFails' \/ held \subseteq Readable')

\* A ledger only stops being readable by an append that follows a tear.
WedgeByGlue == ~ReadFails /\ ReadFails' => ~ended[path] /\ acked' # acked
=============================================================================
