------------------------------ MODULE Restore ------------------------------
(* The recovery commands, restore, undo, rewind and snap (internal/snapshot/  *)
(* restore.go, rewind.go, snap.go and their commands in internal/cli), beside *)
(* the snapshots hooks take and the edits users and commands make at any      *)
(* moment.  Only the recovery commands hold the project's lock throughout.    *)
(*                                                                            *)
(* A file is a path with a content, absent or one of Values; every session    *)
(* has a shadow repository, of which a snapshot is a commit and the index     *)
(* decides what `git diff` sees.                                              *)
EXTENDS Entries, Sequences, FiniteSets

CONSTANTS Paths, Values,
          Uncovered,  \* those that git takes only of a file it tracks: ignored, or over the cap
          Present,    \* the paths that are files at first
          Absent,     \* the content of a path where there is no file
          Mixed,      \* the content a three-way merge leaves: merged, or with markers
          Unmerged,   \* the index's entry of a path in conflict
          Sessions, Manual,  \* agent sessions; the one manual checkpoints are kept in
          Scopes,     \* the sets of paths a restore may be asked for
          MaxEntries, MaxTime, MaxEvents  \* bounds

Repos    == Sessions \cup {Manual}
Contents == Values \cup {Absent, Mixed}
Tree     == [Paths -> Contents]

ASSUME DistinctAssumption ==
  /\ Present \subseteq Paths /\ Uncovered \subseteq Values
  /\ Absent \notin Values /\ Mixed \notin Values \cup {Absent}
  /\ Unmerged \notin Contents /\ Manual \notin Sessions
ASSUME ScopesAssumption == Paths \in Scopes /\ Scopes \subseteq SUBSET Paths
ASSUME BoundsAssumption ==
  MaxEntries \in Nat /\ MaxTime \in Nat /\ MaxEvents \in Nat

VARIABLES tree,     \* the work-tree
          commits,  \* every snapshot ever taken; a sha is a position, 0 is ""
          held,     \* the shas each session's repository still has
          index,    \* each repository's index
          entries,  \* the journal's merged entries, in file order
          clock,    \* the time of the next row (second-granularity ties left out)
          op,       \* the recovery command under way
          writes, faults   \* how many there have been

vars == <<tree, commits, held, index, entries, clock, op, writes, faults>>

NoSHA    == 0
Statuses == {"", "protected", "skipped_no_change", "manual", "restored"}
Keys     == [kind : {"command", "snap", "restore", "rewind"}, sha : Nat, of : Nat]

Entry == [key : Keys, session : Repos, pre : Nat, post : Nat, status : Statuses,
          overlapped : BOOLEAN, skipped : BOOLEAN, ts : Nat, dur : Nat]

NoEntry == [key |-> [kind |-> "", sha |-> 0, of |-> 0], session |-> Manual, pre |-> NoSHA,
            post |-> NoSHA, status |-> "", overlapped |-> FALSE, skipped |-> FALSE,
            ts |-> 0, dur |-> 0]

\* Largest element of a set of numbers, 0 of the empty one.
Newest(S) == IF S = {} THEN 0 ELSE CHOOSE n \in S : \A m \in S : m <= n

Files(sha)    == commits[sha]
Exists(s, sha) == sha \in held[s]      \* CommitExists
HEAD(s)       == Newest(held[s])
Open(e)       == e.key.kind = "command" /\ e.post = NoSHA
Complete      == {i \in DOMAIN entries : entries[i].post # NoSHA}

\* A recovery command: what it was asked, and the entry as it read it.
Idle == [stage |-> "idle"]
Busy == op.stage # "idle"

Init ==
  /\ \E v \in Values : tree = [p \in Paths |-> IF p \in Present THEN v ELSE Absent]
  /\ commits = <<>>
  /\ held = [s \in Repos |-> {}]
  /\ index = [s \in Repos |-> [p \in Paths |-> Absent]]
  /\ entries = <<>>
  /\ clock = 1
  /\ op = Idle
  /\ writes = 0
  /\ faults = 0
-----------------------------------------------------------------------------
(* Git, as the code uses it.                                                  *)

\* What `git add -A` takes of the work-tree in s's repository (module Engine has how).
Taken(s) ==
  [p \in Paths |-> IF tree[p] \in Uncovered /\ index[s][p] = Absent THEN Absent ELSE tree[p]]

\* Engine.snap in s's repository: add, and commit if HEAD differs.  The snapshot's sha is
\* SnapSHA(s).
Commits(s) == HEAD(s) = NoSHA \/ Files(HEAD(s)) # Taken(s)

SnapSHA(s) == IF Commits(s) THEN Len(commits) + 1 ELSE HEAD(s)
Snap(s) ==
  /\ commits' = IF Commits(s) THEN Append(commits, Taken(s)) ELSE commits
  /\ held' = [held EXCEPT ![s] = @ \cup {SnapSHA(s)}]
  /\ index' = [index EXCEPT ![s] = Taken(s)]

\* `git diff <sha>` of a path: a file that is not in the index is not looked at.
Differs(s, sha, p) ==
  IF index[s][p] = Absent THEN Files(sha)[p] # Absent
  ELSE index[s][p] = Unmerged \/ tree[p] # Files(sha)[p]

WorktreeChangedSince(s, sha, scope) == \E p \in scope : Differs(s, sha, p)

\* `git diff --name-status` of two snapshots.
Diff(from, to, scope) == {p \in scope : from[p] # to[p]}

\* Files are written over or removed in the work-tree.
Put(S, files) == tree' = [p \in Paths |-> IF p \in S THEN files[p] ELSE tree[p]]
-----------------------------------------------------------------------------
(* Hooks and people.                                                          *)

\* Rows of one key are one entry, which keeps its place.
Journal(row) ==
  LET same == {i \in DOMAIN entries : entries[i].key = row.key}
  IN  /\ entries' = IF same = {} THEN Append(entries, row)
                    ELSE [entries EXCEPT ![Newest(same)] = MergeEntry(NoEntry, @, row)]
      /\ clock' = clock + 1

\* The bounds leave room for the entry of the recovery under way.
Room == clock < MaxTime /\ Len(entries) + (IF Busy THEN 1 ELSE 0) < MaxEntries

\* A pre hook's snapshot and row.  Commands of a session that are open together
\* are flagged (module Session has how).
CmdPre(s) ==
  LET others == {i \in DOMAIN entries : Open(entries[i]) /\ entries[i].session = s}
  IN  /\ Room
      /\ Snap(s)
      /\ entries' = Append(
           [i \in DOMAIN entries |->
              IF i \in others THEN [entries[i] EXCEPT !.overlapped = TRUE] ELSE entries[i]],
           [key |-> [kind |-> "command", sha |-> NoSHA, of |-> Len(entries) + 1],
            session |-> s, pre |-> SnapSHA(s), post |-> NoSHA, status |-> "",
            overlapped |-> others # {}, skipped |-> ~Commits(s), ts |-> clock, dur |-> 0])
      /\ clock' = clock + 1
      /\ UNCHANGED <<tree, op, writes, faults>>

\* A post hook's snapshot and row, from the record of the pre in memory.
CmdPost(i) ==
  LET e == entries[i]
      s == e.session
  IN  /\ Open(e) /\ Exists(s, e.pre) /\ clock < MaxTime
      /\ Snap(s)
      /\ entries' = [entries EXCEPT ![i] =
           [e EXCEPT !.post = SnapSHA(s), !.skipped = FALSE, !.ts = clock, !.dur = clock - e.ts,
                     !.status = IF e.skipped /\ ~Commits(s) THEN "skipped_no_change"
                                ELSE "protected"]]
      /\ clock' = clock + 1
      /\ UNCHANGED <<tree, op, writes, faults>>

\* Writes and faults are bounded together.
Eventful == writes + faults < MaxEvents

\* The recovery under way remembers what is written beside it: after a gate that
\* missed an edit of the path, and after its pre-restore snapshot.
Noted(S) ==
  [op EXCEPT !.late  = @ \cup (S \cap (op.edited \cup op.added)),
             !.raced = IF op.saved = NoSHA THEN {} ELSE @ \cup S]

\* A command or a user writes or removes files.
Write(S, content) ==
  /\ Eventful
  /\ \A p \in S : tree[p] # content
  /\ Put(S, [p \in S |-> content])
  /\ op' = IF Busy THEN Noted(S) ELSE op
  /\ writes' = writes + 1
  /\ UNCHANGED <<commits, held, index, entries, clock, faults>>

Fault == Eventful /\ faults' = faults + 1

\* Garbage collection removes the repository of a session that is over, in whose
\* repository no recovery is under way.
Reclaim(s) ==
  /\ Fault /\ held[s] # {} /\ ~Busy
  /\ held' = [held EXCEPT ![s] = {}]
  /\ index' = [index EXCEPT ![s] = [p \in Paths |-> Absent]]
  /\ UNCHANGED <<tree, commits, entries, clock, op, writes>>

\* `bashback snap`: a checkpoint in the manual repository.  Its key is its sha, so
\* a second one of an unchanged work-tree is the same entry.
Checkpoint ==
  /\ ~Busy /\ Room
  /\ Snap(Manual)
  /\ Journal([key |-> [kind |-> "snap", sha |-> SnapSHA(Manual), of |-> 0],
              session |-> Manual, pre |-> SnapSHA(Manual), post |-> NoSHA,
              status |-> "manual", overlapped |-> FALSE, skipped |-> FALSE,
              ts |-> clock, dur |-> 0])
  /\ UNCHANGED <<tree, op, writes, faults>>
-----------------------------------------------------------------------------
(* Asking for a recovery: the journal is read, and rewind's gates are tried,  *)
(* before the lock is taken.                                                  *)

Overlaps(i) ==
  i \in Complete /\ \E j \in Complete :
    entries[j].session # entries[i].session /\ Intersect(entries[i], entries[j])

\* readView: an entry as the commands see it.
View(i) == [entries[i] EXCEPT !.overlapped = @ \/ Overlaps(i)]

\* tsDescOrder's first.
Latest(S) == CHOOSE i \in S : \A j \in S : entries[j].ts <= entries[i].ts

\* What a gate that compares with a snapshot's files is there for: paths whose content
\* is not the snapshot's, of files it has and of files it does not have.
Edited(files, scope) == {p \in Diff(files, tree, scope) : files[p] # Absent}
Added(files, scope)  == {p \in Diff(files, tree, scope) : files[p] = Absent}

Ask(kind, i, edited, added) ==
  /\ ~Busy /\ Room
  /\ op' = [stage |-> "asked", kind |-> kind, of |-> i, entry |-> View(i),
            threeWay |-> FALSE, scope |-> Paths, saved |-> NoSHA, diff |-> {},
            todo |-> {}, edited |-> edited, added |-> added, late |-> {}, raced |-> {}]
  /\ UNCHANGED <<tree, commits, held, index, entries, clock, writes, faults>>

\* `bashback restore <key>`; its options are first used at the gates.
Restore(i) == entries[i].status # "manual" /\ Ask("restore", i, {}, {})

Undoable(S) == {i \in S : /\ entries[i].post \notin {NoSHA, entries[i].pre}
                          /\ entries[i].status \in {"protected", "restored"}}

\* activeSessions: who wrote an entry in the last hour, whenever that began.
ActiveSessions(hourAgo) ==
  {entries[i].session : i \in {j \in DOMAIN entries :
     entries[j].status # "manual" /\ entries[j].ts > hourAgo}}

\* `bashback undo`, of the entries in S, is a restore of the newest undoable one.
UndoOf(S) == Undoable(S) # {} /\ Ask("undo", Latest(Undoable(S)), {}, {})

Undo ==
  \/ \E s \in Repos : UndoOf({i \in DOMAIN entries : entries[i].session = s})
  \/ \E hourAgo \in 0..clock : /\ Cardinality(ActiveSessions(hourAgo)) <= 1
                               /\ UndoOf(DOMAIN entries)

\* Sessions with an entry at or after the beginning of entry i.
SpanSessions(i) ==
  {entries[j].session : j \in {k \in DOMAIN entries : entries[k].ts >= Start(entries[i])}}
    \ {Manual}

\* The newest post, of the entry's own session if it has one.
Baseline(i) ==
  LET own == {j \in Complete : entries[j].session = entries[i].session}
  IN  IF own # {} THEN own ELSE Complete

\* Without a baseline that still exists there is nothing to compare with.
Comparable(i) ==
  Baseline(i) # {} /\ Exists(entries[Latest(Baseline(i))].session,
                             entries[Latest(Baseline(i))].post)

HasUncommittedEdits(i) ==
  LET b == entries[Latest(Baseline(i))]
  IN  Comparable(i) /\ WorktreeChangedSince(b.session, b.post, Paths)

\* `bashback rewind <key> [--force]`: overlapped, cross-session, uncommitted.
Rewind(i, force) ==
  /\ entries[i].pre # NoSHA /\ Exists(entries[i].session, entries[i].pre)
  /\ force \/ /\ ~View(i).overlapped
              /\ Cardinality(SpanSessions(i)) <= 1
              /\ ~HasUncommittedEdits(i)
  /\ LET files == Files(entries[Latest(Baseline(i))].post)
     IN  IF force \/ ~Comparable(i)
         THEN Ask("rewind", i, {}, {})
         ELSE Ask("rewind", i, Edited(files, Paths), Added(files, Paths))
-----------------------------------------------------------------------------
(* The recovery itself, under the lock.                                       *)

\* The repository the entry's snapshots are in.
Repo == op.entry.session

PreOnly == op.entry.post = NoSHA

Goto(stage) == op' = [op EXCEPT !.stage = stage]

\* Mutant of GatesOpen: whether the post's content is still there is not looked at.
GatesOpenUnlooked(force, threeWay, scope) ==
  LET e == op.entry
  IN  /\ e.overlapped => force
      /\ e.pre # NoSHA
      /\ PreOnly => force
      /\ Exists(Repo, e.pre)
      /\ ~PreOnly => Exists(Repo, e.post)

\* restoreGates, in its order; a refusal changes nothing.
GatesOpen(force, threeWay, scope) ==
  LET e == op.entry
  IN  /\ e.overlapped => force
      /\ e.pre # NoSHA
      /\ PreOnly => force
      /\ Exists(Repo, e.pre)
      /\ ~PreOnly => /\ Exists(Repo, e.post)
                     /\ WorktreeChangedSince(Repo, e.post, scope) => threeWay

\* Past the gates; edited and added are what they were there to see.
Pass(threeWay, scope, edited, added) ==
  op' = [op EXCEPT !.stage = "gated", !.kind = "restore", !.threeWay = threeWay, !.scope = scope,
                   !.edited = edited, !.added = added]

\* restore [--force] [--3way] [path...], undo [--3way].
RestoreGate(force, threeWay, scope) ==
  /\ op.kind = "undo" => ~force /\ scope = Paths
  /\ IF ~GatesOpen(force, threeWay, scope) THEN op' = Idle
     ELSE IF threeWay \/ PreOnly THEN Pass(threeWay, scope, {}, {})
     ELSE Pass(threeWay, scope, Edited(Files(op.entry.post), scope),
                                Added(Files(op.entry.post), scope))

Gate ==
  /\ op.stage = "asked"
  /\ IF op.kind = "rewind"
     THEN IF Exists(Repo, op.entry.pre) THEN Goto("gated") ELSE op' = Idle
     ELSE \E force, threeWay \in BOOLEAN, scope \in Scopes :
            RestoreGate(force, threeWay, scope)
  /\ UNCHANGED <<tree, commits, held, index, entries, clock, writes, faults>>

\* Mutants of Reverted: a rewind is taken for a restore; a restore for a rewind.
RevertedToPost(saved) == IF PreOnly THEN saved ELSE Files(op.entry.post)
RevertedSaved(saved)  == saved

\* What the pre snapshot is compared with: the post, or for an interrupted
\* command and a rewind what has just been saved.
Reverted(saved) ==
  IF op.kind = "rewind" \/ PreOnly THEN saved ELSE Files(op.entry.post)

\* Mutant of Save: the last snapshot is taken for the pre-restore one.
SaveNothing ==
  LET diff == Diff(Files(op.entry.pre), Reverted(Taken(Repo)), op.scope)
  IN  /\ op.stage = "gated"
      /\ op' = IF diff = {} THEN Idle
               ELSE [op EXCEPT !.stage = IF op.threeWay THEN "merge" ELSE "checkout",
                               !.saved = HEAD(Repo), !.diff = diff, !.scope = {}]
      /\ UNCHANGED <<tree, commits, held, index, entries, clock, writes, faults>>

\* The pre-restore snapshot, whatever else happens; then what there is to do.
Save ==
  LET diff == Diff(Files(op.entry.pre), Reverted(Taken(Repo)), op.scope)
  IN  /\ op.stage = "gated"
      /\ Snap(Repo)
      /\ op' = IF diff = {} THEN Idle
               ELSE [op EXCEPT !.stage = IF op.threeWay THEN "merge" ELSE "checkout",
                               !.saved = SnapSHA(Repo), !.diff = diff, !.scope = {}]
      /\ UNCHANGED <<tree, entries, clock, writes, faults>>

Target == Files(op.entry.pre)

\* restoreThreeClass: files the pre snapshot has are checked out of it ...
ToCheckout == {p \in op.diff : Target[p] # Absent}

Checkout ==
  /\ op.stage = "checkout"
  /\ Put(ToCheckout, Target)
  /\ index' = [index EXCEPT ![Repo] =
                 [p \in Paths |-> IF p \in ToCheckout THEN Target[p] ELSE @[p]]]
  /\ op' = [op EXCEPT !.stage = "remove", !.todo = op.diff \ ToCheckout]
  /\ UNCHANGED <<commits, held, entries, clock, writes, faults>>

\* ... and the others are removed, one after the other.
Remove(p) ==
  /\ op.stage = "remove" /\ p \in op.todo
  /\ Put({p}, [q \in {p} |-> Absent])
  /\ op' = [op EXCEPT !.todo = @ \ {p}]
  /\ UNCHANGED <<commits, held, index, entries, clock, writes, faults>>

\* restoreThreeWay: `git apply --3way -R` of the entry's patch, to a work-tree and
\* index that must agree.  A path can be merged if it is the patch's own, ...
Base == Reverted(Files(op.saved))
Agrees(p)  == index[Repo][p] = tree[p]
Clean(p)   == Agrees(p) /\ tree[p] \in {Base[p], Target[p]} /\ (tree[p] = Absent => Base[p] = Absent)
\* ... or both sides have the file.
Mergeable(p) == Agrees(p) /\ Target[p] # Absent /\ tree[p] \notin {Base[p], Target[p], Absent}
Applies == \A p \in op.diff : Clean(p) \/ Mergeable(p)
Result(p) == IF Clean(p) THEN Target[p] ELSE Mixed

\* Where a merge ends in conflict markers; it always does if both sides created
\* the file.
Conflicts(K) ==
  /\ K \subseteq {p \in op.diff : Mergeable(p)}
  /\ {p \in op.diff : Mergeable(p) /\ Base[p] = Absent} \subseteq K

\* All paths apply, some with conflicts, or none; in that case git fails, which
\* the code takes for success if git also spoke of a conflict.
Merge ==
  /\ op.stage = "merge"
  /\ \E K \in SUBSET op.diff :
       /\ Conflicts(K)
       /\ IF Applies
          THEN /\ tree' = [p \in Paths |-> IF p \in op.diff THEN Result(p) ELSE tree[p]]
               /\ index' = [index EXCEPT ![Repo] =
                    [p \in Paths |-> IF p \in K THEN Unmerged
                                     ELSE IF p \in op.diff THEN Result(p) ELSE @[p]]]
               /\ Goto("merged")
          ELSE /\ op' = IF K # {} THEN [op EXCEPT !.stage = "merged"] ELSE Idle
               /\ UNCHANGED <<tree, index>>
  /\ UNCHANGED <<commits, held, entries, clock, writes, faults>>

Applied == op.stage = "merged" \/ (op.stage = "remove" /\ op.todo = {})

Row(post) ==
  [key |-> [kind |-> op.kind, sha |-> op.saved, of |-> op.of],
   session |-> Repo, pre |-> op.saved, post |-> post, status |-> "restored",
   overlapped |-> FALSE, skipped |-> FALSE, ts |-> clock, dur |-> 0]

\* The post-restore snapshot and the row that makes the restore undoable itself.
Record ==
  /\ Applied
  /\ Snap(Repo)
  /\ Journal(Row(SnapSHA(Repo)))
  /\ op' = Idle
  /\ UNCHANGED <<tree, writes, faults>>
-----------------------------------------------------------------------------
(* Failures.                                                                  *)

\* The post-restore snapshot fails: the row has no post.
RecordFails ==
  /\ Fault /\ Applied
  /\ Journal(Row(NoSHA))
  /\ op' = Idle
  /\ UNCHANGED <<tree, commits, held, index, writes>>

\* A checkout fails half-way, or the process is killed in it: what is written stays
\* written, and no row says so.
CheckoutFails ==
  /\ Fault /\ op.stage = "checkout"
  /\ \E S \in SUBSET ToCheckout : Put(S, Target)
  /\ op' = Idle
  /\ UNCHANGED <<commits, held, index, entries, clock, writes>>

\* The lock is not to be had, the pre-restore snapshot or a removal fails, or the
\* process is killed.
Stops ==
  /\ Fault /\ op.stage \in {"asked", "gated", "merge", "merged", "remove"}
  /\ op' = Idle
  /\ UNCHANGED <<tree, commits, held, index, entries, clock, writes>>
-----------------------------------------------------------------------------
Asks ==
  \/ \E i \in DOMAIN entries : Restore(i)
  \/ Undo
  \/ \E i \in DOMAIN entries, force \in BOOLEAN : Rewind(i, force)

Recovers ==
  \/ Gate \/ Save \/ Checkout \/ Merge \/ Record
  \/ \E p \in Paths : Remove(p)
  \/ RecordFails \/ CheckoutFails \/ Stops

Others ==
  \/ \E s \in Sessions : CmdPre(s)
  \/ \E i \in DOMAIN entries : CmdPost(i)
  \/ \E S \in SUBSET Paths \ {{}}, content \in Values \cup {Absent} : Write(S, content)
  \/ \E s \in Repos : Reclaim(s)
  \/ Checkpoint

Next == Others \/ Asks \/ Recovers

Spec == Init /\ [][Next]_vars
-----------------------------------------------------------------------------
\* Every variable holds a value of its kind.
TypeOK ==
  /\ tree \in Tree
  /\ commits \in Seq(Tree)
  /\ held \in [Repos -> SUBSET (1..Len(commits))]
  /\ index \in [Repos -> [Paths -> Contents \cup {Unmerged}]]
  /\ entries \in Seq(Entry)
  /\ clock \in Nat /\ writes \in Nat /\ faults \in Nat

\* A step of a recovery that changes the content of p.
Overwrites(p) == writes' = writes /\ tree'[p] # tree[p]

\* A file that the pre-restore snapshot did not take.
LeftOut(p) == tree[p] \in Uncovered /\ Files(op.saved)[p] = Absent

\* Nothing is lost: what a recovery overwrites is in its pre-restore snapshot ("a
\* wrong undo never loses work", README.md:58), but for what was written after that, and
\* for files that no snapshot covers (README.md:290-294).
NothingLost ==
  [][\A p \in Paths : Overwrites(p) =>
       tree[p] = Files(op.saved)[p] \/ LeftOut(p) \/ p \in op.raced]_vars

\* Without --3way or --force no edit is overwritten of a file that the compared
\* snapshot has, unless it came after the gate ("undo will not overwrite your later
\* edits", cli/undo.go:157).
EditsSurvive ==
  [][\A p \in Paths : Overwrites(p) /\ p \in op.edited => p \in op.late]_vars

\* The same of the files the compared snapshot does not have.  It does not hold: the
\* comparison is a `git diff`, which does not look at files outside the index.
NewFilesSurvive ==
  [][\A p \in Paths : Overwrites(p) /\ p \in op.added => p \in op.late]_vars

\* A restore gives back the pre content of what the command changed, within the
\* paths asked for, and a rewind that of every path; nothing else is touched
\* (restoreThreeClass has done all of its parts, in whatever state it began).  A rewind
\* leaves alone what the pre snapshot has not and its own did not take.
RestoreExact ==
  Applied /\ ~op.threeWay =>
    \A p \in Paths \ op.raced :
      IF p \in op.diff THEN tree[p] = Target[p]
      ELSE LeftOut(p) \/ tree[p] = IF op.kind = "rewind" THEN Target[p] ELSE Files(op.saved)[p]

\* A three-way restore keeps or merges every edit made since the post
\* (restoreThreeWay, "rather than overwriting silently"); a file that its own snapshot
\* did not take is not looked at, and left as it is.
MergeKeepsEdits ==
  op.stage = "merged" /\ ~PreOnly =>
    \A p \in Paths \ op.raced :
      Files(op.saved)[p] # Files(op.entry.post)[p] =>
        tree[p] \in {Files(op.saved)[p], Mixed} \/ LeftOut(p)
=============================================================================
