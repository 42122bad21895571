------------------------------- MODULE Engine -------------------------------
(* One snapshot, git command by git command (snapshot/engine.go, EnsureRepo,  *)
(* Pre, Post and snap; gitx/repo.go): which files it takes, which it leaves   *)
(* out and says so, and when it fails.  Shadow has a snapshot in one step and *)
(* a work-tree that git can always read; here the files change under it, are  *)
(* too big or unreadable, git is killed and leaves its index.lock, and the    *)
(* daemon and a hook that writes directly snapshot at once.                   *)
EXTENDS Naturals, Sequences, FiniteSets, SequencesExt

CONSTANTS Files,     \* of the project's work-tree
          Dirs,      \* its directories below the top, each by the files in it
          Matched,   \* per file: those that its path matches as a line of info/exclude
          Ignored,   \* matched by its .gitignore
          Forced,    \* force_include
          Inside,    \* in the roots of protect_paths, when it is set
          Writers,   \* processes that take snapshots of the session
          Direct,    \* those whose engine has ProtectPathsFor: hooks and commands, no daemon
          Sparse,    \* the line that stands for sparseExcludePatterns
          NoHead,    \* the repository has no commit yet
          MaxChanges, MaxSnaps   \* bounds of the model

\* A file's content: two that can be snapshotted, one over max_file_bytes, one that
\* cannot be opened.
Contents == {"absent", "a", "b", "big", "locked"}
IndexTrees == [Files -> Contents \ {"locked"}]
Nothing  == [f \in Files |-> "absent"]
Steps    == {"idle", "probe", "head", "scan", "add", "force", "commit", "same", "ref",
             "answered", "failed"}

ASSUME EngineAssumption ==
  /\ IsFiniteSet(Files) /\ Ignored \cup Forced \cup Inside \subseteq Files
  /\ Dirs \subseteq SUBSET Files /\ Matched \in [Files -> SUBSET Files]
  /\ Sparse \notin Files /\ NoHead \notin IndexTrees
  /\ MaxChanges \in Nat /\ MaxSnaps \in Nat

VARIABLES work,     \* the work-tree
          index,    \* git's index
          head,     \* the tree of HEAD
          exclude,  \* the lines of info/exclude
          lock,     \* index.lock: none, or left behind
          protect,  \* protect_paths is set
          snaps,    \* per writer: its snapshot
          writes, taken   \* counters of the bounds

engineVars == <<work, index, head, exclude, lock, protect, snaps, writes, taken>>

\* sha: what is answered, or about to be; touched: files written since it began;
\* unlisted: those that lay in a new directory at its scan; moved: HEAD has been set by
\* another writer between its look and its reading.
NoSnap == [at |-> "idle", sha |-> NoHead, touched |-> {}, unlisted |-> {}, moved |-> FALSE]
Snaps  == [at : Steps, sha : IndexTrees \cup {NoHead}, touched : SUBSET Files,
           unlisted : SUBSET Files, moved : BOOLEAN]

EngineTypeOK ==
  /\ work \in [Files -> Contents]
  /\ index \in IndexTrees
  /\ head \in IndexTrees \cup {NoHead}
  /\ exclude \in Seq(Files \cup {Sparse}) /\ IsInjective(exclude)
  /\ lock \in {"none", "fresh", "stale"}
  /\ protect \in BOOLEAN
  /\ snaps \in [Writers -> Snaps]
  /\ writes \in 0..MaxChanges /\ taken \in 0..MaxSnaps

EngineInit ==
  /\ work \in [Files -> {"absent", "a", "big", "locked"}]
  /\ index = Nothing
  /\ head = NoHead
  /\ exclude = <<>>
  /\ lock = "none"
  /\ protect \in BOOLEAN
  /\ snaps = [w \in Writers |-> NoSnap]
  /\ writes = 0 /\ taken = 0
-----------------------------------------------------------------------------
(* git.                                                                       *)

\* Mutant of WithLine: a line is appended whether it is there or not.
WithLineAgain(q, line) == Append(q, line)

\* WriteExclude: a line that is there is not appended again.
WithLine(q, line) == IF line \in Range(q) THEN q ELSE Append(q, line)
WithLines(q, lines) == q \o SetToSeq(lines \ Range(q))

\* A line is the path of a file as it is, which git reads as a pattern: a name without a
\* slash matches files of that name further down, too, and one with metacharacters may
\* not match its own file.  Of the lines that match a file the last decides.
Matching(q, f) == {k \in DOMAIN q : q[k] = Sparse \/ f \in Matched[q[k]]}
Visible(q, f) ==
  \/ Matching(q, f) = {}
  \/ /\ f \in Inside
     /\ q[CHOOSE k \in Matching(q, f) : \A l \in Matching(q, f) : l <= k] = Sparse

Tracked(f) == index[f] # "absent"

\* The files `git status` and `git add -A` look at: exclusion is of untracked files.
Seen(q) == {f \in Files : Tracked(f) \/ (Visible(q, f) /\ f \notin Ignored)}

HeadTree == IF head = NoHead THEN Nothing ELSE head

\* git status --porcelain is not empty for these.
Changed == {f \in Seen(exclude) : work[f] # index[f]} \cup {f \in Files : index[f] # HeadTree[f]}

\* A directory of which no file is tracked is one record of it, and its files are none.
InNewDir(f) == \E d \in Dirs : f \in d /\ \A g \in d : ~Tracked(g)
Reported == {f \in Changed : InNewDir(f) => index[f] # HeadTree[f]}

Locked(q) == {f \in Seen(q) : work[f] = "locked"}

\* The index after `git add -A` (of readable files).
Added(q) == [f \in Files |-> IF f \in Seen(q) THEN work[f] ELSE index[f]]
-----------------------------------------------------------------------------
(* A snapshot.                                                                *)

SnapAt(w, at) == snaps[w].at = at
SnapMoves(w, at) == snaps' = [snaps EXCEPT ![w].at = at]
Fail(w) == snaps' = [snaps EXCEPT ![w] = [NoSnap EXCEPT !.at = "failed"]]
Answer(w, sha) == snaps' = [snaps EXCEPT ![w] = [NoSnap EXCEPT !.at = "answered", !.sha = sha]]

Busy(w) == snaps[w].at \notin {"idle", "answered", "failed"}

\* The snapshots under way; an answer that has been given is forgotten.
Current == [w \in Writers |-> IF Busy(w) THEN snaps[w] ELSE NoSnap]

\* EnsureRepo, with the sparse lines once protect_paths is set, but in a daemon; Pre has
\* the fast path only on a commit.
SnapBegins(w, pre) ==
  /\ ~Busy(w)
  /\ taken < MaxSnaps
  /\ taken' = taken + 1
  /\ exclude' = IF protect /\ w \in Direct THEN WithLine(exclude, Sparse) ELSE exclude
  /\ snaps' = [Current EXCEPT ![w] = [NoSnap EXCEPT !.at =
                 IF pre /\ head # NoHead THEN "probe" ELSE "scan"]]
  /\ UNCHANGED <<work, index, head, lock, protect, writes>>

\* Clean ...
Probe(w) ==
  /\ SnapAt(w, "probe")
  /\ SnapMoves(w, IF Changed = {} THEN "head" ELSE "scan")
  /\ UNCHANGED <<work, index, head, exclude, lock, protect, writes, taken>>

\* ... then HeadSHA: the fast path; and so when there is nothing to commit.
Reuse(w) ==
  /\ snaps[w].at \in {"head", "same"}
  /\ Answer(w, head)
  /\ UNCHANGED <<work, index, head, exclude, lock, protect, writes, taken>>

\* Mutant of Oversized: every file is measured but none is left out.
OversizedNone == {}

\* What is not a regular file is not measured: a directory is not.
Oversized == {f \in Reported : work[f] = "big"}

\* ChangedPaths and excludeOversized.
Scan(w) ==
  /\ SnapAt(w, "scan")
  /\ exclude' = WithLines(exclude, Oversized)
  /\ snaps' = [snaps EXCEPT ![w].at = "add", ![w].unlisted = {f \in Files : InNewDir(f)}]
  /\ UNCHANGED <<work, index, head, lock, protect, writes, taken>>

\* Mutant of Retry: one unreadable file is the end of it.
RetryNever(w, f) == Fail(w) /\ UNCHANGED <<index, exclude>>

\* The unreadable file `git add -A` stopped at is excluded, and all is added again.
Retry(w, f) ==
  LET q == WithLine(exclude, f)
  IN  /\ exclude' = q
      /\ IF Locked(q) = {}
         THEN /\ index' = Added(q)
              /\ SnapMoves(w, "force")
         ELSE Fail(w) /\ UNCHANGED index

\* AddAll: a lock left behind is in the way until it is old enough to be removed.
Add(w) ==
  /\ SnapAt(w, "add")
  /\ IF lock = "fresh"
     THEN Fail(w) /\ UNCHANGED <<index, exclude>>
     ELSE IF Locked(exclude) = {}
     THEN index' = Added(exclude) /\ SnapMoves(w, "force") /\ UNCHANGED exclude
     ELSE \E f \in Locked(exclude) : Retry(w, f)
  /\ lock' = IF lock = "stale" THEN "none" ELSE lock
  /\ UNCHANGED <<work, head, protect, writes, taken>>

\* Mutant of ForceAdd: force_include is not staged.
ForceAddSkipped(w) ==
  /\ SnapAt(w, "force")
  /\ SnapMoves(w, "commit")
  /\ UNCHANGED <<work, index, head, exclude, lock, protect, writes, taken>>

\* AddForce of the forced files that exist.
ForceAdd(w) ==
  /\ SnapAt(w, "force")
  /\ LET paths == {f \in Forced : work[f] # "absent"}
     IN  IF paths # {} /\ (lock # "none" \/ \E f \in paths : work[f] = "locked")
         THEN /\ Fail(w)
              /\ UNCHANGED index
         ELSE /\ index' = [f \in Files |-> IF f \in paths THEN work[f] ELSE index[f]]
              /\ SnapMoves(w, "commit")
  /\ UNCHANGED <<work, head, exclude, lock, protect, writes, taken>>

\* The baseline commit, or IndexClean, or the first half of CommitTree: write-tree
\* and commit-tree.
Commit(w) ==
  /\ SnapAt(w, "commit")
  /\ IF head = NoHead
     THEN head' = index /\ Answer(w, index)
     ELSE /\ UNCHANGED head
          /\ IF index = head THEN SnapMoves(w, "same")
             ELSE snaps' = [snaps EXCEPT ![w].at = "ref", ![w].sha = index]
  /\ UNCHANGED <<work, index, exclude, lock, protect, writes, taken>>

\* update-ref HEAD
UpdateRef(w) ==
  /\ SnapAt(w, "ref")
  /\ head' = snaps[w].sha
  /\ snaps' = [v \in Writers |->
       IF v = w THEN [NoSnap EXCEPT !.at = "answered", !.sha = snaps[w].sha]
       ELSE IF snaps[v].at \in {"head", "same"} /\ head # snaps[w].sha
       THEN [snaps[v] EXCEPT !.moved = TRUE] ELSE snaps[v]]
  /\ UNCHANGED <<work, index, exclude, lock, protect, writes, taken>>
-----------------------------------------------------------------------------
(* What happens around it.                                                    *)

\* The budget is over or the process dies: git is killed, and may leave its lock.
GitKilled(w) ==
  /\ Busy(w)
  /\ Fail(w)
  /\ lock' \in (IF snaps[w].at \in {"add", "force"} /\ lock = "none"
                THEN {"none", "fresh"} ELSE {lock})
  /\ UNCHANGED <<work, index, head, exclude, protect, writes, taken>>

\* staleIndexLockAge passes, five minutes: more than the budget of a snapshot that had
\* staged its files before the lock was left.
Ages ==
  /\ lock = "fresh"
  /\ \A w \in Writers : snaps[w].at \notin {"force", "commit", "ref"}
  /\ lock' = "stale"
  /\ UNCHANGED <<work, index, head, exclude, protect, snaps, writes, taken>>

\* A command or the user changes a file.
Changes(f, c) ==
  /\ writes < MaxChanges
  /\ c # work[f]
  /\ work' = [work EXCEPT ![f] = c]
  /\ writes' = writes + 1
  /\ snaps' = [w \in Writers |->
       IF Busy(w) THEN [snaps[w] EXCEPT !.touched = @ \cup {f}]
       ELSE NoSnap]
  /\ UNCHANGED <<index, head, exclude, lock, protect, taken>>

\* bashback config set protect_paths
Protect ==
  /\ ~protect
  /\ protect' = TRUE
  /\ snaps' = Current
  /\ UNCHANGED <<work, index, head, exclude, lock, writes, taken>>

EngineNext ==
  \/ \E w \in Writers :
       \/ \E pre \in BOOLEAN : SnapBegins(w, pre)
       \/ Probe(w) \/ Reuse(w) \/ Scan(w) \/ Add(w) \/ ForceAdd(w)
       \/ Commit(w) \/ UpdateRef(w) \/ GitKilled(w)
  \/ Ages \/ Protect
  \/ \E f \in Files, c \in Contents : Changes(f, c)

EngineSpec == EngineInit /\ [][EngineNext]_engineVars
-----------------------------------------------------------------------------
(* Properties.                                                                *)

Answers(w) == Busy(w) /\ snaps'[w].at = "answered"
\* A line of f is there, or one of another file that matches it.
Lined(q, f) == \E g \in Range(q) \ {Sparse} : g = f \/ f \in Matched[g]
\* It does not hide f: protect_paths, set later, overrides it, and WriteExclude does not
\* append it again; or it is f's own and does not match it.
Undone(f) == Lined(exclude, f) /\ Visible(exclude, f)

\* The answered snapshot holds every file as it stood that did not change meanwhile:
\* each that git sees and can read and that no line of it or of a namesake hides, and
\* each forced one that was staged; and it holds no other content of any file.  Not so
\* when a slower writer sets HEAD between a look that finds all as in HEAD and the
\* reading of HEAD.
HoldsWhatStands ==
  \A w \in Writers : Answers(w) /\ ~snaps[w].moved =>
    \A f \in Files \ snaps[w].touched :
      LET got == snaps'[w].sha[f]
      IN  /\ f \notin Ignored /\ ~Lined(exclude, f) /\ Visible(exclude, f) => got = work[f]
          /\ got # "absent" => got = work[f]
          /\ f \in Forced /\ ~SnapAt(w, "head") => got = work[f]

\* A file over the size cap enters a snapshot only if it was tracked before it grew, is
\* forced or lay in a new directory at the scan (README has: "files over the size cap -
\* skipped"), or its line is undone.
BigStays ==
  \A w \in Writers, f \in Files :
    Add(w) /\ index[f] = "absent" /\ index'[f] = "big" =>
      \/ f \in snaps[w].touched \cup snaps[w].unlisted
      \/ Undone(f)

\* A snapshot fails for its files only if a tracked or forced one cannot be read, or
\* one that its own line does not match, or two of them (engine.go: "retrying once
\* around an unreadable file"), and for a lock only while that is fresh.
FailsFor ==
  \A w \in Writers :
    (Add(w) \/ ForceAdd(w)) /\ snaps'[w].at = "failed" =>
      \/ lock = "fresh"
      \/ \E f \in Files :
           /\ work[f] = "locked"
           /\ Tracked(f) \/ f \in Forced \/ Undone(f) \/ f \notin Matched[f]
      \/ Cardinality({f \in Files : work[f] = "locked"}) > 1

\* No step of a behaviour breaks one of them.
HoldsWhatStood == [][HoldsWhatStands]_engineVars
BigStaysOut    == [][BigStays]_engineVars
FailsOnlyFor   == [][FailsFor]_engineVars
=============================================================================
