---------------------------- MODULE RestoreProofs ----------------------------
(* What a recovery does to the work-tree, for any paths, contents, sessions   *)
(* and bounds: it overwrites only what its own snapshot holds, never an edit  *)
(* its gates compare, and ends with the pre content of what it was asked for. *)
EXTENDS Restore, SequenceTheorems, WellFoundedInduction, TLAPS

Stages == {"asked", "gated", "checkout", "remove", "merge", "merged"}
Kinds  == {"restore", "undo", "rewind"}

\* A recovery by the values of its fields.
OpShape ==
  [stage : Stages, kind : Kinds, of : Nat, entry : Entry, threeWay : BOOLEAN,
   scope : SUBSET Paths, saved : Nat, diff : SUBSET Paths, todo : SUBSET Paths,
   edited : SUBSET Paths, added : SUBSET Paths, late : SUBSET Paths, raced : SUBSET Paths]

\* The work-tree and the snapshots, each repository's having a newest one.
SnapsOK ==
  /\ tree \in Tree
  /\ commits \in Seq(Tree)
  /\ held \in [Repos -> SUBSET (1..Len(commits))]
  /\ \A s \in Repos : held[s] # {} => \E m \in held[s] : \A n \in held[s] : n <= m

\* The entries, none of them of the future.
RowsOK ==
  /\ entries \in Seq(Entry)
  /\ clock \in Nat
  /\ \A i \in DOMAIN entries : entries[i].ts <= clock

OpOK == op = Idle \/ op \in OpShape

\* Past the gates the entry's snapshots are there, and they stay.
Gated == Busy /\ op.stage # "asked"
SnapsThere ==
  Gated => /\ op.entry.pre \in held[Repo]
           /\ ~PreOnly /\ op.kind # "rewind" => op.entry.post \in held[Repo]

\* Nothing a gate was there to see passed it.
NothingEdited == Busy => op.edited = {}

\* A rewind is of all paths, and not a merge; an undo is a restore once it has begun.
KindsOK ==
  /\ Busy /\ op.kind = "rewind" =>
       ~op.threeWay /\ (op.stage \in {"asked", "gated"} => op.scope = Paths)
  /\ Gated => op.kind # "undo"

\* Once there is a pre-restore snapshot, paths that nobody has written since are as it
\* holds them, or it did not take them, or as the recovery has left them.
Applying == Busy /\ op.stage \in {"checkout", "remove", "merge", "merged"}
Saved(p) == Files(op.saved)[p]
Stood(p) == tree[p] = Saved(p) \/ (tree[p] \in Uncovered /\ Saved(p) = Absent)
TreeIsKnown ==
  Applying =>
    /\ op.saved \in 1..Len(commits)
    /\ op.kind = "rewind" => \A p \in Paths \ op.diff : Saved(p) = Target[p]
    /\ op.stage \in {"checkout", "merge"} => \A p \in Paths \ op.raced : Stood(p)
    /\ op.stage \in {"merge", "merged"} => op.threeWay
    /\ op.stage = "remove" =>
         /\ op.todo \subseteq op.diff /\ \A p \in op.todo : Target[p] = Absent
         /\ \A p \in Paths \ op.raced :
              IF p \in op.diff \ op.todo THEN tree[p] = Target[p] ELSE Stood(p)

Recovery == SnapsThere /\ NothingEdited /\ KindsOK /\ TreeIsKnown

RInv == SnapsOK /\ RowsOK /\ OpOK /\ writes \in Nat /\ Recovery
-----------------------------------------------------------------------------
(* Snapshots and rows.                                                        *)

LEMMA BusyOp ==
  ASSUME OpOK
  PROVE  Busy <=> op \in OpShape
  BY DEF OpOK, Busy, Idle, OpShape, Stages

\* Without a commit of the same tree the newest snapshot is made now.
LEMMA NewestOf ==
  ASSUME SnapsOK, NEW s \in Repos, held[s] # {}
  PROVE  HEAD(s) \in held[s] /\ \A n \in held[s] : n <= HEAD(s)
<1>1. \E m \in held[s] : \A n \in held[s] : n <= m  BY DEF SnapsOK
<1>2. QED  BY <1>1 DEF HEAD, Newest

\* What is taken of a path is what is there, or nothing of a file that is not covered.
LEMMA TakenIs ==
  ASSUME tree \in Tree, NEW s \in Repos
  PROVE  /\ Taken(s) \in Tree
         /\ \A p \in Paths :
              \/ Taken(s)[p] = tree[p]
              \/ tree[p] \in Uncovered /\ index[s][p] = Absent /\ Taken(s)[p] = Absent
         /\ \A p \in Paths :
              tree[p] \in Uncovered /\ index[s][p] = Absent => Taken(s)[p] = Absent
  BY DEF Taken, Tree, Contents

\* A snapshot adds at most one commit, keeps all there were, and has what it took.
LEMMA SnapKeeps ==
  ASSUME SnapsOK, NEW s \in Repos, Snap(s), tree' = tree
  PROVE  /\ SnapsOK'
         /\ Len(commits) <= Len(commits')
         /\ \A n \in 1..Len(commits) : commits'[n] = commits[n]
         /\ \A t \in Repos : held[t] \subseteq held'[t]
         /\ SnapSHA(s) \in 1..Len(commits') /\ SnapSHA(s) \in held'[s]
         /\ commits'[SnapSHA(s)] = Taken(s)
<1>. DEFINE sha == SnapSHA(s)
<1>0. /\ tree \in Tree /\ commits \in Seq(Tree) /\ Len(commits) \in Nat
      /\ held \in [Repos -> SUBSET (1..Len(commits))] /\ Taken(s) \in Tree
  BY TakenIs DEF SnapsOK
<1>1. held' = [held EXCEPT ![s] = @ \cup {sha}]  BY DEF Snap
<1>2. CASE Commits(s)
  <2>1. sha = Len(commits) + 1 /\ commits' = Append(commits, Taken(s))
    BY <1>2 DEF Snap, SnapSHA
  <2>. HIDE DEF sha
  <2>2. /\ commits' \in Seq(Tree) /\ Len(commits') = Len(commits) + 1
        /\ \A n \in 1..Len(commits) : commits'[n] = commits[n]
        /\ commits'[sha] = Taken(s)
    BY <1>0, <2>1
  <2>3. held' \in [Repos -> SUBSET (1..Len(commits'))]
    BY <1>0, <1>1, <2>1, <2>2
  <2>4. ASSUME NEW t \in Repos, held'[t] # {}
        PROVE  \E m \in held'[t] : \A n \in held'[t] : n <= m
    <3>1. CASE t = s
      <4>1. sha \in held'[t] /\ \A n \in held'[t] : n <= sha
        <5>1. held'[t] = held[t] \cup {sha} /\ held[t] \subseteq 1..Len(commits)
          BY <1>0, <1>1, <3>1
        <5>2. QED  BY <1>0, <2>1, <5>1
      <4>2. QED  BY <4>1
    <3>2. CASE t # s  BY <1>0, <1>1, <2>4, <3>2 DEF SnapsOK
    <3>3. QED  BY <3>1, <3>2
  <2>5. SnapsOK'  BY <1>0, <2>2, <2>3, <2>4 DEF SnapsOK
  <2>6. \A t \in Repos : held[t] \subseteq held'[t]  BY <1>0, <1>1
  <2>7. sha \in 1..Len(commits') /\ sha \in held'[s]  BY <1>0, <1>1, <2>1, <2>2
  <2>8. QED  BY <1>0, <2>2, <2>5, <2>6, <2>7 DEF sha
<1>3. CASE ~Commits(s)
  <2>1. sha = HEAD(s) /\ commits' = commits /\ HEAD(s) # NoSHA /\ commits[HEAD(s)] = Taken(s)
    BY <1>3 DEF Snap, SnapSHA, Commits, Files
  <2>. HIDE DEF sha
  <2>2. held[s] # {}  BY <2>1 DEF HEAD, Newest, NoSHA
  <2>3. sha \in held[s]  BY <2>1, <2>2, NewestOf
  <2>4. held' = held  BY <1>0, <1>1, <2>3
  <2>5. QED  BY <1>0, <2>1, <2>3, <2>4 DEF SnapsOK, sha
<1>4. QED  BY <1>2, <1>3

\* The zero entry, field by field.
LEMMA NoEntryFields ==
  /\ DOMAIN NoEntry = {"key", "session", "pre", "post", "status", "overlapped", "skipped",
                       "ts", "dur"}
  /\ NoEntry.session = Manual /\ NoEntry.pre = 0 /\ NoEntry.post = 0
  /\ NoEntry.status = "" /\ NoEntry.overlapped = FALSE /\ NoEntry.skipped = FALSE
  BY DEF NoEntry, NoSHA

\* Two rows of a key fold into an entry of the same shape.
LEMMA MergeShape ==
  ASSUME NEW e \in Entry, NEW r \in Entry
  PROVE  MergeEntry(NoEntry, e, r) \in Entry
<1>. DEFINE m == MergeEntry(NoEntry, e, r)
            Names == {"key", "session", "pre", "post", "status", "overlapped", "skipped",
                      "ts", "dur"}
<1>1. m = [f \in Names |-> Later(NoEntry[f], e[f], r[f])]
  BY NoEntryFields DEF MergeEntry
<1>. HIDE DEF m
<1>2. \A f \in Names : m[f] \in {e[f], r[f]}
  BY <1>1 DEF Later
<1>3. /\ m.key \in Keys /\ m.session \in Repos /\ m.pre \in Nat /\ m.post \in Nat
      /\ m.status \in Statuses /\ m.overlapped \in BOOLEAN /\ m.skipped \in BOOLEAN
      /\ m.ts \in Nat /\ m.dur \in Nat
  BY <1>2 DEF Entry
<1>4. m = [key |-> m.key, session |-> m.session, pre |-> m.pre, post |-> m.post,
           status |-> m.status, overlapped |-> m.overlapped, skipped |-> m.skipped,
           ts |-> m.ts, dur |-> m.dur]
  BY <1>1, Zenon
<1>5. m \in Entry  BY <1>3, <1>4 DEF Entry
<1>6. QED  BY <1>5 DEF m

\* An entry's time is that of one of its rows.
LEMMA MergeTime ==
  ASSUME NEW e \in Entry, NEW r \in Entry
  PROVE  MergeEntry(NoEntry, e, r).ts \in {e.ts, r.ts}
<1>. DEFINE m == MergeEntry(NoEntry, e, r)
            Names == {"key", "session", "pre", "post", "status", "overlapped", "skipped",
                      "ts", "dur"}
<1>1. m = [f \in Names |-> Later(NoEntry[f], e[f], r[f])]
  BY NoEntryFields DEF MergeEntry
<1>. HIDE DEF m
<1>2. m.ts \in {e.ts, r.ts}  BY <1>1 DEF Later
<1>3. QED  BY <1>2 DEF m

LEMMA JournalKeeps ==
  ASSUME RowsOK, NEW row \in Entry, row.ts = clock, Journal(row)
  PROVE  RowsOK'
<1>. DEFINE same == {i \in DOMAIN entries : entries[i].key = row.key}
            n == Newest(same)
<1>0. /\ entries \in Seq(Entry) /\ clock' = clock + 1 /\ clock \in Nat
      /\ \A i \in 1..Len(entries) : entries[i] \in Entry /\ entries[i].ts <= clock
      /\ Len(entries) \in Nat
  BY ElementOfSeq DEF RowsOK, Journal
<1>1. CASE same = {}
  <2>1. entries' = Append(entries, row)  BY <1>1 DEF Journal
  <2>2. entries' \in Seq(Entry) /\ Len(entries') = Len(entries) + 1
        /\ \A i \in 1..Len(entries') : entries'[i] = IF i <= Len(entries) THEN entries[i] ELSE row
    BY <1>0, <2>1
  <2>3. \A i \in 1..Len(entries') : entries'[i].ts <= clock'
    <3>1. SUFFICES ASSUME NEW i \in 1..Len(entries') PROVE entries'[i].ts <= clock'
      OBVIOUS
    <3>2. entries'[i] \in Entry /\ entries'[i].ts <= clock
      BY <1>0, <2>2
    <3>3. entries'[i].ts \in Int  BY <3>2 DEF Entry
    <3>4. QED  BY <1>0, <3>2, <3>3
  <2>4. QED  BY <1>0, <2>2, <2>3 DEF RowsOK
<1>2. CASE same # {}
  <2>1. entries' = [entries EXCEPT ![n] = MergeEntry(NoEntry, @, row)]
    BY <1>2 DEF Journal
  <2>. HIDE DEF n, same
  <2>2. CASE n \in 1..Len(entries)
    <3>. DEFINE m == MergeEntry(NoEntry, entries[n], row)
    <3>1. m \in Entry /\ m.ts \in {entries[n].ts, row.ts}
      BY <1>0, <2>2, MergeShape, MergeTime
    <3>2. entries' = [entries EXCEPT ![n] = m]  BY <2>1
    <3>. HIDE DEF m
    <3>3. /\ entries' \in Seq(Entry) /\ Len(entries') = Len(entries)
          /\ \A i \in 1..Len(entries) : entries'[i] = IF i = n THEN m ELSE entries[i]
      BY <1>0, <2>2, <3>1, <3>2, ExceptSeq
    <3>4. ASSUME NEW i \in 1..Len(entries) PROVE entries'[i].ts <= clock'
      <4>1. entries'[i] \in Entry /\ entries'[i].ts <= clock
        BY <1>0, <2>2, <3>1, <3>3
      <4>2. entries'[i].ts \in Int  BY <4>1 DEF Entry
      <4>3. QED  BY <1>0, <4>1, <4>2
    <3>5. QED  BY <1>0, <3>3, <3>4 DEF RowsOK
  <2>3. CASE n \notin 1..Len(entries)
    <3>1. entries' = entries  BY <1>0, <2>1, <2>3
    <3>2. ASSUME NEW i \in DOMAIN entries PROVE entries[i].ts <= clock'
      <4>1. entries[i] \in Entry /\ entries[i].ts <= clock  BY <1>0
      <4>2. entries[i].ts \in Int  BY <4>1 DEF Entry
      <4>3. QED  BY <1>0, <4>1, <4>2
    <3>3. QED  BY <1>0, <3>1, <3>2 DEF RowsOK
  <2>4. QED  BY <2>2, <2>3
<1>3. QED  BY <1>1, <1>2

\* Among entries there is always a latest one.
LEMMA LatestOf ==
  ASSUME RowsOK, NEW S \in SUBSET DOMAIN entries, S # {}
  PROVE  Latest(S) \in S
<1>. DEFINE T == {clock - entries[i].ts : i \in S}
<1>1. \A i \in S : entries[i].ts \in Int /\ entries[i].ts <= clock
  <2>1. SUFFICES ASSUME NEW i \in S PROVE entries[i].ts \in Int /\ entries[i].ts <= clock
    OBVIOUS
  <2>2. entries[i] \in Entry  BY ElementOfSeq DEF RowsOK
  <2>3. QED  BY <2>2 DEF RowsOK, Entry
<1>2. T \subseteq Nat /\ T # {}  BY <1>1 DEF RowsOK
<1>3. PICK x \in T : \A y \in T : ~(<<y, x>> \in OpToRel(<, Nat))
  <2>. HIDE DEF T
  <2>1. QED  BY <1>2, NatLessThanWellFounded, WFMin
<1>4. \A y \in T : ~(y < x)
  <2>1. ASSUME NEW y \in T, y < x PROVE FALSE
    <3>1. <<y, x>> \in OpToRel(<, Nat)  BY <1>2, <2>1 DEF OpToRel
    <3>2. QED  BY <1>3, <3>1
  <2>2. QED  BY <2>1
<1>5. PICK i \in S : x = clock - entries[i].ts  BY <1>3
<1>6. \A j \in S : entries[j].ts <= entries[i].ts
  <2>1. ASSUME NEW j \in S PROVE entries[j].ts <= entries[i].ts
    <3>1. ~(clock - entries[j].ts < clock - entries[i].ts)  BY <1>4, <1>5
    <3>2. QED  BY <1>1, <3>1 DEF RowsOK
  <2>2. QED  BY <2>1
<1>7. QED  BY <1>6 DEF Latest
-----------------------------------------------------------------------------
(* Hooks, checkpoints, people and garbage collection.                         *)

\* The entry a recovery works on, and the snapshots it needs.
LEMMA RecoveryReads ==
  ASSUME SnapsOK, OpOK, SnapsThere, Gated
  PROVE  /\ op \in OpShape /\ op.entry \in Entry /\ Repo \in Repos
         /\ op.entry.pre \in 1..Len(commits) /\ op.entry.pre # NoSHA
         /\ Target = commits[op.entry.pre] /\ Target \in Tree
         /\ ~PreOnly /\ op.kind # "rewind" => op.entry.post \in 1..Len(commits)
<1>1. op \in OpShape  BY BusyOp DEF Gated
<1>2. op.entry \in Entry /\ Repo \in Repos
  BY <1>1 DEF OpShape, Entry, Repo
<1>3. /\ op.entry.pre \in 1..Len(commits)
      /\ ~PreOnly /\ op.kind # "rewind" => op.entry.post \in 1..Len(commits)
  BY <1>2 DEF SnapsThere, SnapsOK
<1>4. Len(commits) \in Nat /\ commits \in Seq(Tree)  BY DEF SnapsOK
<1>5. QED  BY <1>1, <1>2, <1>3, <1>4, ElementOfSeq DEF Target, Files, NoSHA

\* Snapshots beside a recovery take nothing from it.
LEMMA OthersSnap ==
  ASSUME SnapsOK, OpOK, Recovery, UNCHANGED <<op, tree>>, Len(commits') \in Nat,
         Len(commits) <= Len(commits'),
         \A n \in 1..Len(commits) : commits'[n] = commits[n],
         \A t \in Repos : held[t] \subseteq held'[t]
  PROVE  Recovery'
<1>1. NothingEdited' /\ KindsOK'
  BY DEF Recovery, NothingEdited, KindsOK, Gated, Busy
<1>2. CASE ~Gated
  BY <1>1, <1>2 DEF Recovery, Gated, Busy, SnapsThere, Applying, TreeIsKnown, Idle
<1>3. CASE Gated
  <2>1. /\ op \in OpShape /\ Repo \in Repos /\ op.entry.pre \in 1..Len(commits)
        /\ ~PreOnly /\ op.kind # "rewind" => op.entry.post \in 1..Len(commits)
    BY <1>3, RecoveryReads DEF Recovery
  <2>2. SnapsThere'
    BY <1>3, <2>1 DEF Recovery, SnapsThere, Gated, Busy, Repo, PreOnly
  <2>3. Target' = Target  BY <2>1 DEF Target, Files
  <2>4. TreeIsKnown'
    <3>1. SUFFICES ASSUME Applying PROVE TreeIsKnown'
      BY DEF TreeIsKnown, Applying, Busy
    <3>2. op.saved \in 1..Len(commits) /\ op.saved \in 1..Len(commits')
      BY <3>1 DEF Recovery, TreeIsKnown, SnapsOK
    <3>3. \A p : Saved(p)' = Saved(p)  BY <3>2 DEF Saved, Files
    <3>4. TreeIsKnown  BY DEF Recovery
    <3>5. QED
      BY <3>1, <3>2, <3>3, <3>4, <2>3 DEF TreeIsKnown, Stood, Applying, Busy
  <2>5. QED  BY <1>1, <2>2, <2>4 DEF Recovery
<1>4. QED  BY <1>2, <1>3

LEMMA CmdPreKeeps ==
  ASSUME RInv, NEW s \in Sessions, CmdPre(s)
  PROVE  RInv'
<1>. DEFINE others == {i \in DOMAIN entries : Open(entries[i]) /\ entries[i].session = s}
            flagged == [i \in DOMAIN entries |->
              IF i \in others THEN [entries[i] EXCEPT !.overlapped = TRUE] ELSE entries[i]]
            row == [key |-> [kind |-> "command", sha |-> NoSHA, of |-> Len(entries) + 1],
                    session |-> s, pre |-> SnapSHA(s), post |-> NoSHA, status |-> "",
                    overlapped |-> others # {}, skipped |-> ~Commits(s), ts |-> clock, dur |-> 0]
<1>0. s \in Repos /\ SnapsOK /\ RowsOK /\ OpOK /\ Recovery /\ UNCHANGED <<tree, op, writes>>
  BY DEF RInv, Repos, CmdPre
<1>1. /\ SnapsOK' /\ Len(commits) <= Len(commits') /\ SnapSHA(s) \in 1..Len(commits')
      /\ \A n \in 1..Len(commits) : commits'[n] = commits[n]
      /\ \A t \in Repos : held[t] \subseteq held'[t]
  BY <1>0, SnapKeeps DEF CmdPre
<1>2. Len(commits') \in Nat  BY <1>1 DEF SnapsOK
<1>3. Recovery'  BY <1>0, <1>1, <1>2, OthersSnap
<1>4. entries' = Append(flagged, row) /\ clock' = clock + 1  BY DEF CmdPre
<1>5. entries \in Seq(Entry) /\ Len(entries) \in Nat /\ clock \in Nat
      /\ DOMAIN entries = 1..Len(entries)
  BY <1>0 DEF RowsOK
<1>6. row \in Entry
  <2>1. row.key \in Keys  BY <1>5 DEF Keys, NoSHA
  <2>2. SnapSHA(s) \in Nat /\ (others # {}) \in BOOLEAN /\ (~Commits(s)) \in BOOLEAN
    BY <1>1, <1>2
  <2>3. clock \in Nat /\ 0 \in Nat /\ "" \in Statuses
    BY <1>5 DEF Statuses
  <2>4. \A key \in Keys, sha \in Nat, a, b \in BOOLEAN :
          [key |-> key, session |-> s, pre |-> sha, post |-> NoSHA, status |-> "",
           overlapped |-> a, skipped |-> b, ts |-> clock, dur |-> 0] \in Entry
    BY <1>0, <2>3, Zenon DEF Entry, NoSHA
  <2>5. QED  BY <2>1, <2>2, <2>4
<1>7. /\ flagged \in Seq(Entry) /\ Len(flagged) = Len(entries)
      /\ \A i \in 1..Len(entries) : flagged[i] \in Entry /\ flagged[i].ts <= clock
  <2>1. \A i \in 1..Len(entries) : entries[i] \in Entry
    BY <1>5, ElementOfSeq
  <2>. HIDE DEF others
  <2>2. \A i \in 1..Len(entries) :
          (IF i \in others THEN [entries[i] EXCEPT !.overlapped = TRUE] ELSE entries[i])
            \in Entry
    BY <2>1 DEF Entry
  <2>3. flagged \in [1..Len(entries) -> Entry]  BY <1>5, <2>2
  <2>4. \A i \in 1..Len(entries) : flagged[i].ts = entries[i].ts
    BY <1>5, <2>1 DEF Entry
  <2>. HIDE DEF flagged
  <2>5. flagged \in Seq(Entry)  BY <1>5, <2>3, SeqDef
  <2>6. Len(flagged) = Len(entries)  BY <1>5, <2>3, <2>5
  <2>7. QED  BY <1>0, <1>5, <2>3, <2>4, <2>5, <2>6 DEF RowsOK
<1>8. row.ts = clock  OBVIOUS
<1>. HIDE DEF flagged, row
<1>9. RowsOK'
  <2>1. /\ entries' \in Seq(Entry) /\ Len(entries') = Len(entries) + 1
        /\ \A i \in 1..Len(entries') : entries'[i] = IF i <= Len(entries) THEN flagged[i] ELSE row
    BY <1>4, <1>5, <1>6, <1>7
  <2>2. ASSUME NEW i \in 1..Len(entries') PROVE entries'[i].ts <= clock'
    <3>1. entries'[i] \in Entry /\ entries'[i].ts <= clock
      BY <1>5, <1>6, <1>7, <1>8, <2>1
    <3>2. entries'[i].ts \in Int  BY <3>1 DEF Entry
    <3>3. QED  BY <1>4, <1>5, <3>1, <3>2
  <2>3. QED  BY <1>4, <1>5, <2>1, <2>2 DEF RowsOK
<1>10. QED  BY <1>0, <1>1, <1>3, <1>9 DEF RInv, OpOK

LEMMA CmdPostKeeps ==
  ASSUME RInv, NEW i \in DOMAIN entries, CmdPost(i)
  PROVE  RInv'
<1>. DEFINE e == entries[i]
            s == e.session
            status == IF e.skipped /\ ~Commits(s) THEN "skipped_no_change" ELSE "protected"
            row == [e EXCEPT !.post = SnapSHA(s), !.skipped = FALSE, !.ts = clock,
                             !.dur = clock - e.ts, !.status = status]
<1>0. SnapsOK /\ RowsOK /\ OpOK /\ Recovery /\ UNCHANGED <<tree, op, writes>>
  BY DEF RInv, CmdPost
<1>1. entries \in Seq(Entry) /\ i \in 1..Len(entries) /\ clock \in Nat
  BY <1>0 DEF RowsOK
<1>2. e \in Entry /\ s \in Repos
  <2>1. e \in Entry  BY <1>1, ElementOfSeq
  <2>. HIDE DEF e
  <2>2. QED  BY <2>1 DEF Entry
<1>3. /\ SnapsOK' /\ Len(commits) <= Len(commits') /\ SnapSHA(s) \in 1..Len(commits')
      /\ \A n \in 1..Len(commits) : commits'[n] = commits[n]
      /\ \A t \in Repos : held[t] \subseteq held'[t]
  BY <1>0, <1>2, SnapKeeps DEF CmdPost
<1>4. Len(commits') \in Nat  BY <1>3 DEF SnapsOK
<1>5. Recovery'  BY <1>0, <1>3, <1>4, OthersSnap
<1>6. row \in Entry /\ row.ts = clock
  <2>1. SnapSHA(s) \in Nat /\ status \in Statuses  BY <1>3, <1>4 DEF Statuses
  <2>. HIDE DEF status, s
  <2>2. e.ts \in Nat /\ e.ts <= clock  BY <1>0, <1>1, <1>2 DEF Entry, RowsOK
  <2>3. clock \in Nat /\ clock - e.ts \in Nat  BY <1>1, <2>2
  <2>. HIDE DEF e
  <2>4. QED  BY <1>2, <2>1, <2>3 DEF Entry
<1>7. entries' = [entries EXCEPT ![i] = row] /\ clock' = clock + 1  BY DEF CmdPost
<1>. HIDE DEF row
<1>8. RowsOK'
  <2>1. /\ entries' \in Seq(Entry) /\ Len(entries') = Len(entries)
        /\ \A j \in 1..Len(entries) : entries'[j] = IF j = i THEN row ELSE entries[j]
    BY <1>1, <1>6, <1>7, ExceptSeq
  <2>2. ASSUME NEW j \in 1..Len(entries) PROVE entries'[j].ts <= clock'
    <3>1. entries'[j] \in Entry /\ entries'[j].ts <= clock
      <4>1. entries[j] \in Entry /\ entries[j].ts <= clock
        BY <1>0, <1>1, ElementOfSeq DEF RowsOK
      <4>2. QED  BY <1>1, <1>6, <2>1, <4>1
    <3>2. entries'[j].ts \in Int  BY <3>1 DEF Entry
    <3>3. QED  BY <1>1, <1>7, <3>1, <3>2
  <2>3. QED  BY <1>1, <1>7, <2>1, <2>2 DEF RowsOK
<1>9. QED  BY <1>0, <1>3, <1>5, <1>8 DEF RInv, OpOK

LEMMA CheckpointKeeps ==
  ASSUME RInv, Checkpoint
  PROVE  RInv'
<1>. DEFINE row == [key |-> [kind |-> "snap", sha |-> SnapSHA(Manual), of |-> 0],
                    session |-> Manual, pre |-> SnapSHA(Manual), post |-> NoSHA,
                    status |-> "manual", overlapped |-> FALSE, skipped |-> FALSE,
                    ts |-> clock, dur |-> 0]
<1>0. /\ Manual \in Repos /\ SnapsOK /\ RowsOK /\ OpOK /\ Recovery
      /\ UNCHANGED <<tree, op, writes>>
  BY DEF RInv, Repos, Checkpoint
<1>1. /\ SnapsOK' /\ Len(commits) <= Len(commits') /\ SnapSHA(Manual) \in 1..Len(commits')
      /\ \A n \in 1..Len(commits) : commits'[n] = commits[n]
      /\ \A t \in Repos : held[t] \subseteq held'[t]
  BY <1>0, SnapKeeps DEF Checkpoint
<1>2. Len(commits') \in Nat  BY <1>1 DEF SnapsOK
<1>3. Recovery'  BY <1>0, <1>1, <1>2, OthersSnap
<1>4. row \in Entry
  <2>1. SnapSHA(Manual) \in Nat /\ clock \in Nat  BY <1>0, <1>1, <1>2 DEF RowsOK
  <2>2. row.key \in Keys  BY <2>1 DEF Keys
  <2>3. QED  BY <1>0, <2>1, <2>2 DEF Entry, Statuses, NoSHA
<1>5. RowsOK'  BY <1>0, <1>4, JournalKeeps DEF Checkpoint
<1>6. QED  BY <1>0, <1>1, <1>3, <1>5 DEF RInv, OpOK

\* What is written beside a recovery is remembered by it.
LEMMA WriteKeeps ==
  ASSUME RInv, NEW S \in SUBSET Paths, NEW content \in Values \cup {Absent}, Write(S, content)
  PROVE  RInv'
<1>. DEFINE put == [p \in S |-> content]
<1>0. /\ SnapsOK /\ RowsOK /\ OpOK /\ Recovery /\ writes \in Nat
      /\ UNCHANGED <<commits, held, entries, clock>> /\ writes' = writes + 1
      /\ tree' = [p \in Paths |-> IF p \in S THEN put[p] ELSE tree[p]]
  BY DEF RInv, Write, Put
<1>1. RowsOK' /\ writes' \in Nat  BY <1>0 DEF RowsOK
<1>2. tree' \in Tree /\ \A p \in Paths \ S : tree'[p] = tree[p]
  BY <1>0 DEF SnapsOK, Tree, Contents
<1>3. SnapsOK'  BY <1>0, <1>2 DEF SnapsOK
<1>4. CASE ~Busy
  <2>1. op' = op  BY <1>4 DEF Write
  <2>2. OpOK' /\ Recovery'
    BY <1>0, <1>4, <2>1 DEF OpOK, Recovery, SnapsThere, NothingEdited, KindsOK,
                            TreeIsKnown, Gated, Applying, Busy
  <2>3. QED  BY <1>1, <1>3, <2>2 DEF RInv
<1>5. CASE Busy
  <2>1. op \in OpShape /\ op' = Noted(S)  BY <1>0, <1>5, BusyOp DEF Write
  <2>. DEFINE late == op.late \cup (S \cap (op.edited \cup op.added))
              raced == IF op.saved = NoSHA THEN {} ELSE op.raced \cup S
  <2>2. op' = [op EXCEPT !.late = late, !.raced = raced]  BY <2>1 DEF Noted
  <2>3. late \in SUBSET Paths /\ raced \in SUBSET Paths  BY <2>1 DEF OpShape
  <2>4. raced = IF op.saved = NoSHA THEN {} ELSE op.raced \cup S  OBVIOUS
  <2>. HIDE DEF late, raced
  <2>5. op' \in OpShape  BY <2>1, <2>2, <2>3 DEF OpShape
  <2>6. /\ op'.stage = op.stage /\ op'.kind = op.kind /\ op'.entry = op.entry
        /\ op'.threeWay = op.threeWay /\ op'.saved = op.saved /\ op'.diff = op.diff
        /\ op'.todo = op.todo /\ op'.edited = op.edited /\ op'.raced = raced
        /\ op'.scope = op.scope
    BY <2>1, <2>2 DEF OpShape
  <2>7. Target' = Target /\ PreOnly' = PreOnly /\ Repo' = Repo /\ \A p : Saved(p)' = Saved(p)
    BY <1>0, <2>6 DEF Target, Files, PreOnly, Repo, Saved
  <2>8. SnapsThere' /\ NothingEdited' /\ KindsOK'
    BY <1>0, <2>6, <2>7 DEF Recovery, SnapsThere, NothingEdited, KindsOK, Gated, Busy
  <2>9. TreeIsKnown'
    <3>1. SUFFICES ASSUME Applying PROVE TreeIsKnown'
      BY <2>6 DEF TreeIsKnown, Applying, Busy
    <3>2. TreeIsKnown /\ op.saved \in 1..Len(commits)
      BY <1>0, <3>1 DEF Recovery, TreeIsKnown
    <3>3. op'.raced = op.raced \cup S
      BY <2>4, <2>6, <3>2, <1>0 DEF NoSHA, SnapsOK
    <3>4. \A p \in Paths \ op'.raced : p \in Paths \ op.raced /\ tree'[p] = tree[p]
      BY <1>2, <3>3
    <3>5. QED
      BY <1>0, <2>6, <2>7, <3>1, <3>2, <3>4 DEF TreeIsKnown, Stood, Applying, Busy
  <2>10. QED  BY <1>1, <1>3, <2>5, <2>8, <2>9 DEF RInv, OpOK, Recovery
<1>6. QED  BY <1>4, <1>5

LEMMA ReclaimKeeps ==
  ASSUME RInv, NEW s \in Repos, Reclaim(s)
  PROVE  RInv'
<1>1. SnapsOK'  BY DEF RInv, SnapsOK, Reclaim
<1>2. QED
  BY <1>1 DEF RInv, RowsOK, OpOK, Recovery, SnapsThere, NothingEdited, KindsOK,
              TreeIsKnown, Gated, Applying, Busy, Reclaim
-----------------------------------------------------------------------------
(* Asking for a recovery, and its gates.                                      *)

\* A recovery that is over leaves nothing to keep.
LEMMA EndKeeps ==
  ASSUME op' = Idle
  PROVE  OpOK' /\ Recovery'
  BY DEF OpOK, Recovery, SnapsThere, NothingEdited, KindsOK, TreeIsKnown, Gated, Applying,
         Busy, Idle

LEMMA AskKeeps ==
  ASSUME RInv, NEW kind \in Kinds, NEW i \in DOMAIN entries, NEW added \in SUBSET Paths,
         Ask(kind, i, {}, added)
  PROVE  RInv'
<1>. DEFINE e == View(i)
<1>0. SnapsOK /\ RowsOK /\ UNCHANGED <<tree, commits, held, entries, clock, writes>>
  BY DEF RInv, Ask
<1>1. e \in Entry
  <2>. DEFINE f == entries[i]
              overlapped == f.overlapped \/ Overlaps(i)
  <2>1. f \in Entry  BY <1>0, ElementOfSeq DEF RowsOK
  <2>2. e = [f EXCEPT !.overlapped = overlapped]  BY DEF View
  <2>3. overlapped \in BOOLEAN  OBVIOUS
  <2>. HIDE DEF e, f, overlapped
  <2>4. QED  BY <2>1, <2>2, <2>3 DEF Entry
<1>. HIDE DEF e
<1>2. op' = [stage |-> "asked", kind |-> kind, of |-> i, entry |-> e, threeWay |-> FALSE,
             scope |-> Paths, saved |-> NoSHA, diff |-> {}, todo |-> {}, edited |-> {},
             added |-> added, late |-> {}, raced |-> {}]
  BY DEF Ask, e
<1>3. i \in Nat  BY <1>0 DEF RowsOK
<1>4. op' \in OpShape  BY <1>1, <1>2, <1>3 DEF OpShape, Stages, NoSHA
<1>5. Recovery'
  BY <1>2 DEF Recovery, SnapsThere, NothingEdited, KindsOK, TreeIsKnown, Gated, Applying
<1>6. SnapsOK' /\ RowsOK'  BY <1>0 DEF SnapsOK, RowsOK
<1>7. QED  BY <1>0, <1>4, <1>5, <1>6 DEF RInv, OpOK

LEMMA UndoKeeps ==
  ASSUME RInv, Undo
  PROVE  RInv'
<1>1. PICK S \in SUBSET DOMAIN entries : UndoOf(S)
  BY DEF Undo
<1>2. Undoable(S) \in SUBSET DOMAIN entries /\ Undoable(S) # {}
  BY <1>1 DEF UndoOf, Undoable
<1>3. Latest(Undoable(S)) \in DOMAIN entries
  BY <1>2, LatestOf DEF RInv
<1>4. QED  BY <1>1, <1>3, AskKeeps DEF UndoOf, Kinds

\* A file the compared snapshot has, with another content, is one that `git diff` sees.
LEMMA EditsDiffer ==
  ASSUME NEW s, NEW sha, NEW scope, ~WorktreeChangedSince(s, sha, scope)
  PROVE  Edited(Files(sha), scope) = {}
  BY DEF WorktreeChangedSince, Differs, Edited, Diff

LEMMA RewindKeeps ==
  ASSUME RInv, NEW i \in DOMAIN entries, NEW force \in BOOLEAN, Rewind(i, force)
  PROVE  RInv'
<1>. DEFINE b == entries[Latest(Baseline(i))]
            files == Files(b.post)
<1>1. CASE force \/ ~Comparable(i)
  BY <1>1, AskKeeps DEF Rewind, Kinds
<1>2. CASE ~(force \/ ~Comparable(i))
  <2>1. ~WorktreeChangedSince(b.session, b.post, Paths)
    BY <1>2 DEF Rewind, HasUncommittedEdits
  <2>2. Edited(files, Paths) = {}  BY <2>1, EditsDiffer
  <2>3. Added(files, Paths) \in SUBSET Paths  BY DEF Added, Diff
  <2>4. Ask("rewind", i, {}, Added(files, Paths))
    BY <1>2, <2>2 DEF Rewind
  <2>. HIDE DEF files
  <2>5. QED  BY <2>3, <2>4, AskKeeps DEF Kinds
<1>3. QED  BY <1>1, <1>2

LEMMA GateKeeps ==
  ASSUME RInv, Gate
  PROVE  RInv'
<1>0. /\ SnapsOK' /\ RowsOK' /\ writes' \in Nat /\ op \in OpShape
      /\ op.stage = "asked" /\ Busy /\ op.edited = {} /\ Recovery
      /\ UNCHANGED <<tree, commits, held>>
  BY BusyOp DEF RInv, SnapsOK, RowsOK, Gate, Busy, Recovery, NothingEdited
<1>1. CASE op' = Idle
  BY <1>0, <1>1, EndKeeps DEF RInv
<1>2. CASE op.kind = "rewind" /\ Exists(Repo, op.entry.pre)
  <2>1. op' = [op EXCEPT !.stage = "gated"]  BY <1>2 DEF Gate, Goto
  <2>2. op' \in OpShape  BY <1>0, <2>1 DEF OpShape, Stages
  <2>3. /\ op'.stage = "gated" /\ op'.kind = "rewind" /\ op'.entry = op.entry
        /\ op'.edited = {} /\ op'.threeWay = op.threeWay /\ op'.scope = op.scope
    BY <1>0, <1>2, <2>1 DEF OpShape
  <2>4. SnapsThere'
    BY <1>0, <1>2, <2>3 DEF SnapsThere, Exists, Repo, PreOnly
  <2>5. KindsOK'
    BY <1>0, <1>2, <2>3 DEF Recovery, KindsOK
  <2>6. NothingEdited' /\ TreeIsKnown'
    BY <2>3 DEF NothingEdited, TreeIsKnown, Applying
  <2>7. QED  BY <1>0, <2>2, <2>4, <2>5, <2>6 DEF RInv, OpOK, Recovery
<1>3. CASE op.kind # "rewind" /\ op' # Idle
  <2>1. PICK force \in BOOLEAN, threeWay \in BOOLEAN, scope \in Scopes :
          RestoreGate(force, threeWay, scope)
    BY <1>3 DEF Gate
  <2>2. scope \in SUBSET Paths  BY ScopesAssumption
  <2>3. GatesOpen(force, threeWay, scope)  BY <1>3, <2>1 DEF RestoreGate
  <2>4. PICK added \in SUBSET Paths : Pass(threeWay, scope, {}, added)
    <3>1. CASE threeWay \/ PreOnly
      BY <2>1, <2>3, <3>1 DEF RestoreGate
    <3>2. CASE ~(threeWay \/ PreOnly)
      <4>1. ~WorktreeChangedSince(Repo, op.entry.post, scope)
        BY <2>3, <3>2 DEF GatesOpen
      <4>2. Edited(Files(op.entry.post), scope) = {}  BY <4>1, EditsDiffer
      <4>3. Added(Files(op.entry.post), scope) \in SUBSET Paths
        BY <2>2 DEF Added, Diff
      <4>4. QED  BY <2>1, <2>3, <3>2, <4>2, <4>3 DEF RestoreGate
    <3>3. QED  BY <3>1, <3>2
  <2>5. op' = [op EXCEPT !.stage = "gated", !.kind = "restore", !.threeWay = threeWay,
                         !.scope = scope, !.edited = {}, !.added = added]
    BY <2>4 DEF Pass
  <2>6. op' \in OpShape  BY <1>0, <2>2, <2>5 DEF OpShape, Stages, Kinds
  <2>7. /\ op'.stage = "gated" /\ op'.kind = "restore" /\ op'.entry = op.entry
        /\ op'.edited = {}
    BY <1>0, <2>5 DEF OpShape
  <2>8. SnapsThere'
    BY <1>0, <2>3, <2>7 DEF SnapsThere, GatesOpen, Exists, Repo, PreOnly
  <2>9. NothingEdited' /\ KindsOK' /\ TreeIsKnown'
    BY <2>7 DEF NothingEdited, KindsOK, TreeIsKnown, Applying
  <2>10. QED  BY <1>0, <2>6, <2>8, <2>9 DEF RInv, OpOK, Recovery
<1>4. QED  BY <1>1, <1>2, <1>3 DEF Gate
-----------------------------------------------------------------------------
(* The recovery itself.                                                       *)

LEMMA SaveKeeps ==
  ASSUME RInv, Save
  PROVE  RInv'
<1>. DEFINE diff == Diff(Files(op.entry.pre), Reverted(Taken(Repo)), op.scope)
            sha == SnapSHA(Repo)
            stage == IF op.threeWay THEN "merge" ELSE "checkout"
<1>0. /\ SnapsOK /\ RowsOK /\ OpOK /\ Recovery /\ writes' \in Nat
      /\ UNCHANGED <<tree, entries, clock>> /\ op.stage = "gated" /\ Busy /\ Gated
  BY DEF RInv, Save, Busy, Gated
<1>1. /\ op \in OpShape /\ Repo \in Repos /\ op.entry.pre \in 1..Len(commits)
      /\ ~PreOnly /\ op.kind # "rewind" => op.entry.post \in 1..Len(commits)
      /\ Target = commits[op.entry.pre]
  BY <1>0, RecoveryReads DEF Recovery
<1>2. /\ SnapsOK' /\ Len(commits) <= Len(commits') /\ sha \in 1..Len(commits')
      /\ \A n \in 1..Len(commits) : commits'[n] = commits[n]
      /\ \A t \in Repos : held[t] \subseteq held'[t]
      /\ commits'[sha] = Taken(Repo)
  BY <1>0, <1>1, SnapKeeps DEF Save
<1>3. RowsOK'  BY <1>0 DEF RowsOK
<1>4. CASE diff = {}
  <2>1. op' = Idle  BY <1>4 DEF Save
  <2>2. QED  BY <1>0, <1>2, <1>3, <2>1, EndKeeps DEF RInv
<1>5. CASE diff # {}
  <2>1. op' = [op EXCEPT !.stage = stage, !.saved = sha, !.diff = diff, !.scope = {}]
    BY <1>5 DEF Save
  <2>2. diff \subseteq op.scope  BY DEF Diff
  <2>3. diff \in SUBSET Paths  BY <1>1, <2>2 DEF OpShape
  <2>4. op.kind = "rewind" =>
          ~op.threeWay /\ \A p \in Paths \ diff : Taken(Repo)[p] = Files(op.entry.pre)[p]
    BY <1>0 DEF Recovery, KindsOK, Diff, Reverted
  <2>5. stage \in Stages /\ sha \in Nat
        /\ (stage = "merge" => op.threeWay) /\ stage \in {"merge", "checkout"}
    BY <1>2 DEF Stages, SnapsOK
  <2>. HIDE DEF diff, sha, stage
  <2>6. op' \in OpShape  BY <1>1, <2>1, <2>3, <2>5 DEF OpShape
  <2>7. /\ op'.stage = stage /\ op'.kind = op.kind /\ op'.entry = op.entry
        /\ op'.threeWay = op.threeWay /\ op'.saved = sha /\ op'.diff = diff
        /\ op'.edited = op.edited
    BY <1>1, <2>1 DEF OpShape
  <2>8. Target' = Target /\ Files(op.entry.pre) = Target /\ Repo' = Repo /\ PreOnly' = PreOnly
    BY <1>1, <1>2, <2>7 DEF Target, Files, Repo, PreOnly
  <2>9. SnapsThere' /\ NothingEdited' /\ KindsOK'
    BY <1>0, <1>1, <1>2, <2>4, <2>5, <2>7, <2>8
       DEF Recovery, SnapsThere, NothingEdited, KindsOK, Gated, Busy
  <2>10. \A p : Saved(p)' = Taken(Repo)[p]  BY <1>2, <2>7 DEF Saved, Files
  <2>11. \A p \in Paths : Stood(p)'
    <3>1. tree \in Tree /\ tree' = tree  BY <1>0 DEF SnapsOK
    <3>2. QED  BY <1>1, <2>10, <3>1, TakenIs DEF Stood
  <2>12. TreeIsKnown'
    BY <1>0, <1>2, <2>4, <2>5, <2>7, <2>8, <2>10, <2>11 DEF TreeIsKnown
  <2>13. QED  BY <1>0, <1>2, <1>3, <2>6, <2>9, <2>12 DEF RInv, OpOK, Recovery
<1>6. QED  BY <1>4, <1>5

\* What a step that only moves on in a recovery leaves as it was.
LEMMA MovesOn ==
  ASSUME RInv, op \in OpShape, Applying, UNCHANGED <<commits, held, entries, clock, writes>>,
         tree' \in Tree, NEW stage \in Stages, NEW todo \in SUBSET Paths,
         op' = [op EXCEPT !.stage = stage, !.todo = todo],
         stage \in {"remove", "merged"}
  PROVE  /\ SnapsOK' /\ RowsOK' /\ writes' \in Nat /\ OpOK'
         /\ SnapsThere' /\ NothingEdited' /\ KindsOK'
         /\ op'.stage = stage /\ op'.todo = todo /\ op'.kind = op.kind /\ op'.diff = op.diff
         /\ op'.saved = op.saved /\ op'.raced = op.raced /\ op'.threeWay = op.threeWay
         /\ op'.entry = op.entry /\ PreOnly' = PreOnly
         /\ Target' = Target /\ \A p : Saved(p)' = Saved(p)
<1>1. SnapsOK' /\ RowsOK' /\ writes' \in Nat  BY DEF RInv, SnapsOK, RowsOK
<1>2. op' \in OpShape  BY DEF OpShape
<1>3. /\ op'.stage = stage /\ op'.todo = todo /\ op'.kind = op.kind /\ op'.diff = op.diff
      /\ op'.saved = op.saved /\ op'.raced = op.raced /\ op'.threeWay = op.threeWay
      /\ op'.entry = op.entry /\ op'.edited = op.edited
  BY DEF OpShape
<1>4. Target' = Target /\ PreOnly' = PreOnly /\ Repo' = Repo /\ \A p : Saved(p)' = Saved(p)
  BY <1>3 DEF Target, Files, PreOnly, Repo, Saved
<1>5. SnapsThere' /\ NothingEdited' /\ KindsOK'
  BY <1>3, <1>4 DEF RInv, Recovery, SnapsThere, NothingEdited, KindsOK, Gated, Busy, Applying
<1>6. QED  BY <1>1, <1>2, <1>3, <1>4, <1>5 DEF OpOK

\* A recovery that is applying has a snapshot of the work-tree and its entry's.
LEMMA ApplyingReads ==
  ASSUME RInv, Applying
  PROVE  /\ op \in OpShape /\ Target \in Tree /\ TreeIsKnown
         /\ tree \in Tree /\ Repo \in Repos
  BY RecoveryReads DEF RInv, Recovery, Applying, Gated, SnapsOK

LEMMA CheckoutKeeps ==
  ASSUME RInv, Checkout
  PROVE  RInv'
<1>0. Applying /\ op.stage = "checkout"  BY DEF Checkout, Applying, Busy
<1>1. op \in OpShape /\ Target \in Tree /\ tree \in Tree /\ TreeIsKnown
  BY <1>0, ApplyingReads
<1>. DEFINE todo == op.diff \ ToCheckout
<1>2. /\ tree' = [p \in Paths |-> IF p \in ToCheckout THEN Target[p] ELSE tree[p]]
      /\ op' = [op EXCEPT !.stage = "remove", !.todo = todo]
      /\ UNCHANGED <<commits, held, entries, clock, writes>>
  BY DEF Checkout, Put
<1>3. /\ todo \in SUBSET Paths /\ todo \subseteq op.diff /\ op.diff \ todo = ToCheckout
      /\ \A p \in todo : Target[p] = Absent
  BY <1>1 DEF OpShape, ToCheckout
<1>4. tree' \in Tree  BY <1>1, <1>2 DEF Tree
<1>. HIDE DEF todo
<1>5. /\ SnapsOK' /\ RowsOK' /\ writes' \in Nat /\ OpOK'
      /\ SnapsThere' /\ NothingEdited' /\ KindsOK'
      /\ op'.stage = "remove" /\ op'.todo = todo /\ op'.kind = op.kind /\ op'.diff = op.diff
      /\ op'.saved = op.saved /\ op'.raced = op.raced
      /\ Target' = Target /\ \A p : Saved(p)' = Saved(p)
  BY <1>0, <1>1, <1>2, <1>3, <1>4, MovesOn DEF Stages
<1>6. \A p \in Paths \ op.raced :
        IF p \in op.diff \ todo THEN tree'[p] = Target[p] ELSE Stood(p)'
  BY <1>0, <1>1, <1>2, <1>3, <1>5 DEF TreeIsKnown, Stood
<1>7. TreeIsKnown'
  BY <1>0, <1>1, <1>2, <1>3, <1>5, <1>6 DEF TreeIsKnown
<1>8. QED  BY <1>5, <1>7 DEF RInv, Recovery

LEMMA RemoveKeeps ==
  ASSUME RInv, NEW q \in Paths, Remove(q)
  PROVE  RInv'
<1>0. Applying /\ op.stage = "remove" /\ q \in op.todo  BY DEF Remove, Applying, Busy
<1>1. op \in OpShape /\ tree \in Tree /\ TreeIsKnown  BY <1>0, ApplyingReads
<1>. DEFINE todo == op.todo \ {q}
            gone == [x \in {q} |-> Absent]
<1>2. /\ tree' = [p \in Paths |-> IF p \in {q} THEN gone[p] ELSE tree[p]]
      /\ op' = [op EXCEPT !.todo = todo]
      /\ UNCHANGED <<commits, held, entries, clock, writes>>
  BY DEF Remove, Put
<1>3. tree' = [p \in Paths |-> IF p = q THEN Absent ELSE tree[p]]  BY <1>2
<1>4. todo \in SUBSET Paths /\ todo \subseteq op.todo  BY <1>1 DEF OpShape
<1>5. tree' \in Tree  BY <1>1, <1>3 DEF Tree, Contents
<1>6. op' = [op EXCEPT !.stage = "remove", !.todo = todo]
  BY <1>0, <1>1, <1>2 DEF OpShape
<1>. HIDE DEF gone
<1>7. /\ SnapsOK' /\ RowsOK' /\ writes' \in Nat /\ OpOK'
      /\ SnapsThere' /\ NothingEdited' /\ KindsOK'
      /\ op'.stage = "remove" /\ op'.todo = todo /\ op'.kind = op.kind /\ op'.diff = op.diff
      /\ op'.saved = op.saved /\ op'.raced = op.raced
      /\ Target' = Target /\ \A p : Saved(p)' = Saved(p)
  <2>. HIDE DEF todo
  <2>1. QED  BY <1>0, <1>1, <1>2, <1>4, <1>5, <1>6, MovesOn DEF Stages
<1>8. /\ op.todo \subseteq op.diff /\ \A p \in op.todo : Target[p] = Absent
      /\ \A p \in Paths \ op.raced :
           IF p \in op.diff \ op.todo THEN tree[p] = Target[p] ELSE Stood(p)
  BY <1>0, <1>1 DEF TreeIsKnown
<1>9. \A p \in Paths \ op.raced :
        IF p \in op.diff \ todo THEN tree'[p] = Target[p] ELSE Stood(p)'
  BY <1>0, <1>3, <1>7, <1>8 DEF Stood
<1>10. TreeIsKnown'
  <2>. HIDE DEF todo
  <2>1. QED  BY <1>0, <1>1, <1>2, <1>4, <1>7, <1>8, <1>9 DEF TreeIsKnown
<1>11. QED  BY <1>7, <1>10 DEF RInv, Recovery

LEMMA MergeKeeps ==
  ASSUME RInv, Merge
  PROVE  RInv'
<1>0. Applying /\ op.stage = "merge"  BY DEF Merge, Applying, Busy
<1>1. /\ op \in OpShape /\ Target \in Tree /\ tree \in Tree /\ TreeIsKnown
      /\ UNCHANGED <<commits, held, entries, clock, writes>>
  BY <1>0, ApplyingReads DEF Merge
<1>2. CASE op' = Idle /\ tree' = tree
  <2>1. SnapsOK' /\ RowsOK' /\ writes' \in Nat  BY <1>1, <1>2 DEF RInv, SnapsOK, RowsOK
  <2>2. QED  BY <1>2, <2>1, EndKeeps DEF RInv
<1>3. ASSUME op' = [op EXCEPT !.stage = "merged"], tree' \in Tree PROVE RInv'
  <2>1. op' = [op EXCEPT !.stage = "merged", !.todo = op.todo] /\ op.todo \in SUBSET Paths
    BY <1>1, <1>3 DEF OpShape
  <2>2. /\ SnapsOK' /\ RowsOK' /\ writes' \in Nat /\ OpOK'
        /\ SnapsThere' /\ NothingEdited' /\ KindsOK'
        /\ op'.stage = "merged" /\ op'.kind = op.kind /\ op'.diff = op.diff
        /\ op'.saved = op.saved /\ op'.threeWay = op.threeWay
        /\ Target' = Target /\ \A p : Saved(p)' = Saved(p)
    BY <1>0, <1>1, <1>3, <2>1, MovesOn DEF Stages
  <2>3. TreeIsKnown'  BY <1>0, <1>1, <2>2 DEF TreeIsKnown
  <2>4. QED  BY <2>2, <2>3 DEF RInv, Recovery
<1>4. CASE Applies
  <2>1. op' = [op EXCEPT !.stage = "merged"]
        /\ tree' = [p \in Paths |-> IF p \in op.diff THEN Result(p) ELSE tree[p]]
    BY <1>4 DEF Merge, Goto
  <2>2. \A p \in Paths : Result(p) \in {Target[p], Mixed}  BY DEF Result
  <2>3. tree' \in Tree  BY <1>1, <2>1, <2>2 DEF Tree, Contents
  <2>4. QED  BY <1>3, <2>1, <2>3
<1>5. CASE ~Applies
  <2>1. (op' = [op EXCEPT !.stage = "merged"] \/ op' = Idle) /\ tree' = tree
    BY <1>5 DEF Merge
  <2>2. QED  BY <1>1, <1>2, <1>3, <2>1
<1>6. QED  BY <1>4, <1>5

\* A recovery's row is an entry.
LEMMA RowShape ==
  ASSUME RInv, Applying, NEW post \in Nat
  PROVE  Row(post) \in Entry /\ Row(post).ts = clock
<1>1. op \in OpShape /\ Repo \in Repos  BY ApplyingReads
<1>2. op.kind \in {"restore", "rewind"} /\ op.saved \in Nat /\ op.of \in Nat
  BY <1>1 DEF OpShape, Kinds, RInv, Recovery, KindsOK, Gated, Applying
<1>3. clock \in Nat  BY DEF RInv, RowsOK
<1>4. [kind |-> op.kind, sha |-> op.saved, of |-> op.of] \in Keys
  BY <1>2 DEF Keys
<1>5. QED  BY <1>1, <1>2, <1>3, <1>4 DEF Row, Entry, Statuses

LEMMA RecordKeeps ==
  ASSUME RInv, Record
  PROVE  RInv'
<1>0. Applying /\ op' = Idle /\ UNCHANGED <<tree, writes>>
  BY DEF Record, Applied, Applying, Busy
<1>1. Repo \in Repos  BY <1>0, ApplyingReads
<1>2. SnapsOK' /\ SnapSHA(Repo) \in Nat
  <2>1. SnapsOK' /\ SnapSHA(Repo) \in 1..Len(commits')
    BY <1>0, <1>1, SnapKeeps DEF Record, RInv
  <2>2. QED  BY <2>1 DEF SnapsOK
<1>3. RowsOK'  BY <1>0, <1>2, RowShape, JournalKeeps DEF Record, RInv
<1>4. QED  BY <1>0, <1>2, <1>3, EndKeeps DEF RInv

LEMMA FailuresKeep ==
  ASSUME RInv, RecordFails \/ CheckoutFails \/ Stops
  PROVE  RInv'
<1>1. CASE RecordFails
  <2>1. Applying /\ op' = Idle /\ UNCHANGED <<tree, commits, held, writes>>
    BY <1>1 DEF RecordFails, Applied, Applying, Busy
  <2>2. SnapsOK'  BY <2>1 DEF RInv, SnapsOK
  <2>3. RowsOK'  BY <1>1, <2>1, RowShape, JournalKeeps DEF RecordFails, RInv, NoSHA
  <2>4. QED  BY <2>1, <2>2, <2>3, EndKeeps DEF RInv
<1>2. CASE CheckoutFails
  <2>1. Applying /\ op' = Idle /\ UNCHANGED <<commits, held, entries, clock, writes>>
    BY <1>2 DEF CheckoutFails, Applying, Busy
  <2>2. Target \in Tree /\ tree \in Tree  BY <2>1, ApplyingReads
  <2>3. PICK S \in SUBSET ToCheckout : Put(S, Target)  BY <1>2 DEF CheckoutFails
  <2>4. tree' \in Tree  BY <2>2, <2>3 DEF Put, Tree
  <2>5. SnapsOK' /\ RowsOK'  BY <2>1, <2>4 DEF RInv, SnapsOK, RowsOK
  <2>6. QED  BY <2>1, <2>5, EndKeeps DEF RInv
<1>3. CASE Stops
  <2>1. op' = Idle /\ UNCHANGED <<tree, commits, held, entries, clock, writes>>
    BY <1>3 DEF Stops
  <2>2. SnapsOK' /\ RowsOK'  BY <2>1 DEF RInv, SnapsOK, RowsOK
  <2>3. QED  BY <2>1, <2>2, EndKeeps DEF RInv
<1>4. QED  BY <1>1, <1>2, <1>3
-----------------------------------------------------------------------------
(* The theorems.                                                              *)

LEMMA InitInv == Init => RInv
<1>. SUFFICES ASSUME Init PROVE RInv
  OBVIOUS
<1>1. tree \in Tree  BY DEF Init, Tree, Contents
<1>2. commits \in Seq(Tree) /\ Len(commits) = 0  BY DEF Init
<1>3. SnapsOK  BY <1>1, <1>2 DEF Init, SnapsOK
<1>4. RowsOK  BY DEF Init, RowsOK
<1>5. OpOK /\ Recovery
  BY DEF Init, OpOK, Recovery, SnapsThere, NothingEdited, KindsOK, TreeIsKnown, Gated,
         Applying, Busy, Idle
<1>6. QED  BY <1>3, <1>4, <1>5 DEF Init, RInv

LEMMA StepInv == RInv /\ [Next]_vars => RInv'
<1>. SUFFICES ASSUME RInv, [Next]_vars PROVE RInv'
  OBVIOUS
<1>1. CASE Others
  BY <1>1, CmdPreKeeps, CmdPostKeeps, CheckpointKeeps, WriteKeeps, ReclaimKeeps DEF Others
<1>2. CASE Asks
  BY <1>2, AskKeeps, UndoKeeps, RewindKeeps DEF Asks, Restore, Kinds
<1>3. CASE Recovers
  BY <1>3, GateKeeps, SaveKeeps, CheckoutKeeps, RemoveKeeps, MergeKeeps, RecordKeeps,
     FailuresKeep DEF Recovers
<1>4. CASE UNCHANGED vars
  BY <1>4 DEF RInv, SnapsOK, RowsOK, OpOK, Recovery, SnapsThere, NothingEdited, KindsOK,
              TreeIsKnown, Stood, Gated, Applying, Busy, Applied, Saved, Target, Files, Repo,
              PreOnly, vars
<1>5. QED  BY <1>1, <1>2, <1>3, <1>4 DEF Next

\* What the recoveries rely on, in every state.
THEOREM RInvHolds == Spec => []RInv
  BY InitInv, StepInv, PTL DEF Spec

\* An index has a content, or a conflict, for every path; what RInv leaves out of the state.
IndexOK == index \in [Repos -> [Paths -> Contents \cup {Unmerged}]]

RestOK == IndexOK /\ faults \in Nat

LEMMA SnapIndexes ==
  ASSUME SnapsOK, IndexOK, NEW s \in Repos, Snap(s)
  PROVE  IndexOK'
<1>1. Taken(s) \in [Paths -> Contents]  BY TakenIs DEF SnapsOK, Tree
<1>2. index' = [index EXCEPT ![s] = Taken(s)]  BY DEF Snap
<1>3. QED  BY ONLY <1>1, <1>2, IndexOK, s \in Repos DEF IndexOK

LEMMA StepTypes ==
  ASSUME RInv, IndexOK, faults \in Nat, [Next]_vars
  PROVE  IndexOK' /\ faults' \in Nat
<1>0. /\ SnapsOK /\ \A i \in DOMAIN entries : entries[i].session \in Repos
      /\ Manual \in Repos /\ Sessions \subseteq Repos /\ Absent \in Contents
      /\ Mixed \in Contents /\ tree \in Tree
  <2>1. \A i \in DOMAIN entries : entries[i].session \in Repos
    <3>1. SUFFICES ASSUME NEW i \in DOMAIN entries PROVE entries[i].session \in Repos
      OBVIOUS
    <3>2. entries[i] \in Entry  BY ElementOfSeq DEF RInv, RowsOK
    <3>3. QED  BY <3>2 DEF Entry
  <2>2. QED  BY <2>1 DEF RInv, SnapsOK, Repos, Contents
<1>1. CASE Others
  <2>1. ASSUME NEW s \in Sessions, CmdPre(s) PROVE IndexOK' /\ faults' = faults
    <3>1. s \in Repos /\ Snap(s) /\ faults' = faults  BY <1>0, <2>1 DEF CmdPre
    <3>2. QED  BY <1>0, <3>1, SnapIndexes
  <2>2. ASSUME NEW i \in DOMAIN entries, CmdPost(i) PROVE IndexOK' /\ faults' = faults
    BY <1>0, <2>2, SnapIndexes DEF CmdPost
  <2>3. ASSUME NEW S, NEW c, Write(S, c) PROVE IndexOK' /\ faults' = faults
    BY <2>3 DEF Write, IndexOK
  <2>4. ASSUME NEW s \in Repos, Reclaim(s) PROVE IndexOK' /\ faults' = faults + 1
    BY <1>0, <2>4 DEF Reclaim, Fault, IndexOK
  <2>5. ASSUME Checkpoint PROVE IndexOK' /\ faults' = faults
    BY <1>0, <2>5, SnapIndexes DEF Checkpoint
  <2>6. QED  BY <1>1, <2>1, <2>2, <2>3, <2>4, <2>5 DEF Others
<1>2. CASE Asks
  BY <1>2 DEF Asks, Restore, Undo, UndoOf, Rewind, Ask, IndexOK
<1>3. CASE Recovers
  <2>1. ASSUME Gate PROVE IndexOK' /\ faults' = faults
    BY <2>1 DEF Gate, IndexOK
  <2>2. ASSUME Save PROVE IndexOK' /\ faults' = faults
    <3>1. Gated  BY <2>2 DEF Save, Gated, Busy
    <3>2. Repo \in Repos  BY <3>1, RecoveryReads DEF RInv, Recovery
    <3>3. QED  BY <1>0, <2>2, <3>2, SnapIndexes DEF Save
  <2>3. ASSUME Checkout PROVE IndexOK' /\ faults' = faults
    <3>1. Target \in Tree /\ Repo \in Repos
      BY <2>3, ApplyingReads DEF Checkout, Applying, Busy
    <3>2. QED  BY <2>3, <3>1 DEF Checkout, IndexOK, Tree
  <2>4. ASSUME Merge PROVE IndexOK' /\ faults' = faults
    <3>1. Target \in Tree /\ Repo \in Repos
      BY <2>4, ApplyingReads DEF Merge, Applying, Busy
    <3>2. \A p \in Paths : Result(p) \in Contents
      BY <1>0, <3>1 DEF Result, Tree
    <3>3. QED  BY <2>4, <3>1, <3>2 DEF Merge, IndexOK
  <2>5. ASSUME Record PROVE IndexOK' /\ faults' = faults
    <3>1. Repo \in Repos  BY <2>5, ApplyingReads DEF Record, Applied, Applying, Busy
    <3>2. QED  BY <1>0, <2>5, <3>1, SnapIndexes DEF Record
  <2>6. ASSUME NEW p \in Paths, Remove(p) PROVE IndexOK' /\ faults' = faults
    BY <2>6 DEF Remove, IndexOK
  <2>7. ASSUME RecordFails \/ CheckoutFails \/ Stops PROVE IndexOK' /\ faults' = faults + 1
    BY <2>7 DEF RecordFails, CheckoutFails, Stops, Fault, IndexOK
  <2>8. QED  BY <1>3, <2>1, <2>2, <2>3, <2>4, <2>5, <2>6, <2>7 DEF Recovers
<1>4. CASE UNCHANGED vars  BY <1>4 DEF vars, IndexOK
<1>5. QED  BY <1>1, <1>2, <1>3, <1>4 DEF Next

\* TypeOK for any constants: shas, rows and indexes are of their kinds whatever the order of
\* hooks, recoveries, edits and failures, no row's duration is negative, and every
\* snapshot a repository holds has been taken.
THEOREM TypeCorrect == Spec => []TypeOK
<1>1. Init => RestOK  BY DEF Init, RestOK, IndexOK, Contents
<1>2. RInv /\ RestOK /\ [Next]_vars => RestOK'
  BY StepTypes DEF RestOK
<1>3. RInv /\ RestOK => TypeOK
  BY DEF RestOK, RInv, SnapsOK, RowsOK, IndexOK, TypeOK
<1>4. QED  BY <1>1, <1>2, <1>3, RInvHolds, PTL DEF Spec

\* Which steps of a recovery change the work-tree, and of which paths.
LEMMA OverwritesApply ==
  ASSUME RInv, [Next]_vars, NEW p \in Paths, Overwrites(p)
  PROVE  /\ Applying
         /\ \/ op.stage \in {"checkout", "merge"}
            \/ op.stage = "remove" /\ p \in op.todo
<1>1. writes \in Nat /\ tree \in Tree /\ writes' = writes /\ tree'[p] # tree[p]
  BY DEF RInv, SnapsOK, Overwrites
<1>2. ~ Others
  <2>1. \A s \in Sessions : ~CmdPre(s)  BY <1>1 DEF CmdPre
  <2>2. \A i \in DOMAIN entries : ~CmdPost(i)  BY <1>1 DEF CmdPost
  <2>3. \A S, content : ~Write(S, content)  BY <1>1 DEF Write
  <2>4. \A s \in Repos : ~Reclaim(s)  BY <1>1 DEF Reclaim
  <2>5. ~Checkpoint  BY <1>1 DEF Checkpoint
  <2>6. QED  BY <2>1, <2>2, <2>3, <2>4, <2>5 DEF Others
<1>3. ~ Asks
  BY <1>1 DEF Asks, Restore, Undo, UndoOf, Rewind, Ask
<1>4. ~ UNCHANGED vars  BY <1>1 DEF vars
<1>5. Recovers  BY <1>2, <1>3, <1>4 DEF Next
<1>6. Checkout \/ Merge \/ CheckoutFails \/ \E q \in Paths : Remove(q)
  BY <1>1, <1>5 DEF Recovers, Gate, Save, Record, RecordFails, Stops
<1>7. ASSUME NEW q \in Paths, Remove(q) PROVE op.stage = "remove" /\ p \in op.todo
  <2>1. tree' = [x \in Paths |-> IF x \in {q} THEN [y \in {q} |-> Absent][x] ELSE tree[x]]
    BY <1>7 DEF Remove, Put
  <2>2. p = q  BY <1>1, <2>1
  <2>3. QED  BY <1>7, <2>2 DEF Remove
<1>8. QED  BY <1>6, <1>7 DEF Checkout, Merge, CheckoutFails, Applying, Busy

\* NothingLost for any paths, contents, sessions and bounds: what a recovery overwrites is
\* in its pre-restore snapshot, but for what was written after that and for files that no
\* snapshot covers.
THEOREM NothingIsLost == Spec => NothingLost
<1>1. ASSUME RInv, [Next]_vars, NEW p \in Paths, Overwrites(p)
      PROVE  tree[p] = Files(op.saved)[p] \/ LeftOut(p) \/ p \in op.raced
  <2>1. Applying /\ \/ op.stage \in {"checkout", "merge"}
                    \/ op.stage = "remove" /\ p \in op.todo
    BY <1>1, OverwritesApply
  <2>2. TreeIsKnown  BY <1>1 DEF RInv, Recovery
  <2>3. QED  BY <2>1, <2>2 DEF TreeIsKnown, Stood, Saved, LeftOut
<1>2. RInv /\ [Next]_vars =>
        [\A p \in Paths : Overwrites(p) =>
           tree[p] = Files(op.saved)[p] \/ LeftOut(p) \/ p \in op.raced]_vars
  BY <1>1
<1>3. QED  BY <1>2, RInvHolds, PTL DEF Spec, NothingLost

\* EditsSurvive for any paths, contents, sessions and bounds: an edit the gates compare
\* stops the recovery, or came after them.
THEOREM EditsAreKept == Spec => EditsSurvive
<1>1. ASSUME RInv, [Next]_vars, NEW p \in Paths, Overwrites(p), p \in op.edited
      PROVE  p \in op.late
  BY <1>1, OverwritesApply DEF RInv, Recovery, NothingEdited, Applying
<1>2. RInv /\ [Next]_vars =>
        [\A p \in Paths : Overwrites(p) /\ p \in op.edited => p \in op.late]_vars
  BY <1>1
<1>3. QED  BY <1>2, RInvHolds, PTL DEF Spec, EditsSurvive

\* RestoreExact for any paths, contents, sessions and bounds: a recovery that has done
\* its parts has given back what the pre snapshot holds, and touched nothing else; a
\* rewind leaves alone only what its own snapshot did not take.
THEOREM RestoresAreExact == Spec => []RestoreExact
<1>1. RInv => RestoreExact
  <2>. SUFFICES ASSUME RInv, Applied, ~op.threeWay, NEW p \in Paths \ op.raced
       PROVE  IF p \in op.diff THEN tree[p] = Target[p]
              ELSE LeftOut(p) \/ tree[p] = IF op.kind = "rewind" THEN Target[p]
                                           ELSE Files(op.saved)[p]
    BY DEF RestoreExact
  <2>1. Applying /\ TreeIsKnown
    BY DEF Applied, Applying, Busy, RInv, Recovery
  <2>2. op.stage = "remove" /\ op.todo = {}
    BY <2>1 DEF Applied, TreeIsKnown
  <2>3. QED  BY <2>1, <2>2 DEF TreeIsKnown, Stood, Saved, LeftOut
<1>2. QED  BY <1>1, RInvHolds, PTL

\* What a three-way merge starts from and leaves: a file the pre-restore snapshot did not
\* take is not in the index either, and each edit since the post stays or is merged.
MergeInv ==
  Applying =>
    /\ op.stage = "merge" =>
         \A p \in Paths \ op.raced : tree[p] # Saved(p) => index[Repo][p] = Absent
    /\ op.stage = "merged" /\ ~PreOnly =>
         \A p \in Paths \ op.raced :
           Saved(p) # Files(op.entry.post)[p] => tree[p] = Mixed \/ Stood(p)

\* Snapshots beside a recovery take no file that its own did not.
LEMMA SnapBesides ==
  ASSUME RInv, IndexOK, MergeInv, NEW s \in Repos, Snap(s), UNCHANGED <<op, tree>>
  PROVE  MergeInv'
<1>. SUFFICES ASSUME Applying PROVE MergeInv'
  BY DEF MergeInv, Applying, Busy
<1>1. /\ op \in OpShape /\ tree \in Tree /\ Repo \in Repos /\ TreeIsKnown
      /\ Repo' = Repo /\ PreOnly' = PreOnly /\ SnapsOK /\ OpOK /\ SnapsThere
  BY ApplyingReads DEF RInv, Recovery, Repo, PreOnly
<1>2. \A n \in 1..Len(commits) : commits'[n] = commits[n]  BY <1>1, SnapKeeps
<1>3. \A p : Saved(p)' = Saved(p)
  BY <1>1, <1>2 DEF TreeIsKnown, Saved, Files
<1>4. op.stage = "merged" /\ ~PreOnly => Files(op.entry.post)' = Files(op.entry.post)
  <2>1. op.stage = "merged" => op.kind # "rewind"
    BY <1>1 DEF RInv, Recovery, KindsOK, TreeIsKnown, Applying
  <2>2. op.stage = "merged" /\ ~PreOnly => op.entry.post \in 1..Len(commits)
    BY <1>1, <2>1, RecoveryReads DEF Applying, Gated
  <2>3. QED  BY <1>2, <2>2 DEF Files
<1>5. ASSUME op.stage = "merge", NEW p \in Paths \ op.raced, tree[p] # Saved(p)
      PROVE  index'[Repo][p] = Absent
  <2>1. tree[p] \in Uncovered /\ index[Repo][p] = Absent
    BY <1>1, <1>5 DEF MergeInv, TreeIsKnown, Stood
  <2>2. index'[Repo] = IF s = Repo THEN Taken(s) ELSE index[Repo]
    BY <1>1 DEF Snap, IndexOK
  <2>3. QED  BY <1>1, <2>1, <2>2, TakenIs
<1>6. QED  BY <1>1, <1>3, <1>4, <1>5 DEF MergeInv, Stood, Applying, Busy

\* A merge keeps what was edited: it does not apply to a file the index does not have.
LEMMA MergeIs ==
  ASSUME RInv, MergeInv, Merge, op' # Idle, NEW p \in Paths \ op.raced, ~PreOnly,
         Saved(p) # Files(op.entry.post)[p]
  PROVE  tree'[p] = Mixed \/ tree'[p] = tree[p]
<1>1. Applying /\ op.stage = "merge"  BY DEF Merge, Applying, Busy
<1>2. /\ op \in OpShape /\ TreeIsKnown /\ Stood(p) /\ op.kind # "rewind"
      /\ tree[p] # Saved(p) => index[Repo][p] = Absent
  BY <1>1, ApplyingReads DEF TreeIsKnown, MergeInv, RInv, Recovery, KindsOK, Applying
<1>3. CASE Applies /\ p \in op.diff
  <2>1. tree'[p] = Result(p) /\ (Clean(p) \/ Mergeable(p))
    BY <1>3 DEF Merge, Applies
  <2>2. Base = Files(op.entry.post)  BY <1>2 DEF Base, Reverted
  <2>3. Agrees(p) => tree[p] = Saved(p)
    BY <1>2, DistinctAssumption DEF Agrees, Stood
  <2>4. Clean(p) => tree[p] = Target[p]  BY <2>2, <2>3 DEF Clean
  <2>5. QED  BY <2>1, <2>4 DEF Result
<1>4. CASE Applies /\ p \notin op.diff  BY <1>4 DEF Merge
<1>5. CASE ~Applies  BY <1>5 DEF Merge
<1>6. QED  BY <1>3, <1>4, <1>5

LEMMA StepMerges ==
  ASSUME RInv, RInv', IndexOK, MergeInv, [Next]_vars
  PROVE  MergeInv'
<1>1. CASE Others
  <2>1. \A i \in DOMAIN entries : entries[i].session \in Repos
    <3>1. SUFFICES ASSUME NEW i \in DOMAIN entries PROVE entries[i].session \in Repos
      OBVIOUS
    <3>2. entries[i] \in Entry  BY ElementOfSeq DEF RInv, RowsOK
    <3>3. QED  BY <3>2 DEF Entry
  <2>2. ASSUME NEW s \in Sessions, CmdPre(s) PROVE MergeInv'
    BY <2>2, SnapBesides DEF CmdPre, Repos
  <2>3. ASSUME NEW i \in DOMAIN entries, CmdPost(i) PROVE MergeInv'
    BY <2>1, <2>3, SnapBesides DEF CmdPost
  <2>4. ASSUME Checkpoint PROVE MergeInv'
    BY <2>4, SnapBesides DEF Checkpoint, Repos
  <2>5. ASSUME NEW s \in Repos, Reclaim(s) PROVE MergeInv'
    BY <2>5 DEF Reclaim, MergeInv, Applying, Busy
  <2>6. ASSUME NEW S \in SUBSET Paths, NEW c \in Values \cup {Absent}, Write(S, c)
        PROVE  MergeInv'
    <3>1. CASE ~Busy  BY <2>6, <3>1 DEF Write, MergeInv, Applying, Busy
    <3>2. CASE Busy
      <4>. SUFFICES ASSUME Applying' PROVE MergeInv'
        BY DEF MergeInv
      <4>1. op \in OpShape /\ op' = Noted(S)  BY <2>6, <3>2, BusyOp DEF Write, RInv
      <4>. DEFINE late == op.late \cup (S \cap (op.edited \cup op.added))
                  raced == IF op.saved = NoSHA THEN {} ELSE op.raced \cup S
      <4>2. op' = [op EXCEPT !.late = late, !.raced = raced]  BY <4>1 DEF Noted
      <4>. HIDE DEF late
      <4>3. /\ op'.stage = op.stage /\ op'.entry = op.entry /\ op'.saved = op.saved
            /\ op'.raced = raced
        BY <4>1, <4>2 DEF OpShape
      <4>4. Applying /\ op.saved \in 1..Len(commits)
        BY <3>2, <4>3 DEF Applying, Busy, RInv, Recovery, TreeIsKnown
      <4>5. op'.raced = op.raced \cup S  BY <4>3, <4>4 DEF NoSHA, RInv, SnapsOK
      <4>6. UNCHANGED <<commits, index>>
            /\ \A p \in Paths \ S : tree'[p] = tree[p]
        BY <2>6 DEF Write, Put
      <4>7. Repo' = Repo /\ PreOnly' = PreOnly /\ (\A p : Saved(p)' = Saved(p))
            /\ Files(op.entry.post)' = Files(op.entry.post)
        BY <4>3, <4>6 DEF Repo, PreOnly, Saved, Files
      <4>8. QED  BY <4>3, <4>4, <4>5, <4>6, <4>7 DEF MergeInv, Stood
    <3>3. QED  BY <3>1, <3>2
  <2>7. QED  BY <1>1, <2>2, <2>3, <2>4, <2>5, <2>6 DEF Others
<1>2. CASE Asks
  <2>1. ASSUME NEW kind, NEW i, NEW edited, NEW added, Ask(kind, i, edited, added)
        PROVE  op'.stage = "asked"
    BY <2>1 DEF Ask
  <2>2. ASSUME NEW i, NEW force, Rewind(i, force) PROVE op'.stage = "asked"
    BY <2>1, <2>2, Zenon DEF Rewind
  <2>3. op'.stage = "asked"
    BY <1>2, <2>1, <2>2, Zenon DEF Asks, Restore, Undo, UndoOf
  <2>4. QED  BY <2>3 DEF MergeInv, Applying
<1>3. CASE Recovers
  <2>1. CASE op' = Idle  BY <2>1 DEF MergeInv, Applying, Busy, Idle
  <2>2. ASSUME Gate PROVE MergeInv'
    <3>1. op' # Idle => op'.stage = "gated"
      <4>1. op \in OpShape  BY <2>2, BusyOp DEF Gate, Busy, RInv
      <4>2. QED  BY <2>2, <4>1 DEF Gate, Goto, RestoreGate, Pass, OpShape
    <3>2. QED  BY <2>1, <3>1 DEF MergeInv, Applying
  <2>3. ASSUME Save, op' # Idle PROVE MergeInv'
    <3>1. Gated  BY <2>3 DEF Save, Gated, Busy
    <3>2. /\ op \in OpShape /\ Repo \in Repos /\ SnapsOK /\ Snap(Repo) /\ tree' = tree
          /\ tree \in Tree
      BY <2>3, <3>1, RecoveryReads DEF RInv, Recovery, SnapsOK, Save
    <3>3. commits'[SnapSHA(Repo)] = Taken(Repo)  BY <3>2, SnapKeeps
    <3>4. /\ op'.saved = SnapSHA(Repo) /\ op'.entry = op.entry
          /\ op'.stage \in {"merge", "checkout"}
      BY <2>3, <3>2 DEF Save, OpShape
    <3>5. Repo' = Repo /\ \A p : Saved(p)' = Taken(Repo)[p]
      BY <3>3, <3>4 DEF Repo, Saved, Files
    <3>6. index'[Repo] = Taken(Repo)  BY <3>2 DEF Snap, IndexOK
    <3>7. \A p \in Paths : tree[p] # Taken(Repo)[p] => Taken(Repo)[p] = Absent
      BY <3>2, TakenIs
    <3>8. QED  BY <3>2, <3>4, <3>5, <3>6, <3>7 DEF MergeInv
  <2>4. ASSUME Checkout PROVE MergeInv'
    <3>1. op \in OpShape  BY <2>4, BusyOp DEF Checkout, Busy, RInv
    <3>2. op'.stage = "remove"  BY <2>4, <3>1 DEF Checkout, OpShape
    <3>3. QED  BY <3>2 DEF MergeInv
  <2>5. ASSUME NEW q \in Paths, Remove(q) PROVE MergeInv'
    <3>1. op \in OpShape  BY <2>5, BusyOp DEF Remove, Busy, RInv
    <3>2. op'.stage = "remove"  BY <2>5, <3>1 DEF Remove, OpShape
    <3>3. QED  BY <3>2 DEF MergeInv
  <2>6. ASSUME Merge, op' # Idle PROVE MergeInv'
    <3>1. Applying /\ op.stage = "merge" /\ op \in OpShape /\ commits' = commits
      BY <2>6, ApplyingReads DEF Merge, Applying, Busy
    <3>2. op' = [op EXCEPT !.stage = "merged"]  BY <2>6 DEF Merge, Goto
    <3>3. /\ op'.stage = "merged" /\ op'.entry = op.entry /\ op'.raced = op.raced
          /\ op'.saved = op.saved
      BY <3>1, <3>2 DEF OpShape
    <3>4. /\ PreOnly' = PreOnly /\ \A p : Saved(p)' = Saved(p)
          /\ Files(op.entry.post)' = Files(op.entry.post)
      BY <3>1, <3>3 DEF PreOnly, Saved, Files
    <3>5. ASSUME ~PreOnly, NEW p \in Paths \ op.raced, Saved(p) # Files(op.entry.post)[p]
          PROVE  tree'[p] = Mixed \/ Stood(p)'
      <4>1. tree'[p] = Mixed \/ tree'[p] = tree[p]  BY <2>6, <3>5, MergeIs
      <4>2. Stood(p)  BY <3>1 DEF RInv, Recovery, TreeIsKnown
      <4>3. QED  BY <3>4, <4>1, <4>2 DEF Stood
    <3>6. QED  BY <3>3, <3>4, <3>5 DEF MergeInv
  <2>7. ASSUME Record \/ RecordFails \/ CheckoutFails \/ Stops PROVE op' = Idle
    BY <2>7 DEF Record, RecordFails, CheckoutFails, Stops
  <2>8. QED  BY <1>3, <2>1, <2>2, <2>3, <2>4, <2>5, <2>6, <2>7 DEF Recovers
<1>4. CASE UNCHANGED vars
  BY <1>4 DEF vars, MergeInv, Stood, Applying, Busy, Saved, Files, Repo, PreOnly
<1>5. QED  BY <1>1, <1>2, <1>3, <1>4 DEF Next

\* MergeKeepsEdits for any paths, contents, sessions and bounds: a three-way restore
\* keeps or merges what was edited since the post.
THEOREM MergesKeepEdits == Spec => []MergeKeepsEdits
<1>1. Init => RestOK /\ MergeInv
  BY DEF Init, RestOK, IndexOK, Contents, MergeInv, Applying, Busy, Idle
<1>2. RInv /\ RInv' /\ RestOK /\ MergeInv /\ [Next]_vars => RestOK' /\ MergeInv'
  BY StepTypes, StepMerges DEF RestOK
<1>3. MergeInv => MergeKeepsEdits
  BY DEF MergeInv, MergeKeepsEdits, Applying, Busy, Idle, Stood, Saved, LeftOut
<1>4. QED  BY <1>1, <1>2, <1>3, RInvHolds, PTL DEF Spec
=============================================================================
