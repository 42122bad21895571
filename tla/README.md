# bashback in TLA+

bashback snapshots a project's work-tree before and after every shell command an
agent runs, into a shadow git repository, and keeps a journal from which the
command's changes can be undone. This directory holds TLA+ models of its core,
the TLC configurations that check them on small instances, and TLAPS proofs of
what matters most for any number of commands and processes. `PROJECT.json` lists
the components, runs, mutants, hazards, findings and theorems, and maps every
definition to the lines it stands for. Paths below are relative to `src/`.

## 1. The system

### Components

| component | state it keeps | operations | correct when |
|---|---|---|---|
| hook entry (`internal/hook/hook.go`) | none; a 5 s budget | `Run`: parse, dispatch pre, post, bgfinal, session-start, session-end | it always ends with status 0, within the budget |
| hook client (`internal/client/client.go`) | where it is in the chain; a connection, a flock | `Snapshot`: `trySocket`, `spawnDaemon`, `waitSocket`, `degraded`, `markDegradedOverlap` | an OK answer means the rows are in the journal; the direct path flags overlaps as the daemon does |
| daemon (`internal/daemon/daemon.go`) | `inflight` (records of pres), `open` (pres with no post), one worker, stop channel | `handlePre`, `handlePost`, `handleBgFinal`, `handleWarm`, sweep, exit flush, idle stop | overlapping commands are both flagged; a pre survives the process; orphans are closed |
| socket claim (`internal/daemon/listen.go`, `run.go`) | the socket's path, `<path>.bindlock` | `CleanStaleSockets`, `Listen`, close | one daemon serves a session, and owns the path clients dial |
| flock (`internal/lockfile`) | the lock file | `Acquire` with a timeout, `Release` | one holder; an attempt is made even with no time left |
| journal folds (`internal/journal/journal.go`) | none: functions of the file | `mergeEntry`, `ReadMerged`, `PreSHAFor` | an entry says what the last half-row with a value said |
| journal file (`journal.go`, `repair.go`) | `journal.jsonl`, its flock, `journal.bad` | `Append`, `Read`, `Repair` | what was acknowledged is not lost, and a torn line does not make the ledger unreadable |
| cross-session overlap (`internal/journal/overlap.go`) | none | `MarkOverlaps` | two sessions' commands that ran together are flagged |
| snapshot engine (`internal/snapshot/engine.go`, `internal/gitx`) | the shadow repository: HEAD, index, `info/exclude`, `index.lock` | `EnsureRepo`, `Pre`, `Post`, `snap` | a snapshot holds the work-tree as it stood but for what it is to leave out; the status says what happened |
| restore, undo, rewind, snap (`internal/snapshot/restore.go`, `rewind.go`, `snap.go`, `internal/cli/*`) | a project flock; rows for what they did | gates, pre-restore snapshot, checkout or three-way apply, post snapshot | nothing is overwritten that no snapshot holds |
| background completion (`internal/snapshot/bgfinal.go`) | rows `bgfinal_<key>`, a note on the command's entry | trigger, `CaptureBgFinal` | an entry said to be captured or complete holds all its command wrote; others' writes in it are flagged |
| garbage collection (`internal/snapshot/gc.go`, `daemon.go` `runExitGC`) | none | age pass, size pass, by exiting daemons and by `gc` | a session in use, fresh writes and a project's newest session are kept |
| configuration (`internal/config`, `internal/paths`, `internal/cli/config.go`) | `meta.json`, its temporary file | `EnsureRepo`'s first write, `config set` and `unset`, `Resolve` | what was set last is in force; a reader never sees half a file |
| installers (`internal/cli/install*.go`, `wiring.go`) | the agents' settings files, their backups | `install` for three agents, the check of its result | one hook for each event, whoever installs; the user's own keys and hooks are kept |

The rest (redaction, log files, the printing commands, the feedback to the agent, the
bootstrap scripts) keeps no state another part reads concurrently.

### How they interact

A **command** (a `tool_use_id`) has two hooks, each a short-lived process. A hook
dials the session's unix socket; if nobody listens it spawns a daemon and redials;
if that fails, or its request is not answered in time, it does the work itself
under the flock of the project's repository directory; if that fails too it gives
up. The daemon's connection handlers feed one worker over an unbuffered channel.
Daemon and direct path write the same shadow repository (`git add` and `commit`)
and append half-rows to the same journal, whose readers fold the rows by key.
There is no other channel between them: in particular the daemon never reads the
open commands from the journal, and the direct path never reads the daemon's
memory. Beside them, the final capture of a background command is asked for by a hook
that polls its task; every daemon that exits collects the project's session
repositories, as `bashback gc` does; the first snapshot and `config set` write
`meta.json`; and `install` writes the settings files from which the agent starts the
hooks.

### What is hard

* *Interleaving.* Parallel commands, each with two hooks, whose requests reach a
  worker in any order, beside hooks that write directly and daemons that come up
  late. Overlap flags are set in memory by a **later** command and journalled with
  an **earlier** one's post.
* *Time.* The hook's budget cuts a read while the daemon still works on the
  request; the same hook then has a job in one process and a direct write in
  another. The idle timer stops a daemon regardless of what is open.
* *Crashes.* Between any two steps of a request; between `Append`'s bytes; between
  a daemon's journalling and its answer.
* *Races on names.* The socket's path and the journal's path are removed and
  renamed under processes that have already looked at them.
* *Relative snapshots.* "Nothing to commit" is relative to HEAD, which every
  other command moves.
* *Recoveries.* A restore or a rewind reads an entry, waits for a lock, compares the
  work-tree, snapshots it and then overwrites it, while people and commands keep
  writing and hooks keep snapshotting the same repository; it may fail half-way; and
  what it does is an entry that the next one may undo.

* *Files that change underfoot.* A snapshot is half a dozen git commands over a
  work-tree that its users go on writing, beside a second process that snapshots into
  the same repository, and a killed git leaves its lock.
* *Looks that grow old.* A collector asks which sockets are alive, then looks at file
  times, then removes; `install` and `config set` read a file, and write it whole some
  time later. None of them locks anything.

`PROJECT.json` `hazards` lists these line by line, with the properties that would
catch each going wrong and the ones no property covers yet.

## 2. The modules

```
 Entries  <-- Journal -------\
    ^ <------ Overlap --------> MCJournal              (on every small input)
    |         JournalFile ----/     ^-- JournalProofs                  (TLAPS)
    |
    | <------ Restore <-- MCRestore                                    (TLC)
    |            ^------- RestoreProofs                                (TLAPS)
    |
 Shadow <-- Daemon --\           Ledger
    ^ <---- Client ---> Session <-- SessionInv <-- AttributionInv <-- MCSession  (TLC)
                                        |               ^-- AttributionProofs    (TLAPS)
                                        |                      |
                                        ^-- SessionProofs <-- LedgerProofs

 Listen, BgFinal, Meta --> MCParts <-- GC, Wiring, Engine                        (TLC)
                              |           ^         ^-- EngineProofs          (TLAPS)
                              |           ^-- UnlockedProofs                  (TLAPS)
                              ^-- PartsProofs, on the proofs of these two     (TLAPS)
```

**Shadow** holds what the parts share. The content of the work-tree is the set of
commands whose writes have landed in it, and a snapshot's sha *is* the content it
captured; so `post \ pre` says whose changes a diff holds, which is all the
properties ask. (Deletions and repeated writes by one command add nothing to that
question.) The journal is kept folded, one entry per command; that folding on
append equals folding on read is `AppendIsMerge` of MCJournal. `Snap` is
`git add -A` and commit-if-different by its effect on HEAD; a failing one leaves
HEAD old or new.

**Daemon** is one action per step another process can come between: `Take` (the
worker receives; `handlePost` takes the record out of the maps), `PreSnap`,
`PreMark` (under the mutex), `PreAppend` with the answer, `PostPair`/`PostUnpaired`,
`PostSnap`, `PostAppend`, the failures of each, `Warm`, `Sweep`, and the process's
life `Listen`, `Stop`, `Flush`, `Exit`, `Crash`. A daemon that is dead keeps
nothing, and takes requests and some unsent answers with it.

**Client** is `Client.Snapshot`: `Dial`, `Receive`, `ConnFails`, `Spawn` and its
two ways to fail, `RedialGivesUp`, then the direct path `Acquire`, `LockTimeout`,
`DegradedPreSnap`, `DegradedMark`, `DegradedPreAppend`, `DegradedPair`,
`DegradedPostSnap`, `DegradedPostAppend`, `DegradedFails`. `Expire` is the hook's
context running out, which may come at any step and never cancels what the daemon
is doing.

**Session** composes them with the agent: commands start, write at any moment while
they run, end, or are interrupted (no post hook). `met` is a history variable: the
pairs of commands that were running at the same time. `Ages` is the passing of
StaleTTL; it happens to a command whose run is over, when nothing is under way,
which is what the TTL's comment (`daemon.go:25-29`) says it is chosen for.

**SessionInv** and **AttributionInv** hold the invariants the proofs carry: what is true of
the daemon's maps, requests and entries at every step, and from it what keeps
`Attribution` and `OverlapFlagged` true. The runs evaluate both.

**Listen** is the claim of the socket with the processes' look-then-remove and
alive-remove-bind sequences apart; a crash leaves the file behind.
**JournalFile** is the journal as inodes, lines and flocks: who has a file open
keeps it when the path is renamed over, a torn line has no newline, and the next
append is glued to it.
**Journal**, **Entries** and **Overlap** are the pure functions; `Overlap` runs two
sessions' commands against a clock, each through the four moments the record is made of:
it begins, it returns (`End`), its post is served and takes the timestamp (`Stamp`), and
the snapshot is done and the duration read (`Finish`). The true times stand beside the
recorded ones.

**Restore** has paths with contents, where Session has the commands whose writes have
landed: what a recovery does depends on the paths. A snapshot is a commit in its
session's repository (`held`), whose `index` decides what a plain `git diff` looks at
(`Differs`), and of which untracked files a snapshot takes: one whose content is in
`Uncovered` (ignored, or over the cap) is left out of it (`Taken`). The hooks are reduced to
a pre and a post that snapshot and journal; what they do between is Session's. A recovery is one command at a time, as they share the
project's flock, and one action per step that others come between: `Ask` (the journal
is read; rewind's gates are tried), `Gate` (the lock is there; restore's gates), `Save`
(the pre-restore snapshot and the diff), `Checkout`, `Remove` for each created path, or
`Merge` for the three-way apply, and `Record`. `op` holds its local variables, and four
history sets: the paths whose edits a gate was there to see (`edited` for files the
compared snapshot has, `added` for the others), those written again after it (`late`),
and those written after the pre-restore snapshot (`raced`). `Write` is a user or a
command, at any step. `RecordFails`, `CheckoutFails` and `Stops` are the failures and
kills; `Reclaim` is garbage collection. What `git apply --3way -R` does (`Clean`,
`Mergeable`, `Conflicts`, `Merge`) is what git 2.39 was seen to do: all paths or none, a
path whose index and file differ refuses, a path created on both sides conflicts.

**Engine** takes apart what `Shadow.Snap` does in one step: `SnapBegins` (`EnsureRepo` with
the sparse lines of `protect_paths`), `Probe` and `Reuse` (the fast path), `Scan` (the
oversized), `Add` with its one `Retry` round an unreadable file, `ForceAdd`, `Commit`,
`UpdateRef`. Index, HEAD, `info/exclude` (whose last matching line decides) and
`index.lock` are variables; `Changes` is a user at any moment, `GitKilled` a git that is
cut off. A line of `info/exclude` is a path as it is, which git reads as a pattern:
`Matched` says which files each matches, its namesakes further down and perhaps not itself.
A directory with no tracked file (`Dirs`, `InNewDir`) is one path to the scan (`Reported`).
Only the engines of hooks and commands have `protect_paths` (`Direct`), a daemon's has not.
`touched`, `unlisted` and `moved` are history: which files changed during the
snapshot, which lay in a new directory at its scan, and whether HEAD was set by another
between its look and its reading.

**BgFinal** is the capture of a background command's final state: `Look` (the trigger
and the reading of the journal), `Snapshot`, `Entry`, `Note`, `Fails`, by a daemon and by
a hook that writes directly, which nothing serialises. A tree is the set of the writes
it holds, as in Shadow.
**GC** has a clock and the newest file time of each session's repository; a collector
asks (`ExitGC`, `CommandGC`), looks (`GcLook`, both passes over one reading of times and
sizes, since the directories' own times are read within one call) and removes one
directory after another (`Reclaim`), while sessions write (`SessionWrites`), `Skip` and come up. `since`
and `raced` are history: what was written, or came alive, after the collector asked.
**Wiring** is `install` over four settings files: `ReadAndMerge`, `Compare`, `Stat`,
`Copy`, `AtomicWrite`, `Finish`, beside other installs, other binaries and an editor (`Edit`). One
event, which takes two hooks, stands for all, as they are merged one by one and alike. A
hook may have fields bashback does not know (`extra`), which the structs it is read into
drop (`Known`); a file that is there and cannot be read (`Denied`) is taken for none (`Missed`).
`Status` is the check doctor and install make, over the `Candidates`.
**Meta** is `meta.json` as inodes behind two names: `Ensure` and `Set` read it, `Open`,
`Fill` and `Rename` are `WriteMeta`. One numeric key stands for the keys.
**MCParts** checks these five and Listen in one run, one part per behaviour: they share
no state with one another.

**Ledger** is the abstract specification of Session: for each command the agent's
phase, what the ledger has recorded for it, and what it has been promised. A record
grows by a pre, then by a post; a pre is never lost, and a whole entry may be spoilt by
a late failure only while no hook was told of it; a hook ends with the promise of what is
recorded, or without one.
`SessionInv` has the refinement mapping, `Promise == INSTANCE Ledger WITH agent <- phase,
record <- Recorded, promised <- acked`. It says nothing of daemons, sockets, locks or
requests, so it is what the agent may rely on.

Each failure is switched on by the constant `Faults`, so a run says under which
failures its properties hold: `deadline`, `slow` (a spawned daemon is too late),
`crash`, `stop`, `nospawn`, `git`, `esc` (the command is interrupted), `resume` (a
session-start comes again).

Operators commented `Mutant of X` are plausible bugs of the definition that follows;
replacing `X` by the mutant breaks the property `PROJECT.json` names, which shows the
property can fail.

## 3. What the runs check

Bounds: `Cmds` commands (one pre and one post hook each), `Daemons` daemon processes
over the whole behaviour. When every process has been used, one more spawn loses to a
daemon that is up or coming up (`SpawnLoses`) or fails (`SpawnFails`). Two commands
are enough for every pairwise property (flags, attribution, retries of one beside
the other); that a third command's flag reaches both others is what
`OpenPairsAreFlagged` proves for any number. (`hooks` has one command, so its flock is always
free; that the wait for it may time out is in `degraded`, and its step is one of those that
`HooksWindDown` counts.) Two daemons are what a restart needs: a predecessor finishing its job while its successor serves.

| run | instance | shows |
|---|---|---|
| `records` | 2 commands, 1 daemon, `esc`, fair; 6.5 k states | **`Attribution`**: the diff of a protected entry not flagged overlapped holds its own command's changes and at most those of commands that have no pre in the ledger; `ServedInv`, from which it follows, and with it **`OverlapFlagged`**: two commands that ran at the same time and are protected are both flagged; `PostRecorded`, `OrphanClosed` |
| `degraded` | 2 commands, no daemon, `nospawn`, `deadline`, `esc`, `git`; 84 k | `OverlapFlagged` when every hook writes directly under the flock, in or out of its budget, and git may fail; `DirectInv`, from which it and `Attribution` follow |
| `restart` | 2 commands, 2 daemons, `crash`, `stop`; 1.2 M | `AckedDurable`, `OpenPairFlagged`, `PreBeforeRun`, and the action property **`ProtectedStays`**: no later row of a hook in its budget downgrades a protected entry, though the post be served twice |
| `hooks` | 1 command, 2 daemons, all eight faults; 85 k | `SessionInv` with everything failing; **`HookEndsEventually`** with no fairness of daemons; `HookWindsDown`: out of its budget a hook has eight steps left at most, and nobody sends it back; **`KeepsPromises`**: Session implements Ledger |
| `parts` | 6 parts; 1.5 M | see below |
| `journal` | journals up to 4 rows over 2 keys and the empty one; 2 sessions, 3 seconds of 2 ticks, 2 entries; 3 writers, 2 repairs, corruption and tearing; 1.9 M | `MergedIsLastSet`, `PairsWithLastPre` and `AppendIsMerge` against definitions without a fold; `LongOverlapMarked`: MarkOverlaps misses no overlap of a second; `MarkedWasNear`: what it marks was nearer than a second, the time of the one's snapshot and the time the other waited for its own; of the file **`NothingDropped`**, `GoodStays`, and `WedgedByGlue`: it becomes unreadable only by an append after a tear |
| `restore` | 2 sessions, 2 paths of 3 contents, one of them uncovered, 3 entries, 4 journalled times, 2 edits or failures; 2.6 M | **`NothingLost`**: what a recovery overwrites is in its pre-restore snapshot, or is a file no snapshot covers; **`EditsSurvive`**: an edit the gates compare is not overwritten without `--3way` or `--force`; `RestoreExact`: the pre content of every path of the diff, or of the work-tree for a rewind (but for files its own snapshot could not cover), and nothing else; `MergeKeepsEdits`: a three-way restore keeps or merges every edit since the post |

What `parts` checks, each on its own instance:

| part | instance | shows |
|---|---|---|
| Listen | 3 processes | **`ServerOwnsPath`**: who serves owns the path |
| GC | 2 sessions of sizes 1 and 2, a clock of 3, retention 3 and cap 1 for the command, 2 and 1 for exits | **`ActiveKept`**: a session alive when the collector asked keeps its repository; `RecentKept`: what is within the grace time stays; `LastKept`: only age empties a project, with several collectors at once |
| Wiring | 2 installs of two binaries, a stale third, 1 edit, three agents | **`OneHook`**: never two hooks of one op in a file; `UserPartKept`: the user's keys and hooks, with the fields bashback knows of, are written back; `InstalledIsSeen`: the check finds what was installed |
| BgFinal | 1 background and 1 other command of 1 write, 2 capturers | **`FinalHoldsAll`**: an entry said to be captured or complete holds all the command wrote |
| Engine | 3 files: one at the top, its namesake with metacharacters in the name of a directory of its own, one ignored and forced; 2 writers, one a daemon, 3 snapshots, 1 change | **`HoldsWhatStood`**: an answered snapshot holds every file that did not change meanwhile and that no line hides; `BigStaysOut`: what lets a file over the cap in; `FailsOnlyFor`: what a snapshot may fail for |
| Meta | 1 first snapshot, 2 config commands of 3 values | `AloneIsSafe`, **`SettingInForce`**: what was set last is in force, until two processes have overlapped |

Two installs, capturers, writers or config commands are what a race needs. Three
snapshots let one begin, be overtaken, and a later one see what both left. The forced file
is small at first and the other two are anything but absent (`Initially`), and a file that
cannot be read is in the project's settings only at first: a change brings the rest. With two
repositories, sizes 1 and 2 and a cap of 1, each can be the newest, the oldest, alive
and over the cap, and one alone can be; a clock of 3 passes the retention of exits and
the grace time.

`journal`: four rows are two half-rows of each of two keys in every order, or an
empty key between them; six half-seconds hold intervals that share a second's boundary, touch
and miss each other by less and by more than one, with either command's wait and snapshot
taking up to all of it; three writers are a tear, the append glued to it
and one beside the repairs; two repairs are one that replaces the file the other waits
for. A behaviour is about the rows, the times or the file.
`restore`: three entries and four times are a command, its recovery and the recovery of
that, or two commands, of one or two sessions, and a recovery; one path is there at first
and one is not, so a command can change, create and remove; with three contents an edit
is neither the command's nor what was before; two events are a command's write and an
edit or a failure at any step of the recovery; the uncovered content is an edit's, a
command's or there from the first. Here the three properties about paths are
weakened by `raced` and `late` exactly for writes that come after the look that could
have seen them: nothing locks the work-tree against its users.
`restart`, `parts`, `journal` and `restore` take one to three minutes each, the others seconds.

### Fairness

`HookFairness` is weak fairness of each hook: the operating system schedules it and
its clock runs (`Expire` is one of its steps, as `hook.go` puts every hook under a
context of 5 s). Nothing is assumed of a daemon there. `DaemonFairness` adds that
daemons are scheduled and the sweep's ticker (`sweepLoop`) fires; it is what
`records` needs, and it excludes the faults that end a daemon.

## 4. Disagreements met

Five runs expect a violation, each of a sentence the repository says of itself
(`findings`):

* `unchanged`: `engine.go:204-205` promises that `skipped_no_change` needs an
  unchanged post. `Post` takes "nothing to commit" for that. If a parallel
  command's snapshot has already committed this command's changes, the entry says
  `skipped_no_change` although its two snapshots differ. `undo` passes over such
  entries, and undoes an older command instead.
* `lost_flag`: the direct path knows open commands from the journal only, the
  daemon from its memory only. With a daemon that comes up too late for one hook and
  in time for the other, two commands run together and not both are flagged.
* `two_servers`: `CleanStaleSockets` looks and unlinks without the bindlock; a
  process that binds in between loses its path, and the one that cleaned up, or any
  other, serves beside it.
* `bg_overlap`: the final snapshot of a background command holds what any command has
  written since its post. `bgfinal.go:95-97` says the interval check flags that honestly;
  but the entry is written without a flag, and readers flag entries of different sessions
  only, so an undo of it also reverts what another command of the session wrote.
* `new_file`: the rewind's gate for edits no snapshot has (`rewind.go:191-193`) is a plain
  `git diff`, which does not look at files outside the index, as `repo.go:272` says of the
  preview. A file made by hand after the last snapshot passes the gate, and an unforced
  rewind removes it; only the pre-rewind snapshot still has it. Restore's own gate has
  the same blind spot for a file put back in the place of one the command removed.

Other sentences hold under a condition the properties state:

* A pre snapshot comes before its command (`README.md:74-75`) if its hook kept its
  budget. A daemon still working for a hook that gave up snapshots a tree the
  command is already changing, and its row looks like any other.
* A refused request ("daemon stopping") is a decoded answer, so it ends the chain:
  `client.go:55-56`'s next stages are not tried, and the command goes unprotected.
* "A single writer" (`protocol.go:1-2`) is one writer per process: a slow daemon and
  a hook that gave up waiting for it may both run git in the repository.
* An acknowledged row is kept (`repair.go:12-13`) unless its writer had opened the
  journal before a repair renamed it: `Append` opens first and locks afterwards. So does
  `Repair`: one that waited for another holds the flock of the file that is gone, and reads
  and replaces the new one while it is appended to (`Unguarded`). `strays` are the rows
  lost in either way, and `NothingDropped` excepts them; without the second exception TLC
  refutes it.
* A restore that fails after it has begun to overwrite (a removal that is refused, a kill)
  leaves no row, so "every restore is itself undoable" (`restore.go:391`) is then the
  business of whoever finds the pre-restore snapshot at HEAD.
* `git apply --3way` that fails as a whole, one path in conflict and another that does not
  apply at all, is journalled as restored with conflict markers (`restore.go:343-347`):
  `Merge` has this case, with the work-tree as it was.
* A torn line is tolerated (`journal.go:149-150`) until the next append, which glues itself
  to it as `Append` does not check that the file ends in a newline; then every read fails,
  and returns no row at all,
  until `doctor --repair`. `WedgedByGlue` says that this is the only way.
* A project's `retention_days` overrides the defaults (`README.md:335-336`) in `bashback gc`,
  not in the pass a daemon makes when it exits: that one passes no age, so the default
  holds, and so it is for the soft cap. `gc --older-than` may be less than the grace time;
  and a session whose snapshots find nothing to commit writes no file, so it does not look
  recent.
* "A merge that leaves unrelated keys intact" (`install.go:19`) and "unrelated hook entries are left
  alone" (`install.go:147`, `install_cursor.go:41`) are so of top-level keys, and of the user's hooks as
  far as bashback knows their fields (`UserPartKept`), unless the user saves between the reading
  and the writing. Every entry of the file is read into `hookMatcher` and
  `hookCmd`, or `cursorHookEntry`, and written from them: any other field of a user's own hook is
  gone (`Known`). A settings file that is there but cannot be read is taken for none and
  written over, without a backup (`Missed`). A user's own command that contains ` hook pre`
  (as ` hook pre-commit`) is taken for bashback's, and the matcher of a Claude or Codex hook
  that is there already is not updated, though the check says ok. The backup may be of
  bashback's own earlier output.
* A reader never sees half a `meta.json` (`paths.go`) as long as writers do not overlap: two
  share one temporary file, one may publish the other's half and the other then finds the
  file gone (`AloneIsSafe`); and the later of two `config set` drops what the earlier set.
  `config set max_file_bytes 0` is accepted and changes nothing.
* A snapshot holds what stood (`HoldsWhatStands`) but for: a slower writer that sets HEAD
  between another's finding everything committed and its reading of HEAD (`moved`); a forced
  file made after the last snapshot, which the fast path's `git status` does not see; a file
  once left out for its size or as unreadable, which stays out of the session's snapshots, and
  is noted once; and any untracked file of the same name further down, which that file's
  line in `info/exclude` hides too, since it is a pattern without an anchor, and which nothing
  notes (`Lined`).
* "Files over the size cap - skipped and flagged" (`README.md:294`) is so of the files `git status`
  lists (`BigStaysOut`). It lists a directory without a tracked file as one path, which is not
  measured, so that a big file in a new directory is snapshotted (`unlisted`); a line that
  `protect_paths`, set later, overrides is not appended again, and one whose name has
  metacharacters does not match its own file (`Undone`); and a tracked file that grew over the
  cap is captured though the note says it is not.
* "When `protect_paths` is set, snapshots cover only the listed paths" (`README.md:335-337`) is so
  of hooks that write directly and of the commands (`hook.go:199`, `cli.go:48`). The daemon's engine
  is never given them (`daemon/run.go:22-25`): a session it has served alone covers everything. Once
  anyone else has written the lines they are in the repository's `info/exclude` for all.
* "A wrong undo never loses work" (`README.md:58`) is so of files that snapshots cover
  (`NothingLost`). A file that is ignored or over the cap, put in the place of one that the
  command removed, is not in the index: restore's gate does not see it, the pre-restore
  snapshot does not take it, and the checkout writes over it (`LeftOut`). `README.md:290-294` says that
  such files are not covered, though not that they may be overwritten.
* `ProtectedStays` needs git not to fail: a post that is served twice, once well and once
  with a failing snapshot, ends as `unprotected_error`.
* `LongOverlapMarked` needs both durations; entries paired from the journal or
  written directly have none, or a short one. And a mark is no proof of an overlap: the timestamp is
  read before the post's snapshot (`daemon.go:294`) and the duration after it (`daemon.go:322`), so the
  start that `MarkOverlaps` computes is early by what the snapshot took, and the end late by
  what the post waited (`Reach`).

## 5. What is proved

`SessionProofs` proves, for any `Cmds`, `Daemons` and `Faults`, finite or not, from the
constants' assumptions only (the sentinels are no values; `Faults` is a set of known
kinds):

* `InvHolds`: `Spec => []SessionInv`;
* from it `TypeCorrect`, `AcksAreDurable`, `OpenPairsAreFlagged`, `PresComeBefore`.

Neither `AckedDurable` nor `PreBeforeRun` is inductive. The argument, and so the parts
of `SessionInv`:

* a hook that has not run out of its budget has **one** request out, with the
  daemon it waits on, as a pending request, a job or an answer (`Sole`,
  `Addressed`); it rests on `HookPhase`, `Waits` (a connection exactly while
  waiting) and `Holders` (only daemons that have served hold requests: a fresh or
  dead one holds none);
* so when such a hook is answered OK, or ends on the direct path, nobody is left
  who could still write for it (`Quiet`), and what was journalled is never undone
  because a merge only overwrites a field by a value (`MergeFields`);
* a hook that did run out may leave jobs behind, but then its post is answered at
  most by itself: a post on the direct path past its snapshot has no request in any daemon
  (`Locals`), and an acknowledged post is the end of its command (`AckedOver`);
* what a job or a direct write is going to journal is already complete (`Jobs`,
  `Locals`, `Opens`), and for a pre in its budget was taken while the
  command had not begun to write (`WritesLater`, `PreClean`).

`LedgerProofs` proves `KeepsItsPromises`, `Spec => KeepsPromises`, for the same constants:
every behaviour of Session is one of Ledger under the mapping above. It needs, beside
`SessionInv`, two more invariants: `Backed`, that a daemon remembers no pre which the
journal lacks but the one it is just journalling, so that a post is paired with a pre
that is recorded, and `PostLater`, that no post half is on its way for a command whose
post hook has not begun. The step lemma has one case for each action, through
`RecordsMove` and `OneMoves` (a step that merges one command's row changes that command's
record only, and as Ledger allows), `HookEndsOrGoesOn` and `HookLedger` (a hook's answer is
a promise of something recorded), `DaemonWrites` and `CommandAsks`.

Every part has a lemma (`...Step`) with one case per action; the lemmas `DaemonTasks`,
`ClientTasks`, `DaemonLedger`, `ClientLedger` say once what each process does to
requests and to the journal. `hooks` checks the same `SessionInv` with TLC.

`PartsProofs` proves, for any set of processes, `ClaimHolds` (the bindlock's holder is the
only process between check and listen, a bound process owns the path, and past the check
nobody else is bound) and from it `ListenKeepsPath`: the daemon that serves owns
the path, unless the unlocked cleanup removed a socket in use. This is the part of
`two_servers` that does hold.

MCParts sets the six parts side by side so that one run checks them all. `PartsAreThemselves`
proves that this composition takes nothing from them and adds nothing: a behaviour of
`PartsSpec` is one of `Spec` of Listen, `GCSpec`, `WiringSpec`, `BgSpec`, `EngineSpec` and
`MetaSpec` (`PartsStart`, `PartsStep`), so that what is proved of each holds of it: the types
(`PartsTypesHold`) and the properties of the run (`PartsAreSafe`). It needs that there is a
binary that installs (`PartsAssumption`), as the parts that are not looked at stand still in a
state of their own `Init`.

`RestoreProofs` proves, for any paths, contents, sessions, scopes and bounds, `TypeCorrect`
and the four properties of `restore`: `NothingIsLost`, `EditsAreKept`, `RestoresAreExact`
and `MergesKeepEdits`. Its invariant `RInv` (`RInvHolds`) is

* `SnapsOK` and `RowsOK`: every sha a repository holds has been taken, a repository that
  holds any has a newest one, and no entry is of the future, so that the newest entry and
  the newest snapshot, which the code picks, are there (`LatestOf`, `NewestOf`; the first by
  the well-foundedness of the numbers, as no bound limits the times);
* `SnapsThere`: past the gates the snapshots of the entry stay, as nothing collects a
  repository under a recovery; commits are only ever added (`SnapKeeps`, `OthersSnap`);
* `NothingEdited`: nothing that a gate was there to see has passed it;
* `KindsOK`: a rewind is of all paths and not a merge;
* `TreeIsKnown`, the heart of it: from the pre-restore snapshot on, each path that nobody has
  written since is, step by step, as that snapshot holds it or as the recovery has left it.
  A path may also stand as it did because that snapshot could not take it (`Stood`). A
  property of the end (`RestoreExact`) and one of every step (`NothingLost`) both read
  it off; `OverwritesApply` says which steps of a recovery change the work-tree at all.

`MergesKeepEdits` needs one more, `MergeInv`: a path that is not as the pre-restore snapshot holds
it, though nobody wrote it since, is not in the index either, and stays out of it whatever
other snapshots are taken beside the recovery (`SnapBesides`); and a merge applies to no path
whose index and file differ (`MergeIs`).

`PartsProofs` proves `FinalsHoldAll` for any commands and capturers. A capture is of a
command that is over, and what it holds from its snapshot on has all that command wrote
(`CapsAreSound`); so has every entry that was made of it, and a note is only of such an entry
(`FinalsAreSound`), whatever other capturers journal meanwhile.
It proves `LoneWritersAreSafe` and `SettingsAreInForce` for any processes and values: as long as writers did not overlap, at most one is at work (`WriterIsAlone`), the
names and inodes it has are its own (`NamesAreMade`, `NamesDiffer`), and what the path names
is whole and says what was wanted (`FileIsWhole`).

`LedgerProofs` also proves `ProtectedEntriesStay`, `Spec => ProtectedStays` for any commands
and daemons and every fault but `git`. A post may be served twice: the answer to the first is
lost with its daemon, and the hook, still in its budget, turns to a new one or to the direct
path. `AgainInv` says that such a daemon has never heard of the command (`NewDaemons`, from
`Lifetimes`: memory begins with serving, and one daemon has the socket), so the second post is
paired from the journal, where nothing says that its pre was skipped, and ends protected again
(`PostsAgain`). A failing git is excluded because it is where the code differs: the second post
is then journalled `unprotected_error` over the protected entry.

`AttributionProofs` proves `Attribution` and `OverlapFlagged` for any number of commands,
where the session has one kind of writer. What others have written since a pre is its `Strays`:

* `ServedHolds`, `ServedAttribution`, `ServedOverlaps` for `AlwaysServed`: there is a daemon,
  and the only faults are `esc`, `resume` and `git`. Then the daemon that has the socket keeps it
  (`OneServer`), every journalled pre is in its memory until its post takes it out
  (`Remembered`), and `DaemonRight` follows the flag through it: a record in memory is open and
  flagged if it has strays (`MemoryRight`), a pre that is not marked yet has its strays among the
  open ones that `PreMark` is about to flag (`PreJobRight`), and the record a post took is
  flagged for its strays and for whoever is still open (`PostJobRight`). `MetFlagged` says the
  same of two commands that met, wherever their flags are by now.
* `DirectHolds`, `DirectAttribution`, `DirectOverlaps` for `NeverServed`: there is no daemon, and
  the other faults are all allowed. Then a hook holds the flock from its look at the rows to the
  row it writes (`LockHeld`), the strays of a pre are open rows of the journal (`HookRight`), and
  a row whose command may still write is flagged for its strays and for every other such row
  (`LiveRight`).

The hypotheses are where the claims end, not where the proof does: with a daemon that comes up
for one hook and not for another neither kind of writer knows of the other's commands, which is
what `lost_flag` shows. A crash or a stop loses the memory a flag is kept in. TLC refutes both
properties for two commands and a daemon with each one of `deadline`, `crash`, `stop`, `slow`
and `nospawn` alone.

`JournalProofs` proves the eight properties of `journal`, for any keys, snapshots, sessions,
writers, length of the journal, precision and bound of the clock:

* `FoldIsLastSet`, `PostFindsLastPre` and `AppendMerges`: what `ReadMerged` and `PreSHAFor`
  compute, against definitions that do not fold. Appending a row changes a fold by one step
  (`MergedAppend`); what it then has is right entry by entry (`MergedRight`: the entry at each
  place, one place for each first row, nothing else), by whether the row starts an entry
  (`StartsEntry`) or joins one (`JoinsEntry`). `AppendMerges` is what entitles Shadow to keep
  the journal folded.
* `LongOverlapsMarked` and `MarkedWereNear`: formatting loses less than a second, and of each
  entry the recorded start and end are off by its own snapshot and its own wait, which it
  keeps (`OverlapInv`, `SharedSecond`, `NearlyShared`).
* `OnlyGlueWedges`, `NothingIsDropped` and `ReadableStays`, for any number of repairs: `FileInv`
  says who may have a file open, that a flock's holder is who writes
  or repairs, that a row is in a line only once its writer is done, and that what a repair will
  publish is what it has read, sorted (`SortedKeeps`). That it has read the whole of what it is
  going to replace is false of the second of two repairs, which reads by name without that
  file's flock (`repair.go:25-30`). `ReadRight` is what is left: what a repair has read, with
  what is in journal.bad, has every row that is acknowledged and has not gone astray. Of
  these the file it replaces can show none that it has not read in a good line too. It stays so
  under appends (`WriterAlone`: a row that does not go astray is written while no repair is
  under way) and under another's rename (`RenameIs`), which publishes what that one has
  read, and so all these rows again.

`UnlockedProofs` proves what is kept of files several processes change and nobody locks.

* Of GC, `ActiveIsKept`, `RecentIsKept` and `LastIsKept`, for any sessions, collectors, sizes,
  settings and times. A collector decides on what it saw; `GCInv` says what is still so of its
  lists when it removes: whoever is alive and on one has come up since it asked (`LiveAreKnown`),
  what is on the list of the age pass is as old as it was (`AgedAreOld`), what is to go for the cap
  is past the grace time (`OverAreQuiet`) and older than a repository that is kept, or past its age
  (`OverAreNotLast`). The last is where collectors meet: the one that made another's not the last
  may itself be removed, but then it was on a list for its age, and what is older is past it too,
  or there is a third (`ReclaimKeeps`). It is false once a collector has taken what was written
  after its look, hence `~raced`.
* Of Wiring, `HooksAreSingle`, `UsersPartIsKept` and `InstallsAreSeen`, for any installs, binaries
  and edits. `WireIs` says what the merge does to a list of hooks: the op's is written, at its
  place or at the end, and no other is touched. `WiringInv` says of each install that
  what it holds between reading and writing has one hook of each op, its own, has the user's part
  as it was read, and is going to a file the check looks at (`InsIsSound`; `KnownIs` says what
  the structs leave of a hook); so whatever the other
  installs and the user make of the file meanwhile, each write is of a good content.

`EngineProofs` proves `HeldIsWhatStood`, `BigIsLeftOut` and `FailuresHaveCause`, for any files,
patterns, writers and bounds. `EngineInv` follows a snapshot from command to command: after the
scan no big file that it listed is without a line (`Scanned`), and index, tree and commit in turn are right
for every file nobody touched since it began (`Right`, `ForcedIn`, `Staged`). Another
writer's steps in between stage files, append lines and set HEAD; each of those leaves what is
right so, or is what `touched` and `moved` record. `LineHides` is the fact about info/exclude they
rest on: a line that is appended hides whatever it matches, and makes nothing visible.

They rest on `GCAssumption`, `WiringAssumption` and `EngineAssumption`, which `parts`
evaluates: sessions are numbered in the order of their names, files are finitely many,
sentinels are no values, and the binaries that are run resolve. One is a condition: `Grace` is at most `Retention` and `DefaultRetention`. `recentWriteGrace` is an hour,
and the configured retention a positive number of whole days, 14 by default (`config.go`,
`Resolve`); the option `--older-than`, which could be less, is not modelled.

Recursive functions take an induction over the numbers up to a bound. The library's induction
theorems have an operator parameter, which the provers cannot instantiate, but the least
element of a *set* of numbers needs none: `UpTo` is that induction, from
`NatLessThanWellFounded`, and `LoopRuns` says once that a loop defined by its last step has the
values it should. `ReadMerged`, `FirstOf` and `Sorted` are written as such loops for this,
which is also how the code has them.

Each inductive invariant was checked by TLC before it was proved: `SessionInv` by `hooks`,
`ServedInv` by `records`, `DirectInv` by `degraded`, and on larger instances than the runs keep
`ServedInv` with two daemons (57 k states) and with three commands (408 k), `AgainInv` with two
commands and two daemons that crash, stop and resume (2.3 M) and with three daemons and a slow
spawn (36 k).

`GCInv`, `EngineInv` and `WiringInv` were checked on the modules by themselves, the last with
two edits (1.1 M).

Only model-checked: liveness under fairness (`HookEndsEventually`, `PostRecorded`,
`OrphanClosed`), which the provers cannot state; every other property of the runs is the
conclusion of a theorem. Of the first the part that is safety is proved, `HooksWindDown`, for
any commands, daemons and faults: once a hook's budget is over each step of its own takes it
further down the chain (`LateSteps`, by `StepsLeft`), and no step of another process moves it
(`OthersLeaveLate`). What stays with TLC is that the budget does end and that such a hook
always has a step, which is fairness and ENABLED. Of the folds of sequences the models needed, those of
GC, Wiring and Engine are written in closed form (`Evicted` as the sessions that go in order while
too much is left, `WithLines` as the lines not there yet, `WireAll` as the one or two ops), since
a fold of the community modules is opaque to the provers.

## 6. What is not modelled

* `restore -p` and the dry runs. The requests `ping` and `shutdown` are left out of `Daemon`
  but for what `shutdown` does (`Stop`), and `bgfinal` is served in BgFinal, beside the
  commands but not beside the daemon's other requests.
* What changes no state another part reads: the parsing of the agents' payloads, the
  views (`list`, `diff`, `show`, `feed`), the text given to the agent, redaction, logs, the
  parsing of configured values and the layout of paths, doctor's reports, the
  bootstrap scripts. They are sequential text, which the repository's tests reach.
* Nested repositories, and the text of notes but for four.
* In Engine: names that begin with `!` or `#`, which git takes for another kind of line, and a
  file that vanishes between `git add`'s look and its reading.
* In GC: `gc --all`, which makes the same pass over every project with the defaults. In
  Wiring: `--print`, the refusal to write the user's file without `--user`, and the
  skills that are copied; and a path of the binary with a space, of which the check reads
  the first word (`wiring.go:274-281`).
* An append that fails while the answer is OK (`daemon.go:396`): appends succeed in
  `Shadow`, so `AckedDurable` holds as long as the disk takes them.
* In Restore: two rows in one second; directories; two git processes in one repository at the
  same instant (the second fails on the index's lock: `Stops`); a repository reclaimed
  under a recovery; unreadable files (as uncovered ones, but of a file's mode and not its
  content); a file that was once over the cap and has shrunk, which stays excluded (Engine).
* Two repairs that write journal.tmp at once (`TmpFree`). It takes three: one that has renamed,
  one that had waited for it, and one that has opened the new file since.
* Other sessions in Session: each session has its own shadow repository and daemon,
  and the README calls concurrent sessions a known blind spot; what the journal computes of
  them is `Overlap`.
* In GC an exiting daemon's `ln.Close` and its asking for live sockets are one step (`ExitGC`): it
  asks after it has closed, and its own session is not on its list in either order.
* Git, flock, unix sockets and the agent are external and taken by what the code relies on.

## 7. Plan

Done, in this order: Entries, Journal, Shadow, Daemon, Client, Session with its runs;
SessionInv and its proof; Listen with its proof; JournalFile; Overlap; Restore; GC,
Wiring, BgFinal, Engine and Meta with MCParts; Ledger and the proof that Session
implements it; the proofs of Restore, BgFinal and Meta; those of Attribution and
OverlapFlagged where one kind of writer is at work, of ProtectedStays, of the journal, of GC,
Wiring and Engine; repairs that follow one another, the parts together, and how a hook out
of its budget ends. What could follow:

1. `restore -p`: the same gates, a patch of chosen hunks, and rows whose diff is what
   was chosen; with it an abstract specification that Restore implements: a recovery
   returns every path asked for to its pre content, or touches nothing, and every
   content it overwrote is in a snapshot.
2. An append that fails, and what the OK answer that follows it promises.
