-------------------------------- MODULE Meta --------------------------------
(* A project's meta.json: created by the first snapshot (engine.go,           *)
(* EnsureRepo), changed by `bashback config set` and `unset` (cli/config.go), *)
(* written through one temporary file (paths.go, WriteMeta) and read by all   *)
(* of these and by config.Resolve.  Nothing is locked.  One numeric key       *)
(* stands for the keys, which are read, set and resolved alike.               *)
EXTENDS Naturals

CONSTANTS Snappers, Setters,  \* processes: a session's first snapshot, a config command
          Values,             \* what `config set` is given; 0 is accepted
          Env,                \* the environment's value, 0 if there is none
          Default,            \* config.go's
          NoFile,             \* a path names no file
          Half                \* the content of a file being written

MetaProcs == Snappers \cup Setters

ASSUME MetaAssumption ==
  Snappers \cap Setters = {} /\ NoFile \notin MetaProcs /\ Half \notin Values \cup {0}

\* A file's content is the key's value, 0 when it is left out, or does not parse yet.
Content == Values \cup {0, Half}
MetaStages == {"idle", "open", "write", "rename", "done", "failed", "crashed"}

VARIABLES metaFile, tmpFile,  \* the inodes that meta.json and meta.json.tmp name
          inode,     \* per process: the inode it makes when there is no temporary file
          op,        \* per process: its stage, its value, the inode it has open
          wanted,    \* history: the value of the config command that was the last to end
          overlap    \* history: a process has begun while another was at work

metaVars == <<metaFile, tmpFile, inode, op, wanted, overlap>>

Op(at, value, fd) == [at |-> at, value |-> value, fd |-> fd]

MetaTypeOK ==
  /\ metaFile \in MetaProcs \cup {NoFile}
  /\ tmpFile \in MetaProcs \cup {NoFile}
  /\ inode \in [MetaProcs -> Content]
  /\ op \in [MetaProcs -> [at : MetaStages, value : Values \cup {0}, fd : MetaProcs \cup {NoFile}]]
  /\ wanted \in Values \cup {0}
  /\ overlap \in BOOLEAN

MetaInit ==
  /\ metaFile = NoFile /\ tmpFile = NoFile
  /\ inode = [p \in MetaProcs |-> Half]
  /\ op = [p \in MetaProcs |-> Op("idle", 0, NoFile)]
  /\ wanted = 0
  /\ overlap = FALSE
-----------------------------------------------------------------------------
Working(p) == op[p].at \in {"open", "write", "rename"}
Begins(p) ==
  /\ op[p].at = "idle"
  /\ overlap' = (overlap \/ \E q \in MetaProcs : Working(q))
Moves(p, at) == op' = [op EXCEPT ![p].at = at]

Unreadable == metaFile # NoFile /\ inode[metaFile] = Half

\* Mutant of Ensure: meta.json is written without a look.
EnsureAnew(p) ==
  /\ Begins(p)
  /\ Moves(p, "open")
  /\ UNCHANGED <<metaFile, tmpFile, inode, wanted>>

\* EnsureRepo reads meta.json and writes one if there is none; one that does not
\* parse fails the snapshot.
Ensure(p) ==
  /\ Begins(p)
  /\ Moves(p, IF metaFile = NoFile THEN "open" ELSE IF Unreadable THEN "failed" ELSE "done")
  /\ UNCHANGED <<metaFile, tmpFile, inode, wanted>>

\* configSet and configUnset (v = 0) read meta.json, or take an empty one.
Set(p, v) ==
  /\ Begins(p)
  /\ op' = [op EXCEPT ![p] = Op(IF Unreadable THEN "failed" ELSE "open", v, NoFile)]
  /\ UNCHANGED <<metaFile, tmpFile, inode, wanted>>

\* Mutant of TmpName: the file is written in place.
TmpNameMeta == metaFile

\* The file WriteMeta opens: meta.json.tmp.
TmpName == tmpFile

\* WriteMeta: os.WriteFile makes or truncates the temporary file ...
Open(p) ==
  /\ op[p].at = "open"
  /\ LET i == IF TmpName = NoFile THEN p ELSE TmpName
     IN  /\ inode' = [inode EXCEPT ![i] = Half]
         /\ tmpFile' = i
         /\ op' = [op EXCEPT ![p].at = "write", ![p].fd = i]
  /\ UNCHANGED <<metaFile, wanted, overlap>>

\* ... and fills what it has opened,
Fill(p) ==
  /\ op[p].at = "write"
  /\ inode' = [inode EXCEPT ![op[p].fd] = op[p].value]
  /\ Moves(p, "rename")
  /\ UNCHANGED <<metaFile, tmpFile, wanted, overlap>>

\* and whatever has the temporary file's name becomes meta.json.
Rename(p) ==
  /\ op[p].at = "rename"
  /\ IF tmpFile = NoFile
     THEN Moves(p, "failed") /\ UNCHANGED <<metaFile, tmpFile, wanted>>
     ELSE /\ metaFile' = tmpFile
          /\ tmpFile' = NoFile
          /\ wanted' = IF p \in Setters THEN op[p].value ELSE wanted
          /\ Moves(p, "done")
  /\ UNCHANGED <<inode, overlap>>

Killed(p) ==
  /\ Working(p)
  /\ Moves(p, "crashed")
  /\ UNCHANGED <<metaFile, tmpFile, inode, wanted, overlap>>

MetaNext ==
  \/ \E p \in Snappers : Ensure(p)
  \/ \E p \in Setters, v \in Values : Set(p, v)
  \/ \E p \in MetaProcs : Open(p) \/ Fill(p) \/ Rename(p) \/ Killed(p)

MetaSpec == MetaInit /\ [][MetaNext]_metaVars

\* config.Load and Resolve: the project's value if there is one, else the
\* environment's, else the default; a meta.json that does not parse counts as empty.
Effective ==
  IF metaFile # NoFile /\ inode[metaFile] \notin {0, Half} THEN inode[metaFile]
  ELSE IF Env # 0 THEN Env ELSE Default
-----------------------------------------------------------------------------
(* Properties.                                                                *)

\* Processes that do not overlap never see a half-written meta.json and never fail,
\* wherever earlier ones were cut off (paths.go: "tmp+rename so a concurrent reader
\* never sees a half-written meta.json").  Two that write at once share the temporary
\* file: one can publish the other's half, and then finds the file gone.
AloneIsSafe ==
  ~overlap => ~Unreadable /\ \A p \in MetaProcs : op[p].at # "failed"

\* What the last config command set is in force, whatever snapshots came after it,
\* and over the environment (README: "Per-project settings ... override
\* environment, which overrides defaults"); after an unset, or a 0, those are.
SettingInForce ==
  ~overlap /\ (\A p \in MetaProcs : ~Working(p)) =>
    Effective = (IF wanted # 0 THEN wanted ELSE IF Env # 0 THEN Env ELSE Default)
=============================================================================
