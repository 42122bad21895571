------------------------------- MODULE Shadow -------------------------------
(* What the parts of one bashback session share: the work-tree, the session's *)
(* shadow repository, the project journal and the unix socket between hook    *)
(* clients and the daemon (internal/snapshot/engine.go, internal/journal,     *)
(* internal/daemon/protocol.go).                                              *)
(*                                                                            *)
(* A command is identified by its tool_use_id.  The content of the work-tree  *)
(* is abstracted to the set of commands whose writes have landed in it, and a *)
(* snapshot (a commit of the shadow repo) to the content it captured, so that *)
(* the diff of two snapshots says whose changes it holds.                     *)
EXTENDS Entries

CONSTANTS Cmds,     \* the session's commands (tool_use_ids)
          Daemons,  \* daemon processes that may be spawned, in any order
          Faults,   \* the kinds of failure that may happen, see FaultKinds
          NoSHA,    \* the empty sha of a journal field
          NoDaemon  \* nobody listens on the session's socket

\* "deadline": a hook's 5s budget runs out; "slow": a spawned daemon does not
\* listen within SpawnWait; "crash": a daemon process dies; "stop": it shuts
\* down in order (idle timer, session end); "nospawn": BASHBACK_NO_SPAWN or a
\* failing exec; "git": a git command of a snapshot fails; "esc": the agent's
\* user interrupts a running command; "resume": a second session-start hook
\* comes while the session goes on (resume, compact).
FaultKinds ==
  {"deadline", "slow", "crash", "stop", "nospawn", "git", "esc", "resume"}

\* A command waits for its pre hook, runs, and waits for its post hook; an
\* interrupted one gets no post hook.
Phases   == {"idle", "pre", "run", "post", "done", "aborted"}
Lives    == {"unspawned", "starting", "serving", "stopping", "flushed", "dead"}
Contents == SUBSET Cmds
SHA      == Contents \cup {NoSHA}
Ops      == {"pre", "post"}
NoConn   == [op |-> "none", to |-> NoDaemon]

ASSUME FaultsAssumption   == Faults \subseteq FaultKinds
ASSUME SentinelAssumption == (\A s \in Contents : NoSHA # s) /\ NoDaemon \notin Daemons

VARIABLES phase,    \* where the agent is with each command
          aged,     \* commands whose pre is older than the stale TTL
          tree,     \* content of the work-tree
          head,     \* HEAD of the session's shadow repo, NoSHA before a commit
          journal,  \* the merged journal entry of every command
          dstate,   \* life of each daemon process
          socket,   \* the daemon whose listener owns the session's socket
          conn,     \* per command: the connection its hook waits on
          pending,  \* requests read by a daemon, not yet taken by its worker
          replies   \* answers on their way to a hook

shadowVars == <<phase, aged, tree, head, journal, dstate, socket, conn,
                pending, replies>>
-----------------------------------------------------------------------------
(* The journal.  Appends are atomic (flock and O_APPEND), and every reader    *)
(* sees the rows folded by key, so the state is the folded entry; MCJournal   *)
(* checks that appending a row is folding it into the entry of its key.       *)

Statuses == {"", "protected", "skipped_no_change", "unprotected_error",
             "unprotected_timeout"}

Notes == {"", "interrupted", "pre missing", "lock timeout"}

Entry == [pre : SHA, post : SHA, status : Statuses, overlapped : BOOLEAN,
          note : Notes]

NoEntry == [pre |-> NoSHA, post |-> NoSHA, status |-> "", overlapped |-> FALSE,
            note |-> ""]

PreRow(sha, overlapped) ==
  [NoEntry EXCEPT !.pre = sha, !.overlapped = overlapped]

StatusRow(status) == [NoEntry EXCEPT !.status = status]

Merged(c, row) == MergeEntry(NoEntry, journal[c], row)

AppendRow(c, row) == journal' = [journal EXCEPT ![c] = Merged(c, row)]

\* One row for every command in cs.
AppendRows(cs, row) ==
  journal' = [c \in Cmds |-> IF c \in cs THEN Merged(c, row) ELSE journal[c]]

Complete(c)  == journal[c].pre # NoSHA /\ journal[c].post # NoSHA
Protected(c) == Complete(c) /\ journal[c].status = "protected"
-----------------------------------------------------------------------------
(* Engine.snap: stage everything and commit if that differs from HEAD (the    *)
(* first snapshot always commits).  Either way HEAD ends up holding the       *)
(* work-tree, and the snapshot's sha is HEAD.                                 *)

Snap    == head' = tree
Skipped == head = tree       \* nothing was committed: HEAD already held it

\* A failing snapshot: the error comes before or after its commit.
SnapFails == head' \in {head, tree}

ShadowInit ==
  /\ phase = [c \in Cmds |-> "idle"]
  /\ aged = {}
  /\ tree = {}
  /\ head \in {NoSHA, {}}   \* with {}, the session-start hook took a baseline
  /\ journal = [c \in Cmds |-> NoEntry]
  /\ dstate = [d \in Daemons |-> "unspawned"]
  /\ socket = NoDaemon
  /\ conn = [c \in Cmds |-> NoConn]
  /\ pending = {}
  /\ replies = {}

Request == [cmd : Cmds, op : Ops, to : Daemons]
Reply   == [cmd : Cmds, op : Ops, from : Daemons, ok : BOOLEAN]

ShadowTypeOK ==
  /\ phase \in [Cmds -> Phases]
  /\ aged \subseteq Cmds
  /\ tree \in Contents
  /\ head \in SHA
  /\ journal \in [Cmds -> Entry]
  /\ dstate \in [Daemons -> Lives]
  /\ socket \in Daemons \cup {NoDaemon}
  /\ conn \in [Cmds -> [op : Ops, to : Daemons] \cup {NoConn}]
  /\ pending \subseteq Request
  /\ replies \subseteq Reply
=============================================================================
