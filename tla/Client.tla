------------------------------- MODULE Client -------------------------------
(* The hook client (internal/client/client.go, Client.Snapshot): one pre and  *)
(* one post hook per command, each going down the degradation chain socket -> *)
(* spawn and socket -> direct write under the project's flock -> give up.     *)
(* A hook never blocks the agent: whatever the chain comes to, the hook ends  *)
(* and the agent moves on.                                                    *)
EXTENDS Shadow

VARIABLES stage,     \* where a hook is in the chain
          timedOut,  \* hooks whose 5s budget has run out
          acked,     \* hooks whose answer was OK
          lock,      \* the command whose hook holds RepoDir/lock
          local      \* the degraded path's own variables

clientVars == <<stage, timedOut, acked, lock, local>>

CONSTANT NoCmd  \* the flock is free
ASSUME NoCmdAssumption == NoCmd \notin Cmds

Stages  == {"none", "dial", "wait", "spawn", "redial", "rewait", "lock",
            "locked", "paired", "snapped", "marked"}
Local   == [pre : SHA, sha : SHA, overlapped : BOOLEAN]
NoLocal == [pre |-> NoSHA, sha |-> NoSHA, overlapped |-> FALSE]

ClientTypeOK ==
  /\ stage \in [Cmds -> Stages]
  /\ timedOut \subseteq Cmds \X Ops
  /\ acked \subseteq Cmds \X Ops
  /\ lock \in Cmds \cup {NoCmd}
  /\ local \in [Cmds -> Local]

ClientInit ==
  /\ stage = [c \in Cmds |-> "none"]
  /\ timedOut = {}
  /\ acked = {}
  /\ lock = NoCmd
  /\ local = [c \in Cmds |-> NoLocal]

Hook(c) == <<c, phase[c]>>    \* a command in phase "pre" or "post" has a hook
Late(c) == Hook(c) \in timedOut

Goto(c, s) == stage' = [stage EXCEPT ![c] = s]

\* The hook process exits with status 0 and the agent goes on, whatever the
\* answer; the kernel drops a flock the hook held.
HookEnds(c, ok) ==
  /\ phase' = [phase EXCEPT ![c] = IF phase[c] = "pre" THEN "run" ELSE "done"]
  /\ Goto(c, "none")
  /\ acked' = IF ok THEN acked \cup {Hook(c)} ELSE acked
  /\ conn' = [conn EXCEPT ![c] = NoConn]
  /\ lock' = IF lock = c THEN NoCmd ELSE lock
  /\ local' = [local EXCEPT ![c] = NoLocal]

\* The context of hook.Run: Budget has passed.
Expire(c) ==
  /\ "deadline" \in Faults
  /\ stage[c] # "none"
  /\ ~Late(c)
  /\ timedOut' = timedOut \cup {Hook(c)}
  /\ UNCHANGED <<shadowVars, stage, acked, lock, local>>
-----------------------------------------------------------------------------
(* trySocket, spawnDaemon and waitSocket.                                     *)

\* Mutant of Dial: the context is not looked at before another try.
DialAnyTime(c) ==
  /\ stage[c] \in {"dial", "redial"}
  /\ socket # NoDaemon
  /\ conn' = [conn EXCEPT ![c] = [op |-> phase[c], to |-> socket]]
  /\ pending' = pending \cup {[cmd |-> c, op |-> phase[c], to |-> socket]}
  /\ Goto(c, IF stage[c] = "dial" THEN "wait" ELSE "rewait")
  /\ UNCHANGED <<phase, aged, tree, head, journal, dstate, socket, replies, timedOut,
                 acked, lock, local>>

Dial(c) ==
  /\ stage[c] \in {"dial", "redial"}
  /\ socket # NoDaemon
  /\ ~Late(c)
  /\ conn' = [conn EXCEPT ![c] = [op |-> phase[c], to |-> socket]]
  /\ pending' = pending \cup {[cmd |-> c, op |-> phase[c], to |-> socket]}
  /\ Goto(c, IF stage[c] = "dial" THEN "wait" ELSE "rewait")
  /\ UNCHANGED <<phase, aged, tree, head, journal, dstate, socket, replies, timedOut,
                 acked, lock, local>>

Answers(c) == {r \in replies : r.cmd = c /\ r.op = conn[c].op /\ r.from = conn[c].to}
\* Any decoded answer ends the chain, also one that says not OK.
Receive(c) ==
  /\ stage[c] \in {"wait", "rewait"}
  /\ ~Late(c)
  /\ \E r \in Answers(c) :
       /\ replies' = replies \ {r}
       /\ HookEnds(c, r.ok)
  /\ UNCHANGED <<aged, tree, head, journal, dstate, socket, pending, timedOut>>

\* Mutant of ConnFails: no deadline is set on the connection.
ConnFailsOnDeath(c) ==
  /\ stage[c] \in {"wait", "rewait"}
  /\ dstate[conn[c].to] = "dead" /\ Answers(c) = {}
  /\ conn' = [conn EXCEPT ![c] = NoConn]
  /\ Goto(c, IF stage[c] = "wait" THEN "spawn" ELSE "lock")
  /\ UNCHANGED <<phase, aged, tree, head, journal, dstate, socket, pending, replies,
                 timedOut, acked, lock, local>>

\* The deadline cuts the read, or the daemon died without an answer.  After a
\* failed retry, waitSocket tries again until SpawnWait or the budget is over.
ConnFails(c) ==
  /\ stage[c] \in {"wait", "rewait"}
  /\ Late(c) \/ (dstate[conn[c].to] = "dead" /\ Answers(c) = {})
  /\ conn' = [conn EXCEPT ![c] = NoConn]
  /\ replies' = replies \ Answers(c)
  /\ \/ stage[c] = "wait" /\ Goto(c, "spawn")
     \/ stage[c] = "rewait" /\ ~Late(c) /\ Goto(c, "redial")
     \/ stage[c] = "rewait" /\ (Late(c) \/ "slow" \in Faults) /\ Goto(c, "lock")
  /\ UNCHANGED <<phase, aged, tree, head, journal, dstate, socket, pending, timedOut,
                 acked, lock, local>>

\* The first try had no answer, or no daemon to dial.
Unserved(c) ==
  stage[c] = "spawn" \/ (stage[c] = "dial" /\ (socket = NoDaemon \/ Late(c)))

Spawn(c) ==
  /\ Unserved(c)
  /\ \E d \in Daemons :
       /\ dstate[d] = "unspawned"
       /\ dstate' = [dstate EXCEPT ![d] = "starting"]
  /\ Goto(c, "redial")
  /\ UNCHANGED <<phase, aged, tree, head, journal, socket, conn, pending, replies,
                 timedOut, acked, lock, local>>

\* The bound on daemon processes: one more than Daemons has would find the
\* session claimed (ErrAlreadyRunning) if a daemon is up or coming up, and is
\* taken to fail otherwise.
Used    == \A d \in Daemons : dstate[d] # "unspawned"
Claimed == \E d \in Daemons : dstate[d] \in {"starting", "serving"}

SpawnLoses(c) ==
  /\ Unserved(c)
  /\ Used /\ Claimed
  /\ Goto(c, "redial")
  /\ UNCHANGED <<shadowVars, timedOut, acked, lock, local>>

SpawnFails(c) ==
  /\ Unserved(c)
  /\ "nospawn" \in Faults \/ (Used /\ ~Claimed)
  /\ Goto(c, "lock")
  /\ UNCHANGED <<shadowVars, timedOut, acked, lock, local>>

\* SpawnWait is over: the daemon that was spawned is too late, or died.
RedialGivesUp(c) ==
  /\ stage[c] = "redial"
  /\ Late(c) \/ (socket = NoDaemon /\ ("slow" \in Faults \/ ~Claimed))
  /\ Goto(c, "lock")
  /\ UNCHANGED <<shadowVars, timedOut, acked, lock, local>>
-----------------------------------------------------------------------------
(* degraded: the same work in the hook's own process, under the flock.        *)

\* lockfile.Acquire tries at least once, also with no budget left.
Acquire(c) ==
  /\ stage[c] = "lock"
  /\ lock = NoCmd
  /\ lock' = c
  /\ Goto(c, "locked")
  /\ UNCHANGED <<shadowVars, timedOut, acked, local>>

LockTimeout(c) ==
  /\ stage[c] = "lock"
  /\ lock # NoCmd
  /\ Late(c)
  /\ AppendRow(c, [StatusRow("unprotected_timeout") EXCEPT !.note = "lock timeout"])
  /\ HookEnds(c, FALSE)
  /\ UNCHANGED <<aged, tree, head, dstate, socket, pending, replies, timedOut>>

\* Mutant of DegradedFails: the error is swallowed after its row.
DegradedFailsOK(c) ==
  /\ stage[c] \in {"locked", "paired"}
  /\ Late(c) \/ "git" \in Faults
  /\ SnapFails
  /\ IF stage[c] = "paired" THEN AppendRow(c, StatusRow("unprotected_error"))
                            ELSE UNCHANGED journal
  /\ HookEnds(c, TRUE)
  /\ UNCHANGED <<aged, tree, dstate, socket, pending, replies, timedOut>>

\* A git command fails, or is killed with the hook's context.  Nothing is
\* journalled for a pre, nor for a post whose EnsureRepo fails.
DegradedFails(c) ==
  /\ stage[c] \in {"locked", "paired"}
  /\ Late(c) \/ "git" \in Faults
  /\ \/ stage[c] = "locked" /\ SnapFails /\ UNCHANGED journal
     \/ /\ stage[c] = "paired"
        /\ SnapFails
        /\ AppendRow(c, StatusRow("unprotected_error"))
  /\ HookEnds(c, FALSE)
  /\ UNCHANGED <<aged, tree, dstate, socket, pending, replies, timedOut>>

DegradedPreSnap(c) ==
  /\ stage[c] = "locked" /\ phase[c] = "pre"
  /\ ~Late(c)
  /\ Snap
  /\ local' = [local EXCEPT ![c].sha = tree]
  /\ Goto(c, "snapped")
  /\ UNCHANGED <<phase, aged, tree, journal, dstate, socket, conn, pending, replies,
                 timedOut, acked, lock>>

\* Mutant of DegradedMark: the open pres of others are not flagged in turn.
DegradedMarkSelf(c) ==
  /\ stage[c] = "snapped" /\ phase[c] = "pre"
  /\ LET others == {e \in Cmds \ ({c} \cup aged) :
                      journal[e].pre # NoSHA /\ journal[e].post = NoSHA}
     IN  local' = [local EXCEPT ![c].overlapped = others # {}]
  /\ Goto(c, "marked")
  /\ UNCHANGED <<phase, aged, tree, head, journal, dstate, socket, conn, pending,
                 replies, timedOut, acked, lock>>

\* Mutant of DegradedMark: only the others are flagged.
DegradedMarkOthers(c) ==
  /\ stage[c] = "snapped" /\ phase[c] = "pre"
  /\ AppendRows({e \in Cmds \ ({c} \cup aged) :
                   journal[e].pre # NoSHA /\ journal[e].post = NoSHA},
                [NoEntry EXCEPT !.overlapped = TRUE])
  /\ Goto(c, "marked")
  /\ UNCHANGED <<phase, aged, tree, head, dstate, socket, conn, pending, replies,
                 timedOut, acked, lock, local>>

\* markDegradedOverlap: the journal's open pres, those past the TTL left out.
DegradedMark(c) ==
  /\ stage[c] = "snapped" /\ phase[c] = "pre"
  /\ LET others == {e \in Cmds \ ({c} \cup aged) :
                      journal[e].pre # NoSHA /\ journal[e].post = NoSHA}
     IN  /\ AppendRows(others, [NoEntry EXCEPT !.overlapped = TRUE])
         /\ local' = [local EXCEPT ![c].overlapped = others # {}]
  /\ Goto(c, "marked")
  /\ UNCHANGED <<phase, aged, tree, head, dstate, socket, conn, pending, replies,
                 timedOut, acked, lock>>

DegradedPreAppend(c) ==
  /\ stage[c] = "marked"
  /\ AppendRow(c, PreRow(local[c].sha, local[c].overlapped))
  /\ HookEnds(c, TRUE)
  /\ UNCHANGED <<aged, tree, head, dstate, socket, pending, replies, timedOut>>

DegradedPair(c) ==
  /\ stage[c] = "locked" /\ phase[c] = "post"
  /\ local' = [local EXCEPT ![c].pre = journal[c].pre]
  /\ Goto(c, "paired")
  /\ UNCHANGED <<shadowVars, timedOut, acked, lock>>

\* Without a pre the diff of Engine.Post has no base and fails, after the commit.
DegradedPostSnap(c) ==
  /\ stage[c] = "paired"
  /\ ~Late(c)
  /\ Snap
  /\ IF local[c].pre = NoSHA
     THEN /\ AppendRow(c, StatusRow("unprotected_error"))
          /\ HookEnds(c, FALSE)
     ELSE /\ local' = [local EXCEPT ![c].sha = tree]
          /\ Goto(c, "snapped")
          /\ UNCHANGED <<phase, journal, conn, acked, lock>>
  /\ UNCHANGED <<aged, tree, dstate, socket, pending, replies, timedOut>>

DegradedPostAppend(c) ==
  /\ stage[c] = "snapped" /\ phase[c] = "post"
  /\ AppendRow(c, [StatusRow("protected") EXCEPT !.post = local[c].sha])
  /\ HookEnds(c, TRUE)
  /\ UNCHANGED <<aged, tree, head, dstate, socket, pending, replies, timedOut>>

ClientStep(c) ==
  \/ Dial(c) \/ Receive(c) \/ ConnFails(c)
  \/ Spawn(c) \/ SpawnLoses(c) \/ SpawnFails(c) \/ RedialGivesUp(c)
  \/ Acquire(c) \/ LockTimeout(c) \/ DegradedFails(c)
  \/ DegradedPreSnap(c) \/ DegradedMark(c) \/ DegradedPreAppend(c)
  \/ DegradedPair(c) \/ DegradedPostSnap(c) \/ DegradedPostAppend(c)
=============================================================================
