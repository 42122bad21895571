---------------------------- MODULE SessionInv ----------------------------
(* The inductive invariant behind Session's safety properties: what a hook,   *)
(* the requests it has made and the rows they leave have to do with each      *)
(* other.                                                                     *)
EXTENDS Session

\* A hook is in the chain exactly while its command waits for it, and in the
\* stages of its kind.
HookPhase ==
  \A c \in Cmds :
    /\ stage[c] # "none" <=> phase[c] \in Ops
    /\ stage[c] = "marked" => phase[c] = "pre"
    /\ stage[c] = "paired" => phase[c] = "post"

\* A hook has a connection exactly while it waits on one.
Waits ==
  \A c \in Cmds :
    /\ conn[c] # NoConn <=> stage[c] \in {"wait", "rewait"}
    /\ conn[c] # NoConn => conn[c].op = phase[c]

\* Only a daemon that has served holds requests, and the socket leads to one
\* that serves.
Holders ==
  /\ socket # NoDaemon => dstate[socket] = "serving"
  /\ \A d \in Daemons : dstate[d] \in {"unspawned", "starting", "dead"} =>
       worker[d] = NoJob /\ \A r \in pending : r.to # d
-----------------------------------------------------------------------------
JobOf(d, c, op) == worker[d] # NoJob /\ worker[d].cmd = c /\ worker[d].op = op
AskedOf(d, c, op) == [cmd |-> c, op |-> op, to |-> d] \in pending

\* No daemon has anything left to do for the hook.
Quiet(c, op) == \A d \in Daemons : ~JobOf(d, c, op) /\ ~AskedOf(d, c, op)

\* A hook within its budget has one request out at most, with the daemon it
\* waits on: as a request not yet taken, a job or an answer.
Sole ==
  \A c \in Cmds, op \in Ops : <<c, op>> \notin timedOut =>
    \A d \in Daemons :
      /\ JobOf(d, c, op) \/ AskedOf(d, c, op) => conn[c] = [op |-> op, to |-> d]
      /\ ~(JobOf(d, c, op) /\ AskedOf(d, c, op))

\* An answer is for a hook that waits on it, and is the last of its request.
Addressed ==
  \A r \in replies :
    /\ conn[r.cmd] = [op |-> r.op, to |-> r.from]
    /\ <<r.cmd, r.op>> \notin timedOut =>
         /\ Quiet(r.cmd, r.op)
         /\ r.ok => Durable(r.cmd, r.op)
         /\ \A s \in replies : s.cmd = r.cmd => s = r

\* An acknowledged post is the end of its command.
AckedOver ==
  \A c \in Cmds : <<c, "post">> \in acked => phase[c] = "done" /\ Quiet(c, "post")
-----------------------------------------------------------------------------
\* A job past its snapshot has what it will journal.
Jobs ==
  \A d \in Daemons : worker[d] # NoJob =>
    /\ worker[d].at \in {"snapped", "marked"} => worker[d].rec.pre # NoSHA
    /\ worker[d].at = "snapped" /\ worker[d].op = "post" =>
         /\ worker[d].post # NoSHA
         /\ worker[d].status \in {"protected", "skipped_no_change"}

\* The same of a hook that writes directly; its post never runs beside a request
\* of its own, even when it runs out of its budget after the snapshot.
Locals ==
  \A c \in Cmds :
    /\ stage[c] \in {"snapped", "marked"} => local[c].sha # NoSHA
    /\ local[c].pre # NoSHA => journal[c].pre # NoSHA
    /\ stage[c] = "snapped" /\ phase[c] = "post" =>
         local[c].pre # NoSHA /\ Quiet(c, "post")

\* An open pre has its record.
Opens == \A d \in Daemons : \A c \in open[d] : inflight[d][c].pre # NoSHA

\* A command writes only after its pre hook, and every pre on its way to the
\* journal was taken before.
WritesLater == \A c \in Cmds : c \in tree => phase[c] \notin {"idle", "pre"}

Before(c, sha) == sha # NoSHA => c \notin sha

PreClean ==
  \A c \in Cmds : <<c, "pre">> \notin timedOut =>
    /\ Before(c, journal[c].pre)
    /\ phase[c] \in {"idle", "pre"} => Before(c, local[c].sha)
    /\ \A d \in Daemons :
         /\ Before(c, inflight[d][c].pre)
         /\ worker[d] # NoJob /\ worker[d].cmd = c => Before(c, worker[d].rec.pre)

SessionInv ==
  /\ TypeOK /\ HookPhase /\ Waits /\ Holders
  /\ Sole /\ Addressed /\ AckedOver /\ AckedDurable
  /\ Jobs /\ Locals /\ Opens /\ OpenPairFlagged
  /\ WritesLater /\ PreClean
-----------------------------------------------------------------------------
(* Session as an implementation of Ledger.                                    *)

\* The daemon's memory has no pre that the journal lacks, but for the one it is just
\* journalling, so a post always completes a pre that is on record.
Backed ==
  \A d \in Daemons, c \in Cmds :
    /\ inflight[d][c].pre # NoSHA =>
         journal[c].pre # NoSHA \/ (JobOf(d, c, "pre") /\ worker[d].at = "marked")
    /\ JobOf(d, c, "post") /\ worker[d].rec.pre # NoSHA => journal[c].pre # NoSHA

PostLater == \A c \in Cmds : journal[c].post # NoSHA => journal[c].pre # NoSHA

Recorded(c) ==
  IF Durable(c, "post") THEN "whole" ELSE IF Durable(c, "pre") THEN "pre" ELSE "none"

Promise == INSTANCE Ledger WITH agent <- phase,
                                record <- [c \in Cmds |-> Recorded(c)],
                                promised <- acked

\* Through every retry, restart and degradation, hooks, daemons and journal together
\* do to each command's record only what Ledger allows: a pre is on record before a
\* post joins it and is never lost, a promise is about what is recorded, once, and
\* nothing takes a promised entry back.
KeepsPromises == Promise!LedgerSpec
-----------------------------------------------------------------------------
(* The invariant behind ProtectedStays: only a daemon that has never heard of *)
(* the command is asked a second time for its post.                           *)

\* A daemon has served while it remembers anything, and the one that serves has the
\* socket.
Lifetimes ==
  \A d \in Daemons :
    /\ dstate[d] \in {"unspawned", "starting", "dead"} => \A c \in Cmds : inflight[d][c] = NoRec
    /\ dstate[d] = "serving" => socket = d

\* Before its hook has dialled, no post is asked for or journalled.
PostsLast ==
  \A c \in Cmds :
    \/ phase[c] \in {"post", "done"} /\ stage[c] # "dial"
    \/ journal[c].post = NoSHA /\ Quiet(c, "post")

Unheard(d, c) ==
  inflight[d][c] = NoRec /\ ~JobOf(d, c, "pre") /\ ~AskedOf(d, c, "pre")

\* The daemon a post hook may turn to after its first try is a new one, ...
NewDaemons ==
  \A c \in Cmds, d \in Daemons :
    /\ phase[c] = "post" /\ stage[c] # "dial" /\ <<c, "post">> \notin timedOut
    /\ dstate[d] = "serving" /\ conn[c] # [op |-> "post", to |-> d]
    => Unheard(d, c)

\* ... so a post that is done again pairs with the journal, where nothing says that
\* its pre was skipped.
Again(c) == journal[c].post # NoSHA /\ <<c, "post">> \notin timedOut

PostsAgain ==
  \A c \in Cmds : Again(c) =>
    /\ stage[c] = "paired" => local[c].pre # NoSHA
    /\ \A d \in Daemons :
         /\ AskedOf(d, c, "post") => Unheard(d, c)
         /\ JobOf(d, c, "post") =>
              ~worker[d].rec.skipped /\ worker[d].status \in {"", "protected"}

AgainInv == Lifetimes /\ PostsLast /\ NewDaemons /\ PostsAgain
=============================================================================
