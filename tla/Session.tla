------------------------------- MODULE Session -------------------------------
(* One agent session: its commands, the hook clients of each, and the         *)
(* session's daemon processes, over one work-tree, shadow repo and journal.   *)
EXTENDS Daemon, Client

VARIABLE met   \* pairs of commands that were running at the same time

vars == <<shadowVars, daemonVars, clientVars, met>>

Running == {c \in Cmds : phase[c] = "run"}

Init == ShadowInit /\ DaemonInit /\ ClientInit /\ met = {}
-----------------------------------------------------------------------------
(* The agent and its commands (external to bashback).                         *)

HookStarts(c, op) ==
  /\ phase' = [phase EXCEPT ![c] = op]
  /\ Goto(c, "dial")
  /\ UNCHANGED <<aged, tree, head, journal, dstate, socket, conn, pending, replies,
                 daemonVars, timedOut, acked, lock, local>>

PreHook(c)  == phase[c] = "idle" /\ HookStarts(c, "pre")
PostHook(c) == phase[c] = "run" /\ HookStarts(c, "post")

Write(c) ==
  /\ phase[c] = "run"
  /\ c \notin tree
  /\ tree' = tree \cup {c}
  /\ UNCHANGED <<phase, aged, head, journal, dstate, socket, conn, pending, replies,
                 daemonVars, clientVars>>

\* The user interrupts the command, or never permits it to run: no post hook.
Esc(c) ==
  /\ "esc" \in Faults
  /\ phase[c] = "run"
  /\ phase' = [phase EXCEPT ![c] = "aborted"]
  /\ UNCHANGED <<aged, tree, head, journal, dstate, socket, conn, pending, replies,
                 daemonVars, clientVars>>

\* Time passes.  StaleTTL lies past the longest run of a command and the longest
\* wait of a request (daemon.go, DefaultStaleTTL): a pre grows older than it only
\* when its command is over and what was under way then is over too.
Ages(c) ==
  /\ phase[c] \in {"aborted", "done"}
  /\ c \notin aged
  /\ journal[c].pre # NoSHA /\ journal[c].post = NoSHA
  /\ \A e \in Cmds : stage[e] = "none"
  /\ pending = {} /\ \A d \in Daemons : worker[d] = NoJob
  /\ aged' = aged \cup {c}
  /\ UNCHANGED <<phase, tree, head, journal, dstate, socket, conn, pending,
                 replies, daemonVars, clientVars>>

CommandStep(c) == PreHook(c) \/ PostHook(c) \/ Write(c) \/ Esc(c) \/ Ages(c)

\* Every command is over: nothing more has to happen.
Over == (\A c \in Cmds : phase[c] \in {"done", "aborted"}) /\ UNCHANGED vars
-----------------------------------------------------------------------------
ClientNext(c) == (ClientStep(c) \/ Expire(c)) /\ UNCHANGED daemonVars
DaemonNext(d) == DaemonStep(d) /\ UNCHANGED clientVars

Observe == met' = met \cup {p \in Running' \X Running' : p[1] # p[2]}

Next ==
  \/ /\ \/ \E c \in Cmds : CommandStep(c) \/ ClientNext(c)
        \/ \E d \in Daemons : DaemonNext(d)
     /\ Observe
  \/ Over

Spec == Init /\ [][Next]_vars

\* Every variable holds a value of its kind.
TypeOK == ShadowTypeOK /\ DaemonTypeOK /\ ClientTypeOK
-----------------------------------------------------------------------------
(* Safety.                                                                    *)

\* What a hook was told is done (Response.OK) is in the journal and stays there,
\* whatever later happens to daemons and clients: a pre has its snapshot, a post
\* a complete entry that no row of a late or repeated job gives the status of a
\* failure (handlePre, handlePost and degraded append before they answer).
Durable(c, op) ==
  IF op = "pre" THEN journal[c].pre # NoSHA
  ELSE Complete(c) /\ journal[c].status \in {"protected", "skipped_no_change"}

AckedDurable == \A h \in acked : Durable(h[1], h[2])

\* Two pres open in one daemon are both flagged in its memory (handlePre marks
\* two ways), so whichever post comes first journals the flag.
OpenPairFlagged ==
  \A d \in Daemons : \A a, b \in open[d] :
    a # b => inflight[d][a].overlapped /\ inflight[d][b].overlapped

\* A pre snapshot is from before its command touched anything (README, "How it
\* works"), for every hook that stayed within its budget, through retries,
\* restarts and the degraded path.
PreBeforeRun ==
  \A c \in Cmds :
    journal[c].pre # NoSHA /\ <<c, "pre">> \notin timedOut => c \notin journal[c].pre

\* The diff pre..post of a protected entry that is not flagged overlapped holds
\* its own command's changes, and at most those of commands that have no pre in
\* the ledger: what restore undoes is what the command did.
Attribution ==
  \A c \in Cmds :
    Protected(c) /\ ~journal[c].overlapped =>
      journal[c].post \ journal[c].pre
        \subseteq {c} \cup {e \in Cmds : journal[e].pre = NoSHA}

\* Two commands that ran at the same time and are both protected are both
\* flagged (README: "Within a session, commands whose pre/post intervals overlap
\* are flagged overlapped").
OverlapFlagged ==
  \A p \in met :
    Protected(p[1]) /\ Protected(p[2]) =>
      journal[p[1]].overlapped /\ journal[p[2]].overlapped

\* An entry that says nothing changed has equal snapshots (engine.go, Post:
\* "skipped_no_change requires both the pre fast-path and an unchanged post").
SkippedIsUnchanged ==
  \A c \in Cmds :
    Complete(c) /\ journal[c].status = "skipped_no_change" =>
      journal[c].post = journal[c].pre

\* A protected entry stays protected: no later row of its post hook downgrades
\* it, unless that hook ran out of its budget.
ProtectedStays ==
  [][\A c \in Cmds :
       Protected(c) /\ <<c, "post">> \notin timedOut' => Protected(c)']_vars
-----------------------------------------------------------------------------
(* Liveness.                                                                  *)

HookRuns(c)   == ClientNext(c) /\ Observe
WorkerRuns(d) == (WorkerStep(d) \/ Listen(d)) /\ UNCHANGED clientVars /\ Observe
Sweeps(d, c)  == Sweep(d, c) /\ UNCHANGED clientVars /\ Observe

\* Hook processes are scheduled and their clocks run (Expire is in HookRuns);
\* nothing is assumed of a daemon, which may hang.
HookFairness == \A c \in Cmds : WF_vars(HookRuns(c))

\* Daemons are scheduled too, and the sweep's ticker fires.
DaemonFairness ==
  \A d \in Daemons : WF_vars(WorkerRuns(d)) /\ \A c \in Cmds : WF_vars(Sweeps(d, c))

HookSpec == Spec /\ HookFairness
FairSpec == Spec /\ HookFairness /\ DaemonFairness

\* Fail-open: every hook ends, so the agent is never blocked, whatever the
\* daemon does (hook.go, Run).
HookEndsEventually ==
  \A c \in Cmds : phase[c] \in Ops ~> phase[c] \notin Ops

\* How many steps of its own a hook has left at most once its budget is over.
StepsLeft == [none |-> 0, marked |-> 1, snapped |-> 2, paired |-> 3, locked |-> 4,
              lock |-> 5, redial |-> 6, spawn |-> 7, rewait |-> 7, wait |-> 8, dial |-> 8]

\* Behind it: once its budget is over a hook dials and waits no more and goes straight
\* down the chain, by eight steps of its own at most, and nobody sends it back.
HookWindsDown ==
  [][\A c \in Cmds : Late(c) =>
       /\ StepsLeft[stage[c]]' <= StepsLeft[stage[c]]
       /\ ClientNext(c) => StepsLeft[stage[c]]' < StepsLeft[stage[c]]]_vars

\* With daemons that run, a command that ends normally gets a complete entry.
PostRecorded == \A c \in Cmds : phase[c] = "post" ~> Complete(c)

\* An orphaned pre does not stay open, marking later commands, once it is older
\* than the TTL (daemon.go, DefaultStaleTTL).
OrphanClosed ==
  \A c \in Cmds : \A d \in Daemons : (c \in aged /\ c \in open[d]) ~> c \notin open[d]
=============================================================================
