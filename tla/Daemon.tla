------------------------------- MODULE Daemon -------------------------------
(* The per-session daemon (internal/daemon/daemon.go): connection handlers    *)
(* feed one worker, which serves a request in the steps a crash, a client or  *)
(* another process can come between; the sweep and the exit flush retire pres *)
(* whose post never came.  Several daemon processes may exist at once: one    *)
(* that lost its listener finishes its job while a successor serves.          *)
EXTENDS Shadow

VARIABLES inflight,  \* Daemon.inflight: the record of a pre, until its post
          open,      \* Daemon.open: pre seen, post pending
          worker     \* the job the worker is at

daemonVars == <<inflight, open, worker>>

\* A record is made with the sha of its pre: one without is the absent (nil) one.
Rec   == [pre : SHA, skipped : BOOLEAN, overlapped : BOOLEAN, swept : BOOLEAN]
NoRec == [pre |-> NoSHA, skipped |-> FALSE, overlapped |-> FALSE, swept |-> FALSE]
Nil(rec) == rec.pre = NoSHA

Steps == {"taken", "snapped", "marked"}
Job   == [cmd : Cmds, op : Ops, at : Steps, rec : Rec, post : SHA,
          status : Statuses]
NoJob == [at |-> "idle"]

DaemonTypeOK ==
  /\ inflight \in [Daemons -> [Cmds -> Rec]]
  /\ open \in [Daemons -> SUBSET Cmds]
  /\ worker \in [Daemons -> Job \cup {NoJob}]

DaemonInit ==
  /\ inflight = [d \in Daemons |-> [c \in Cmds |-> NoRec]]
  /\ open = [d \in Daemons |-> {}]
  /\ worker = [d \in Daemons |-> NoJob]
-----------------------------------------------------------------------------
(* Process life: Run, Serve, Stop.                                            *)

Alive(d) == dstate[d] \in {"serving", "stopping"}

\* Listen refuses while another daemon's socket is alive (ErrAlreadyRunning).
Listen(d) ==
  /\ dstate[d] = "starting"
  /\ IF socket = NoDaemon
     THEN socket' = d /\ dstate' = [dstate EXCEPT ![d] = "serving"]
     ELSE dstate' = [dstate EXCEPT ![d] = "dead"] /\ UNCHANGED socket
  /\ UNCHANGED <<phase, aged, tree, head, journal, conn, pending, replies, inflight,
                 open, worker>>

\* Idle timeout, OpShutdown or a signal: close(stop), then the listener.  The
\* idle timer looks at nothing but the time since the last request.
Stop(d) ==
  /\ "stop" \in Faults
  /\ dstate[d] = "serving"
  /\ dstate' = [dstate EXCEPT ![d] = "stopping"]
  /\ socket' = NoDaemon
  /\ UNCHANGED <<phase, aged, tree, head, journal, conn, pending, replies, inflight,
                 open, worker>>

\* flushOpen: once the worker has returned, every open pre is swept.
Flush(d) ==
  /\ dstate[d] = "stopping"
  /\ worker[d] = NoJob
  /\ AppendRows({c \in open[d] : ~Nil(inflight[d][c]) /\ ~inflight[d][c].swept},
                [NoEntry EXCEPT !.note = "interrupted"])
  /\ open' = [open EXCEPT ![d] = {}]
  /\ dstate' = [dstate EXCEPT ![d] = "flushed"]
  /\ UNCHANGED <<phase, aged, tree, head, socket, conn, pending, replies, inflight,
                 worker>>

\* The process is gone, with its memory, the requests it held and those answers
\* its handlers had not written yet.
Dies(d) ==
  /\ dstate' = [dstate EXCEPT ![d] = "dead"]
  /\ inflight' = [inflight EXCEPT ![d] = [c \in Cmds |-> NoRec]]
  /\ open' = [open EXCEPT ![d] = {}]
  /\ worker' = [worker EXCEPT ![d] = NoJob]
  /\ pending' = {r \in pending : r.to # d}
  /\ \E lost \in SUBSET {r \in replies : r.from = d} : replies' = replies \ lost
  /\ socket' = IF socket = d THEN NoDaemon ELSE socket
  /\ UNCHANGED <<phase, aged, tree, head, journal, conn>>

Exit(d)  == dstate[d] = "flushed" /\ Dies(d)
Crash(d) == "crash" \in Faults /\ dstate[d] \notin {"unspawned", "dead"} /\ Dies(d)
-----------------------------------------------------------------------------
(* Requests: handleConn and the worker.                                       *)

\* The answer reaches the hook's connection, if the hook still waits on it.
Answer(d, c, op, ok) ==
  replies' = IF conn[c] = [op |-> op, to |-> d]
             THEN replies \cup {[cmd |-> c, op |-> op, from |-> d, ok |-> ok]}
             ELSE replies

\* handleConn of a stopping daemon: "daemon stopping".
Refuse(d) ==
  /\ dstate[d] \in {"stopping", "flushed"}
  /\ \E r \in pending :
       /\ r.to = d
       /\ pending' = pending \ {r}
       /\ Answer(d, r.cmd, r.op, FALSE)
  /\ UNCHANGED <<phase, aged, tree, head, journal, dstate, socket, conn, daemonVars>>

At(d, op, step) ==
  /\ worker[d] # NoJob
  /\ worker[d].op = op
  /\ worker[d].at = step

\* Mutant of Finish: the worker goroutine returns after a job, receiving no more.
FinishBusy(d, ok) == Answer(d, worker[d].cmd, worker[d].op, ok) /\ UNCHANGED worker

Finish(d, ok) ==
  /\ Answer(d, worker[d].cmd, worker[d].op, ok)
  /\ worker' = [worker EXCEPT ![d] = NoJob]

\* The worker receives a job.  handlePost starts by taking the record of the
\* pre out of the in-memory maps; a stopping daemon's worker may still pick a
\* waiting job.
Take(d) ==
  /\ Alive(d)
  /\ worker[d] = NoJob
  /\ \E r \in pending :
       /\ r.to = d
       /\ pending' = pending \ {r}
       /\ worker' = [worker EXCEPT ![d] =
            [cmd |-> r.cmd, op |-> r.op, at |-> "taken", post |-> NoSHA,
             rec |-> IF r.op = "post" THEN inflight[d][r.cmd] ELSE NoRec,
             status |-> ""]]
       /\ IF r.op = "post"
          THEN /\ inflight' = [inflight EXCEPT ![d][r.cmd] = NoRec]
               /\ open' = [open EXCEPT ![d] = @ \ {r.cmd}]
          ELSE UNCHANGED <<inflight, open>>
  /\ UNCHANGED <<phase, aged, tree, head, journal, socket, conn, replies, dstate>>
-----------------------------------------------------------------------------
(* handlePre.                                                                 *)

PreSnap(d) ==
  /\ At(d, "pre", "taken")
  /\ Snap
  /\ worker' = [worker EXCEPT ![d].at = "snapped", ![d].rec =
                  [NoRec EXCEPT !.pre = tree, !.skipped = Skipped]]
  /\ UNCHANGED <<phase, aged, tree, journal, socket, conn, pending, replies, dstate,
                 inflight, open>>
PreFails(d) ==
  /\ "git" \in Faults
  /\ At(d, "pre", "taken")
  /\ SnapFails
  /\ Finish(d, FALSE)
  /\ UNCHANGED <<phase, aged, tree, journal, socket, conn, pending, dstate, inflight,
                 open>>

\* Mutant of PreMark: the pres found open are not marked in turn.
PreMarkOneWay(d) ==
  /\ At(d, "pre", "snapped")
  /\ LET c   == worker[d].cmd
         rec == [worker[d].rec EXCEPT !.overlapped = open[d] # {}]
     IN  /\ worker' = [worker EXCEPT ![d].at = "marked", ![d].rec = rec]
         /\ inflight' = [inflight EXCEPT ![d][c] = rec]
         /\ open' = [open EXCEPT ![d] = @ \cup {c}]
  /\ UNCHANGED <<phase, aged, tree, head, journal, socket, conn, pending, replies,
                 dstate>>

\* Under mu: a pre that finds others open is overlapped, and so are they.
PreMark(d) ==
  /\ At(d, "pre", "snapped")
  /\ LET c   == worker[d].cmd
         rec == [worker[d].rec EXCEPT !.overlapped = open[d] # {}]
     IN  /\ worker' = [worker EXCEPT ![d].at = "marked", ![d].rec = rec]
         /\ inflight' = [inflight EXCEPT ![d] = [e \in Cmds |->
              CASE e = c -> rec
                [] e # c /\ e \in open[d] /\ ~Nil(@[e])
                     -> [@[e] EXCEPT !.overlapped = TRUE]
                [] OTHER -> @[e]]]
         /\ open' = [open EXCEPT ![d] = @ \cup {c}]
  /\ UNCHANGED <<phase, aged, tree, head, journal, socket, conn, pending, replies,
                 dstate>>

\* Mutant of PreAppend: the pre is journalled only with its post.
PreAppendDeferred(d) ==
  /\ At(d, "pre", "marked")
  /\ Finish(d, TRUE)
  /\ UNCHANGED <<phase, aged, tree, head, journal, socket, conn, pending, dstate,
                 inflight, open>>

\* The pre half-row, at once, so that the sha survives the daemon.
PreAppend(d) ==
  /\ At(d, "pre", "marked")
  /\ AppendRow(worker[d].cmd,
               PreRow(worker[d].rec.pre, worker[d].rec.overlapped))
  /\ Finish(d, TRUE)
  /\ UNCHANGED <<phase, aged, tree, head, socket, conn, pending, dstate, inflight,
                 open>>
-----------------------------------------------------------------------------
(* handlePost.                                                                *)

\* No pre in memory: pair with the journal's, or give the command up.
PostPair(d) ==
  /\ At(d, "post", "taken")
  /\ Nil(worker[d].rec)
  /\ journal[worker[d].cmd].pre # NoSHA
  /\ worker' = [worker EXCEPT ![d].rec.pre = journal[worker[d].cmd].pre]
  /\ UNCHANGED <<shadowVars, inflight, open>>

\* Mutant of PostUnpaired: the journal is not asked for the pre.
PostUnpairedAlways(d) ==
  /\ At(d, "post", "taken")
  /\ Nil(worker[d].rec)
  /\ AppendRow(worker[d].cmd,
               [StatusRow("unprotected_error") EXCEPT !.note = "pre missing"])
  /\ Finish(d, FALSE)
  /\ UNCHANGED <<phase, aged, tree, head, socket, conn, pending, dstate, inflight,
                 open>>

\* Mutant of PostUnpaired: a late baseline is recorded as the pre.
PostUnpairedBaseline(d) ==
  /\ At(d, "post", "taken")
  /\ Nil(worker[d].rec) /\ journal[worker[d].cmd].pre = NoSHA
  /\ AppendRow(worker[d].cmd, [StatusRow("unprotected_error") EXCEPT !.pre = tree])
  /\ Snap
  /\ Finish(d, FALSE)
  /\ UNCHANGED <<phase, aged, tree, socket, conn, pending, dstate, inflight, open>>

PostUnpaired(d) ==
  /\ At(d, "post", "taken")
  /\ Nil(worker[d].rec)
  /\ journal[worker[d].cmd].pre = NoSHA
  /\ AppendRow(worker[d].cmd,
               [StatusRow("unprotected_error") EXCEPT !.note = "pre missing"])
  /\ Finish(d, FALSE)
  /\ UNCHANGED <<phase, aged, tree, head, socket, conn, pending, dstate, inflight,
                 open>>

PostSnap(d) ==
  /\ At(d, "post", "taken")
  /\ ~Nil(worker[d].rec)
  /\ Snap
  /\ worker' = [worker EXCEPT ![d].at = "snapped", ![d].post = tree,
                  ![d].status = IF worker[d].rec.skipped /\ Skipped
                                THEN "skipped_no_change" ELSE "protected"]
  /\ UNCHANGED <<phase, aged, tree, journal, socket, conn, pending, replies, dstate,
                 inflight, open>>

\* Mutant of FullRow: the flag of the record is not written with the post.
FullRowUnflagged(job) ==
  [NoEntry EXCEPT !.pre = job.rec.pre, !.post = job.post, !.status = job.status]

FullRow(job) ==
  [NoEntry EXCEPT !.pre = job.rec.pre, !.overlapped = job.rec.overlapped,
                  !.post = job.post, !.status = job.status]

PostAppend(d) ==
  /\ At(d, "post", "snapped")
  /\ AppendRow(worker[d].cmd, FullRow(worker[d]))
  /\ Finish(d, TRUE)
  /\ UNCHANGED <<phase, aged, tree, head, socket, conn, pending, dstate, inflight,
                 open>>

\* EnsureRepo fails before any row is written, Engine.Post after the pairing.
PostFails(d) ==
  /\ "git" \in Faults
  /\ At(d, "post", "taken")
  /\ \/ UNCHANGED <<head, journal>>
     \/ /\ ~Nil(worker[d].rec)
        /\ SnapFails
        /\ AppendRow(worker[d].cmd, [FullRow(worker[d]) EXCEPT
                                       !.status = "unprotected_error"])
  /\ Finish(d, FALSE)
  /\ UNCHANGED <<phase, aged, tree, socket, conn, pending, dstate, inflight, open>>
-----------------------------------------------------------------------------
\* handleWarm, the job of a session-start hook: a baseline snapshot.
Warm(d) ==
  /\ "resume" \in Faults
  /\ Alive(d)
  /\ worker[d] = NoJob
  /\ Snap
  /\ UNCHANGED <<phase, aged, tree, journal, dstate, socket, conn, pending, replies,
                 daemonVars>>

\* Mutant of Sweep: the orphan gets its row, and stays open.
SweepStaysOpen(d, c) ==
  /\ dstate[d] = "serving"
  /\ c \in open[d]
  /\ c \in aged
  /\ ~inflight[d][c].swept
  /\ inflight' = [inflight EXCEPT ![d][c].swept = TRUE]
  /\ AppendRow(c, [NoEntry EXCEPT !.note = "interrupted"])
  /\ UNCHANGED <<phase, aged, tree, head, socket, conn, pending, replies, dstate,
                 worker, open>>

\* sweepOpen: an open pre past the stale TTL stops marking later commands.  Its
\* record stays, so a late post still completes the entry.
Sweep(d, c) ==
  /\ dstate[d] = "serving"
  /\ c \in open[d]
  /\ c \in aged
  /\ open' = [open EXCEPT ![d] = @ \ {c}]
  /\ IF Nil(inflight[d][c]) \/ inflight[d][c].swept
     THEN UNCHANGED <<inflight, journal>>
     ELSE /\ inflight' = [inflight EXCEPT ![d][c].swept = TRUE]
          /\ AppendRow(c, [NoEntry EXCEPT !.note = "interrupted"])
  /\ UNCHANGED <<phase, aged, tree, head, socket, conn, pending, replies, dstate,
                 worker>>

WorkerStep(d) ==
  \/ Take(d)
  \/ PreSnap(d) \/ PreFails(d) \/ PreMark(d) \/ PreAppend(d)
  \/ PostPair(d) \/ PostUnpaired(d) \/ PostSnap(d) \/ PostAppend(d) \/ PostFails(d)

DaemonStep(d) ==
  \/ Listen(d) \/ Stop(d) \/ Flush(d) \/ Exit(d) \/ Crash(d) \/ Refuse(d)
  \/ WorkerStep(d) \/ Warm(d) \/ \E c \in Cmds : Sweep(d, c)
=============================================================================
