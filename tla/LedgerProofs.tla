---------------------------- MODULE LedgerProofs ----------------------------
(* Session implements Ledger, and a protected entry stays protected: proved     *)
(* for any commands, daemons and faults.                                      *)
EXTENDS SessionProofs

(* The rows, more closely than ClientLedger and DaemonLedger say.             *)

\* A hook that writes directly journals a post only after the pre of its command.
LEMMA ClientPosts ==
  ASSUME TypeOK, Locals, NEW c \in Cmds, ClientNext(c)
  PROVE  journal'[c].post # journal[c].post => journal[c].pre # NoSHA
<1> USE DEF TypeOK, ShadowTypeOK, ClientTypeOK
<1>1. CASE UNCHANGED journal
  BY <1>1
<1>2. CASE DegradedMark(c)
  <2>1. /\ [NoEntry EXCEPT !.overlapped = TRUE] \in Entry
        /\ [NoEntry EXCEPT !.overlapped = TRUE].pre = NoSHA
        /\ [NoEntry EXCEPT !.overlapped = TRUE].post = NoSHA
        /\ [NoEntry EXCEPT !.overlapped = TRUE].status = ""
    BY RowTypes DEF NoEntry
  <2> QED
    BY <1>2, <2>1, AppendAllFacts DEF DegradedMark
<1>3. ASSUME NEW row \in Entry, AppendRow(c, row), row.post = NoSHA
      PROVE  journal'[c].post = journal[c].post
  BY <1>3, AppendFacts DEF Later
<1>4. CASE LockTimeout(c)
  <2>1. [StatusRow("unprotected_timeout") EXCEPT !.note = "lock timeout"] \in Entry
    BY RowTypes DEF Statuses, Notes
  <2> QED
    BY <1>3, <1>4, <2>1 DEF LockTimeout, StatusRow, NoEntry
<1>5. CASE DegradedFails(c) \/ DegradedPostSnap(c)
  <2>1. StatusRow("unprotected_error") \in Entry
    BY RowTypes DEF Statuses
  <2>2. StatusRow("unprotected_error").post = NoSHA
    BY DEF StatusRow, NoEntry
  <2> QED
    BY <1>1, <1>3, <1>5, <2>1, <2>2 DEF DegradedFails, DegradedPostSnap
<1>6. CASE DegradedPreAppend(c)
  <2>1. PreRow(local[c].sha, local[c].overlapped) \in Entry
    BY RowTypes DEF Local
  <2>2. PreRow(local[c].sha, local[c].overlapped).post = NoSHA
    BY DEF PreRow, NoEntry
  <2> QED
    BY <1>3, <1>6, <2>1, <2>2 DEF DegradedPreAppend
<1>7. CASE DegradedPostAppend(c)
  BY <1>7 DEF DegradedPostAppend, Locals
<1> QED
  BY <1>1, <1>2, <1>4, <1>5, <1>6, <1>7 DEF ClientNext, ClientStep, Expire, Dial, Receive,
     ConnFails, Spawn, SpawnLoses, SpawnFails, RedialGivesUp, Acquire, DegradedPreSnap,
     DegradedPair, shadowVars

\* A daemon's step leaves a row alone, but for the command of the job at hand.
LEMMA DaemonRows ==
  ASSUME TypeOK, Jobs, NEW d \in Daemons, DaemonNext(d), NEW c \in Cmds
  PROVE  /\ RowKept(c) \/ JobOf(d, c, "pre") \/ JobOf(d, c, "post")
         /\ journal'[c].post # journal[c].post =>
              JobOf(d, c, "post") /\ worker[d].rec.pre # NoSHA
<1> DEFINE Goal ==
      /\ RowKept(c) \/ JobOf(d, c, "pre") \/ JobOf(d, c, "post")
      /\ journal'[c].post # journal[c].post =>
           JobOf(d, c, "post") /\ worker[d].rec.pre # NoSHA
<1> USE DEF TypeOK, ShadowTypeOK, DaemonTypeOK
<1>1. CASE UNCHANGED journal
  BY <1>1 DEF RowKept
<1>2. CASE Flush(d) \/ \E e \in Cmds : Sweep(d, e)
  <2>1. /\ [NoEntry EXCEPT !.note = "interrupted"] \in Entry
        /\ [NoEntry EXCEPT !.note = "interrupted"].pre = NoSHA
        /\ [NoEntry EXCEPT !.note = "interrupted"].post = NoSHA
        /\ [NoEntry EXCEPT !.note = "interrupted"].status = ""
    BY RowTypes DEF Notes, NoEntry
  <2>2. CASE Flush(d)
    BY <2>1, <2>2, AppendAllFacts DEF Flush, RowKept
  <2>3. ASSUME NEW e \in Cmds, Sweep(d, e) PROVE Goal
    <3>1. CASE AppendRow(e, [NoEntry EXCEPT !.note = "interrupted"])
      BY <2>1, <3>1, AppendFacts DEF RowKept, Later
    <3> QED
      BY <1>1, <2>3, <3>1 DEF Sweep
  <2> QED
    BY <1>2, <2>2, <2>3
<1>3. ASSUME worker[d] \in Job, NEW row \in Entry, AppendRow(worker[d].cmd, row),
             row.post = NoSHA \/ (worker[d].op = "post" /\ worker[d].rec.pre # NoSHA)
      PROVE  Goal
  <2>1. worker[d].cmd \in Cmds /\ worker[d] # NoJob /\ worker[d].op \in {"pre", "post"}
    <3>1. worker[d].at \in Steps /\ worker[d].cmd \in Cmds /\ worker[d].op \in Ops
      BY <1>3 DEF Job
    <3>2. NoJob.at \notin Steps
      BY DEF NoJob, Steps
    <3> QED
      BY <3>1, <3>2 DEF Ops
  <2>2. CASE c = worker[d].cmd
    BY <1>3, <2>1, <2>2, AppendFacts DEF Later, JobOf
  <2>3. CASE c # worker[d].cmd
    BY <1>3, <2>1, <2>3, AppendFacts DEF RowKept
  <2> QED
    BY <2>2, <2>3
<1>4. CASE PreAppend(d)
  <2>1. worker[d] \in Job
    BY <1>4, AtJob DEF PreAppend
  <2> QED
    BY <1>3, <1>4, <2>1, JobRows DEF PreAppend
<1>5. CASE PostUnpaired(d)
  <2> DEFINE row == [StatusRow("unprotected_error") EXCEPT !.note = "pre missing"]
  <2>1. row \in Entry /\ row.post = NoSHA
    BY RowTypes DEF Statuses, Notes, StatusRow, NoEntry
  <2> QED
    BY <1>3, <1>5, <2>1, AtJob DEF PostUnpaired
<1>6. CASE PostAppend(d)
  <2>1. worker[d] \in Job /\ worker[d].op = "post" /\ worker[d].at = "snapped"
    BY <1>6, AtJob DEF PostAppend
  <2>2. worker[d].rec.pre # NoSHA
    BY <1>6, <2>1 DEF PostAppend, At, Jobs
  <2> QED
    BY <1>3, <1>6, <2>1, <2>2, JobRowTypes DEF PostAppend
<1>7. CASE PostFails(d)
  <2>1. worker[d] \in Job /\ worker[d].op = "post"
    BY <1>7, AtJob DEF PostFails
  <2>2. CASE ~Nil(worker[d].rec)
    BY <1>1, <1>3, <1>7, <2>1, <2>2, JobRowTypes DEF PostFails, Nil
  <2>3. CASE Nil(worker[d].rec)
    BY <1>1, <1>7, <2>3 DEF PostFails
  <2> QED
    BY <2>2, <2>3
<1> QED
  BY <1>1, <1>2, <1>4, <1>5, <1>6, <1>7 DEF DaemonNext, DaemonStep, WorkerStep, Listen,
     Stop, Exit, Crash, Dies, Refuse, Take, PreSnap, PreFails, PreMark, PostPair,
     PostSnap, Warm, shadowVars
-----------------------------------------------------------------------------
(* The two invariants Ledger rests on beside SessionInv.                      *)

\* What a daemon remembers of a pre is journalled, or about to be.
LEMMA BackedStep ==
  ASSUME TypeOK, HookPhase, Jobs, Backed, [Next]_vars
  PROVE  Backed'
<1> USE DEF TypeOK, DaemonTypeOK
<1> DEFINE Mem(pre, job, e, old) ==
      /\ pre # NoSHA =>
           \/ old # NoSHA
           \/ job # NoJob /\ job.cmd = e /\ job.op = "pre" /\ job.at = "marked"
      /\ job # NoJob /\ job.cmd = e /\ job.op = "post" /\ job.rec.pre # NoSHA
           => old # NoSHA
<1>1. \A d \in Daemons, e \in Cmds :
        Mem(inflight[d][e].pre, worker[d], e, journal[e].pre)
  BY DEF Backed, JobOf
<1>2. ASSUME \A d \in Daemons, e \in Cmds :
               Mem(inflight'[d][e].pre, worker'[d], e, journal'[e].pre)
      PROVE  Backed'
  BY <1>2 DEF Backed, JobOf
<1>3. \A e \in Cmds : journal[e].pre # NoSHA => journal'[e].pre # NoSHA
  BY AllGrow DEF Grows
<1>4. CASE UNCHANGED daemonVars
  <2>1. \A d \in Daemons, e \in Cmds :
          Mem(inflight'[d][e].pre, worker'[d], e, journal'[e].pre)
    BY <1>1, <1>3, <1>4 DEF daemonVars
  <2> QED
    BY <1>2, <2>1
<1>5. ASSUME NEW d \in Daemons, DaemonNext(d) PROVE Backed'
  <2>1. SUFFICES ASSUME NEW e \in Cmds
                 PROVE  Mem(inflight'[d][e].pre, worker'[d], e, journal'[e].pre)
    <3>1. ASSUME NEW b \in Daemons \ {d}, NEW e \in Cmds
          PROVE  Mem(inflight'[b][e].pre, worker'[b], e, journal'[e].pre)
      BY <1>1, <1>3, <1>5, <3>1, DaemonMoves
    <3> QED
      BY <1>2, <2>1, <3>1
  <2>2. Mem(inflight[d][e].pre, worker[d], e, journal[e].pre)
    BY <1>1
  <2>3. journal[e].pre # NoSHA => journal'[e].pre # NoSHA
    BY <1>3
  <2>4. CASE Exit(d) \/ Crash(d)
    <3>1. inflight'[d][e] = NoRec /\ worker'[d] = NoJob
      BY <2>4 DEF Exit, Crash, Dies
    <3> QED
      BY <3>1 DEF NoRec
  <2>5. CASE Take(d)
    <3>1. PICK r \in pending :
            /\ worker' = [worker EXCEPT ![d] =
                 [cmd |-> r.cmd, op |-> r.op, at |-> "taken", post |-> NoSHA,
                  rec |-> IF r.op = "post" THEN inflight[d][r.cmd] ELSE NoRec,
                  status |-> ""]]
            /\ IF r.op = "post"
               THEN inflight' = [inflight EXCEPT ![d][r.cmd] = NoRec]
               ELSE UNCHANGED inflight
      BY <2>5 DEF Take
    <3>2. worker[d] = NoJob
      BY <2>5 DEF Take
    <3>3. inflight[d][e].pre # NoSHA => journal'[e].pre # NoSHA
      BY <2>2, <2>3, <3>2
    <3>4. r.cmd \in Cmds
      BY DEF ShadowTypeOK, Request
    <3>5. inflight'[d][e].pre # NoSHA => inflight[d][e].pre # NoSHA
      <4>1. inflight' = [inflight EXCEPT ![d] = [@ EXCEPT ![r.cmd] = NoRec]]
            \/ inflight' = inflight
        BY <3>1
      <4>2. inflight'[d][e] = NoRec \/ inflight'[d][e] = inflight[d][e]
        BY <3>4, <4>1
      <4> QED
        BY <4>2 DEF NoRec
    <3>6. worker'[d].cmd = r.cmd /\ worker'[d].op = r.op
          /\ (r.op = "post" => worker'[d].rec = inflight[d][r.cmd])
      BY <3>1
    <3> QED
      BY <3>3, <3>5, <3>6
  <2>6. CASE PreSnap(d)
    <3>1. worker[d] \in Job /\ worker[d].op = "pre" /\ worker[d].at = "taken"
      BY <2>6, AtJob DEF PreSnap
    <3>2. worker'[d].op = "pre" /\ inflight'[d][e] = inflight[d][e]
      BY <2>6, <3>1 DEF PreSnap, Job
    <3> QED
      BY <2>2, <2>3, <3>1, <3>2
  <2>7. CASE PreMark(d)
    <3>1. worker[d] \in Job /\ worker[d].at = "snapped" /\ worker[d].op = "pre"
      BY <2>7, AtJob DEF PreMark
    <3>2. worker'[d].op = "pre" /\ worker'[d].at = "marked" /\ worker'[d].cmd = worker[d].cmd
      BY <2>7, <3>1 DEF PreMark, Job
    <3>3. worker'[d] # NoJob
      BY <3>2 DEF NoJob
    <3>4. CASE e # worker[d].cmd
      <4>1. inflight[d][e] \in Rec
        OBVIOUS
      <4>2. \/ inflight'[d][e] = inflight[d][e]
            \/ inflight'[d][e] = [inflight[d][e] EXCEPT !.overlapped = TRUE]
        BY <2>7, <3>4 DEF PreMark
      <4>3. inflight'[d][e].pre = inflight[d][e].pre
        BY <4>1, <4>2 DEF Rec
      <4> QED
        BY <2>2, <2>3, <3>1, <3>2, <4>3
    <3> QED
      BY <3>2, <3>3, <3>4
  <2>8. CASE PreAppend(d)
    <3>1. worker[d] \in Job /\ worker[d].at = "marked" /\ worker[d].op = "pre"
          /\ worker[d] # NoJob /\ worker[d].cmd \in Cmds
      BY <2>8, AtJob DEF PreAppend, Job, At
    <3>2. worker[d].rec.pre # NoSHA
      BY <3>1 DEF Jobs
    <3>3. worker'[d] = NoJob /\ inflight'[d][e] = inflight[d][e]
      BY <2>8 DEF PreAppend, Finish
    <3>4. CASE e = worker[d].cmd
      <4> DEFINE row == PreRow(worker[d].rec.pre, worker[d].rec.overlapped)
      <4>1. row \in Entry /\ row.pre = worker[d].rec.pre
        BY <3>1, JobRows
      <4>2. AppendRow(e, row)
        BY <2>8, <3>4 DEF PreAppend
      <4> HIDE DEF row
      <4>3. journal'[e].pre = Later(NoSHA, journal[e].pre, row.pre)
        BY <4>1, <4>2, AppendFacts DEF ShadowTypeOK
      <4>4. journal'[e].pre # NoSHA
        BY <3>2, <4>1, <4>3 DEF Later
      <4> QED
        BY <3>3, <4>4
    <3>5. CASE e # worker[d].cmd
      BY <2>2, <2>3, <3>3, <3>5
    <3> QED
      BY <3>4, <3>5
  <2>9. CASE PreFails(d) \/ PostUnpaired(d) \/ PostAppend(d) \/ PostFails(d)
    <3>1. worker'[d] = NoJob /\ inflight'[d][e] = inflight[d][e] /\ worker[d].at # "marked"
      BY <2>9 DEF PreFails, PostUnpaired, PostAppend, PostFails, Finish, At
    <3> QED
      BY <2>2, <2>3, <3>1
  <2>10. CASE PostPair(d)
    <3>1. worker[d] \in Job /\ worker[d].at = "taken" /\ worker[d].op = "post"
      BY <2>10, AtJob DEF PostPair
    <3>2. /\ worker'[d].cmd = worker[d].cmd /\ worker'[d].op = "post"
          /\ journal[worker[d].cmd].pre # NoSHA
          /\ inflight'[d][e] = inflight[d][e]
      BY <2>10, <3>1 DEF PostPair, Job
    <3> QED
      BY <2>2, <2>3, <3>1, <3>2
  <2>11. CASE PostSnap(d)
    <3>1. worker[d] \in Job /\ worker[d].at = "taken" /\ worker[d].op = "post"
          /\ worker[d] # NoJob
      BY <2>11, AtJob DEF PostSnap, At
    <3>2. /\ worker'[d].cmd = worker[d].cmd /\ worker'[d].op = "post"
          /\ worker'[d].rec = worker[d].rec
          /\ inflight'[d][e] = inflight[d][e]
      BY <2>11, <3>1 DEF PostSnap, Job
    <3> QED
      BY <2>2, <2>3, <3>1, <3>2
  <2>12. ASSUME NEW c \in Cmds, Sweep(d, c)
         PROVE  Mem(inflight'[d][e].pre, worker'[d], e, journal'[e].pre)
    <3>1. worker'[d] = worker[d]
      BY <2>12 DEF Sweep
    <3>2. inflight[d][c] \in Rec
      OBVIOUS
    <3> DEFINE rec == [inflight[d][c] EXCEPT !.swept = TRUE]
    <3>3. rec.pre = inflight[d][c].pre
      BY <3>2 DEF Rec
    <3>4. \/ inflight' = inflight
          \/ inflight' = [inflight EXCEPT ![d] = [@ EXCEPT ![c] = rec]]
      BY <2>12 DEF Sweep
    <3> HIDE DEF rec
    <3>5. inflight'[d][e] \in {inflight[d][e], IF e = c THEN rec ELSE inflight[d][e]}
      BY <3>4
    <3>6. inflight'[d][e].pre = inflight[d][e].pre
      BY <3>3, <3>5
    <3> QED
      BY <2>2, <2>3, <3>1, <3>6
  <2>13. CASE UNCHANGED <<inflight, worker>>
    BY <2>2, <2>3, <2>13
  <2> QED
    BY <1>5, <2>4, <2>5, <2>6, <2>7, <2>8, <2>9, <2>10, <2>11, <2>12, <2>13
    DEF DaemonNext, DaemonStep, WorkerStep, Listen, Stop, Flush, Refuse, Warm, daemonVars
<1> QED
  BY <1>4, <1>5, CommandFrame, ClientFrame DEF Next, Over, vars

\* A post is journalled only where its pre is.
LEMMA PostsJoin ==
  ASSUME TypeOK, HookPhase, Jobs, Locals, Backed, [Next]_vars, NEW c \in Cmds
  PROVE  journal'[c].post # journal[c].post => journal[c].pre # NoSHA
<1>1. CASE UNCHANGED vars
  BY <1>1 DEF vars, shadowVars
<1>2. ASSUME NEW e \in Cmds, CommandStep(e)
      PROVE  journal'[c].post = journal[c].post
  BY <1>2, CommandFrame
<1>3. ASSUME NEW e \in Cmds, ClientNext(e)
      PROVE  journal'[c].post # journal[c].post => journal[c].pre # NoSHA
  <2>1. CASE e = c
    BY <1>3, <2>1, ClientPosts
  <2>2. CASE e # c
    BY <1>3, <2>2, ClientLedger DEF RowKept
  <2> QED
    BY <2>1, <2>2
<1>4. ASSUME NEW d \in Daemons, DaemonNext(d)
      PROVE  journal'[c].post # journal[c].post => journal[c].pre # NoSHA
  BY <1>4, DaemonRows DEF Backed
<1> QED
  BY <1>1, <1>2, <1>3, <1>4 DEF Next, Over

\* PostLater is kept.
LEMMA PostLaterStep ==
  ASSUME TypeOK, HookPhase, Jobs, Locals, PostLater, Backed, [Next]_vars
  PROVE  PostLater'
<1>1. ASSUME NEW c \in Cmds
      PROVE  journal'[c].post # NoSHA => journal'[c].pre # NoSHA
  BY AllGrow, PostsJoin DEF Grows, PostLater
<1> QED
  BY <1>1 DEF PostLater
-----------------------------------------------------------------------------
(* The steps of Ledger.                                                       *)

\* Acknowledgements are not taken back.
LEMMA AckedStays ==
  ASSUME TypeOK, [Next]_vars
  PROVE  acked \subseteq acked'
<1>1. ASSUME NEW c \in Cmds, ClientNext(c) PROVE acked \subseteq acked'
  BY <1>1 DEF ClientNext, ClientStep, Expire, Dial, Receive, ConnFails, Spawn, SpawnLoses,
     SpawnFails, RedialGivesUp, Acquire, LockTimeout, DegradedFails, DegradedPreSnap,
     DegradedMark, DegradedPreAppend, DegradedPair, DegradedPostSnap,
     DegradedPostAppend, HookEnds
<1> QED
  BY <1>1, CommandFrame, DaemonFrame DEF Next, Over, vars, clientVars

\* How the record of a command may move.
Moves(c) ==
  \/ Recorded(c)' = Recorded(c)
  \/ Recorded(c) = "none" /\ Recorded(c)' = "pre"
  \/ Recorded(c) = "pre" /\ Recorded(c)' = "whole"
  \/ Recorded(c) = "whole" /\ <<c, "post">> \notin acked /\ Recorded(c)' = "pre"

\* One command's record moves as Ledger lets it.
LEMMA RecordsMove ==
  ASSUME SessionInv, SessionInv', Backed, PostLater, [Next]_vars, NEW c \in Cmds
  PROVE  Moves(c)
<1>1. TypeOK /\ HookPhase /\ Jobs /\ Locals /\ AckedDurable'
  BY DEF SessionInv
<1>2. journal[c].pre # NoSHA => journal'[c].pre # NoSHA
  BY <1>1, AllGrow DEF Grows
<1>3. CASE journal[c].pre = NoSHA
  <2>1. journal[c].post = NoSHA /\ journal'[c].post = NoSHA
    BY <1>1, <1>3, PostsJoin DEF PostLater
  <2>2. ~Durable(c, "post") /\ ~Durable(c, "pre") /\ ~Durable(c, "post")'
    BY <1>3, <2>1 DEF Durable, Complete
  <2> QED
    BY <2>2 DEF Moves, Recorded
<1>4. CASE journal[c].pre # NoSHA
  <2>1. Durable(c, "pre") /\ Durable(c, "pre")'
    BY <1>2, <1>4 DEF Durable
  <2>2. <<c, "post">> \in acked => Durable(c, "post")'
    <3>1. ASSUME <<c, "post">> \in acked' PROVE Durable(c, "post")'
      <4>1. \A h \in acked' : Durable(h[1], h[2])'
        BY <1>1 DEF AckedDurable
      <4> QED
        BY <3>1, <4>1
    <3> QED
      BY <1>1, <3>1, AckedStays
  <2> QED
    BY <2>1, <2>2 DEF Moves, Recorded
<1> QED
  BY <1>3, <1>4

\* A row that keeps its half-rows keeps its record.
LEMMA KeptIsRecorded ==
  ASSUME NEW c \in Cmds, RowKept(c)
  PROVE  Recorded(c)' = Recorded(c)
  BY DEF RowKept, Recorded, Durable, Complete

Record == [c \in Cmds |-> Recorded(c)]

\* When one command's record moves and no other's, Ledger's does.
LEMMA OneMoves ==
  ASSUME NEW c \in Cmds, Moves(c), \A e \in Cmds \ {c} : Recorded(e)' = Recorded(e)
  PROVE  Promise!Changes(c) \/ UNCHANGED Record
<1>1. CASE Recorded(c)' = Recorded(c)
  BY <1>1 DEF Record
<1>2. CASE Recorded(c)' # Recorded(c)
  <2>1. Record' = [Record EXCEPT ![c] = Recorded(c)']
    BY DEF Record
  <2>2. Record[c] = Recorded(c)
    BY DEF Record
  <2> QED
    BY <1>2, <2>1, <2>2 DEF Moves, Promise!Changes, Record
<1> QED
  BY <1>1, <1>2

\* A hook's step ends the hook or leaves the agent where it is.
LEMMA HookEndsOrGoesOn ==
  ASSUME TypeOK, NEW c \in Cmds, ClientNext(c)
  PROVE  UNCHANGED <<phase, acked>> \/ \E ok \in BOOLEAN : HookEnds(c, ok)
<1>1. CASE Receive(c)
  BY <1>1 DEF Receive, Answers, TypeOK, ShadowTypeOK, Reply
<1>2. CASE LockTimeout(c) \/ DegradedFails(c) \/ DegradedPreAppend(c) \/ DegradedPostAppend(c)
  BY <1>2 DEF LockTimeout, DegradedFails, DegradedPreAppend, DegradedPostAppend
<1>3. CASE DegradedPostSnap(c)
  BY <1>3 DEF DegradedPostSnap
<1> QED
  BY <1>1, <1>2, <1>3 DEF ClientNext, ClientStep, Expire, Dial, ConnFails, Spawn,
     SpawnLoses, SpawnFails, RedialGivesUp, Acquire, DegradedPreSnap, DegradedMark,
     DegradedPair, shadowVars

\* A step of a hook is a step of Ledger, or none.
LEMMA HookLedger ==
  ASSUME SessionInv, SessionInv', Backed, PostLater, [Next]_vars,
         NEW c \in Cmds, ClientNext(c)
  PROVE  [Promise!LedgerNext]_(Promise!ledgerVars)
<1>1. TypeOK /\ HookPhase /\ Waits /\ AckedDurable'
  BY DEF SessionInv
<1>2. \A e \in Cmds \ {c} : Recorded(e)' = Recorded(e)
  BY <1>1, ClientLedger, KeptIsRecorded
<1>3. Moves(c)
  BY RecordsMove
<1>4. Promise!Changes(c) \/ UNCHANGED Record
  BY <1>2, <1>3, OneMoves
<1>5. CASE UNCHANGED <<phase, acked>>
  BY <1>4, <1>5 DEF Promise!LedgerNext, Promise!Writes, Promise!ledgerVars, Record
<1>6. ASSUME NEW ok \in BOOLEAN, HookEnds(c, ok)
      PROVE  Promise!Promises(c) \/ Promise!GivesUp(c)
  <2>1. phase[c] \in Ops /\ phase \in [Cmds -> Phases]
    BY <1>1, HookMoves DEF TypeOK, ShadowTypeOK
  <2>2. Promise!Returns(c)
    BY <1>6, <2>1 DEF Promise!Returns, HookEnds, Ops
  <2>3. CASE ok
    <3>1. acked' = acked \cup {<<c, phase[c]>>}
      BY <1>6, <2>3 DEF HookEnds, Hook
    <3>2. ASSUME NEW op \in Ops, op = phase[c] PROVE Durable(c, op)'
      <4>1. \A h \in acked' : Durable(h[1], h[2])'
        BY <1>1 DEF AckedDurable
      <4>2. <<c, op>> \in acked'
        BY <3>1, <3>2
      <4> QED
        BY <4>1, <4>2
    <3>3. Promise!Holds(Record'[c], phase[c])
      <4>1. Record'[c] = Recorded(c)'
        BY DEF Record
      <4>2. CASE phase[c] = "pre"
        <5>1. Durable(c, "pre")'
          BY <3>2, <4>2 DEF Ops
        <5>2. Recorded(c)' # "none"
          BY <5>1 DEF Recorded
        <5> QED
          BY <4>1, <4>2, <5>2 DEF Promise!Holds
      <4>3. CASE phase[c] = "post"
        <5>1. Durable(c, "post")'
          BY <3>2, <4>3 DEF Ops
        <5>2. Recorded(c)' = "whole"
          BY <5>1 DEF Recorded
        <5> QED
          BY <4>1, <4>3, <5>2 DEF Promise!Holds
      <4> QED
        BY <2>1, <4>2, <4>3 DEF Ops
    <3> QED
      BY <1>4, <2>2, <3>1, <3>3 DEF Promise!Promises, Record
  <2>4. CASE ~ok
    <3>1. acked' = acked
      BY <1>6, <2>4 DEF HookEnds
    <3> QED
      BY <1>4, <2>2, <3>1 DEF Promise!GivesUp, Record
  <2> QED
    BY <2>3, <2>4
<1> QED
  BY <1>1, <1>5, <1>6, HookEndsOrGoesOn DEF Promise!LedgerNext

\* So is a step of a daemon, ...
LEMMA DaemonWrites ==
  ASSUME SessionInv, SessionInv', Backed, PostLater, [Next]_vars,
         NEW d \in Daemons, DaemonNext(d)
  PROVE  [Promise!LedgerNext]_(Promise!ledgerVars)
<1>1. TypeOK /\ Jobs
  BY DEF SessionInv
<1>2. UNCHANGED <<phase, acked>>
  BY DaemonFrame DEF clientVars
<1>3. ASSUME NEW c \in Cmds, ~RowKept(c)
      PROVE  [Promise!LedgerNext]_(Promise!ledgerVars)
  <2>1. ASSUME NEW e \in Cmds \ {c} PROVE Recorded(e)' = Recorded(e)
    <3>1. JobOf(d, c, "pre") \/ JobOf(d, c, "post")
      BY <1>1, <1>3, DaemonRows
    <3>2. ~JobOf(d, e, "pre") /\ ~JobOf(d, e, "post")
      BY <3>1 DEF JobOf
    <3>3. RowKept(e)
      BY <1>1, <3>2, DaemonRows
    <3> QED
      BY <3>3, KeptIsRecorded
  <2>2. Moves(c)
    BY RecordsMove
  <2>3. Promise!Changes(c) \/ UNCHANGED Record
    BY <2>1, <2>2, OneMoves
  <2> QED
    BY <1>2, <2>3 DEF Promise!LedgerNext, Promise!Writes, Promise!ledgerVars, Record
<1>4. CASE \A c \in Cmds : RowKept(c)
  <2>1. Record' = Record
    BY <1>4, KeptIsRecorded DEF Record
  <2> QED
    BY <1>2, <2>1 DEF Promise!ledgerVars, Record
<1> QED
  BY <1>3, <1>4

\* ... and a step of the agent or of the command itself, ...
LEMMA CommandAsks ==
  ASSUME TypeOK, NEW c \in Cmds, CommandStep(c)
  PROVE  [Promise!LedgerNext]_(Promise!ledgerVars)
<1>1. acked' = acked /\ journal' = journal
  BY CommandFrame
<1>2. Record' = Record
  <2>1. \A e \in Cmds : Recorded(e)' = Recorded(e)
    BY <1>1 DEF Recorded, Durable, Complete
  <2> QED
    BY <2>1 DEF Record
<1>3. CASE PreHook(c) \/ PostHook(c)
  <2>1. Promise!Asks(c)
    BY <1>1, <1>2, <1>3 DEF PreHook, PostHook, HookStarts, Promise!Asks, Record
  <2> QED
    BY <2>1 DEF Promise!LedgerNext
<1>4. CASE Esc(c)
  <2>1. Promise!Aborts(c)
    BY <1>1, <1>2, <1>4 DEF Esc, Promise!Aborts, Record
  <2> QED
    BY <2>1 DEF Promise!LedgerNext
<1>5. CASE Write(c) \/ Ages(c)
  BY <1>1, <1>2, <1>5 DEF Write, Ages, Promise!ledgerVars, Record
<1> QED
  BY <1>3, <1>4, <1>5 DEF CommandStep

\* ... and so every step.
LEMMA LedgerStep ==
  ASSUME SessionInv, SessionInv', Backed, PostLater, [Next]_vars
  PROVE  [Promise!LedgerNext]_(Promise!ledgerVars)
<1>1. CASE UNCHANGED vars
  <2>1. \A e \in Cmds : Recorded(e)' = Recorded(e)
    BY <1>1 DEF Recorded, Durable, Complete, vars, shadowVars
  <2> QED
    BY <1>1, <2>1 DEF vars, shadowVars, clientVars, Promise!ledgerVars
<1>2. TypeOK
  BY DEF SessionInv
<1> QED
  BY <1>1, <1>2, CommandAsks, HookLedger, DaemonWrites DEF Next, Over

\* The start is one of Ledger.
LEMMA LedgerStarts ==
  ASSUME Init
  PROVE  Promise!LedgerInit /\ Backed /\ PostLater
<1> USE DEF Init, ShadowInit, DaemonInit, ClientInit
<1>1. \A c \in Cmds : Recorded(c) = "none"
  BY NoEntryFields DEF Recorded, Durable, Complete
<1>2. Backed
  BY DEF Backed, JobOf, NoRec
<1>3. PostLater
  BY NoEntryFields DEF PostLater
<1> QED
  BY <1>1, <1>2, <1>3 DEF Promise!LedgerInit

\* Backed and PostLater always hold.
LEMMA BackedHolds == Spec => [](Backed /\ PostLater)
<1>1. SessionInv /\ Backed /\ PostLater /\ [Next]_vars => (Backed /\ PostLater)'
  BY BackedStep, PostLaterStep DEF SessionInv
<1> QED
  BY <1>1, LedgerStarts, InvHolds, PTL DEF Spec

\* Every behaviour of hooks, daemons, journal and faults is one that Ledger allows, for
\* any number of commands and daemon processes: the agent is answered once per hook,
\* a promise is about what the journal then holds, and no later row takes it back
\* (Client.Snapshot, handlePre, handlePost and the degraded path together).
THEOREM KeepsItsPromises == Spec => KeepsPromises
<1>1. SessionInv /\ SessionInv' /\ Backed /\ PostLater /\ [Next]_vars
        => [Promise!LedgerNext]_(Promise!ledgerVars)
  BY LedgerStep
<1>2. Init => Promise!LedgerInit
  BY LedgerStarts
<1> QED
  BY <1>1, <1>2, InvHolds, BackedHolds, PTL
  DEF Spec, KeepsPromises, Promise!LedgerSpec
-----------------------------------------------------------------------------
(* A protected entry stays protected.                                         *)

\* Lifetimes is kept: a daemon's memory dies with it.
LEMMA LifetimesStep ==
  ASSUME TypeOK, Holders, Lifetimes, [Next]_vars
  PROVE  Lifetimes'
<1> USE DEF TypeOK, ShadowTypeOK, DaemonTypeOK
<1>1. CASE UNCHANGED vars
  BY <1>1 DEF vars, shadowVars, daemonVars, Lifetimes, Nil
<1>2. ASSUME NEW c \in Cmds, CommandStep(c) PROVE Lifetimes'
  BY <1>2, CommandFrame DEF Lifetimes, Nil, daemonVars
<1>3. ASSUME NEW c \in Cmds, ClientNext(c) PROVE Lifetimes'
  <2>1. UNCHANGED <<inflight, socket>>
    BY <1>3, ClientFrame DEF daemonVars, ClientNext, ClientStep, Expire, Dial, Receive,
       ConnFails, Spawn, SpawnLoses, SpawnFails, RedialGivesUp, Acquire, LockTimeout,
       DegradedFails, DegradedPreSnap, DegradedMark, DegradedPreAppend, DegradedPair,
       DegradedPostSnap, DegradedPostAppend, shadowVars
  <2>2. \A d \in Daemons :
          \/ dstate'[d] = dstate[d]
          \/ dstate[d] = "unspawned" /\ dstate'[d] = "starting"
    BY <1>3 DEF ClientNext, ClientStep, Expire, Dial, Receive,
       ConnFails, Spawn, SpawnLoses, SpawnFails, RedialGivesUp, Acquire, LockTimeout,
       DegradedFails, DegradedPreSnap, DegradedMark, DegradedPreAppend, DegradedPair,
       DegradedPostSnap, DegradedPostAppend, shadowVars
  <2> QED
    BY <2>1, <2>2 DEF Lifetimes, Nil
<1>4. ASSUME NEW d \in Daemons, DaemonNext(d) PROVE Lifetimes'
  <2>1. \A e \in Daemons \ {d} : inflight'[e] = inflight[e] /\ dstate'[e] = dstate[e]
    <3>1. \/ UNCHANGED dstate
          \/ \E x \in {"serving", "dead", "stopping", "flushed"} :
               dstate' = [dstate EXCEPT ![d] = x]
      <4>1. CASE Listen(d) \/ Stop(d) \/ Flush(d) \/ Exit(d) \/ Crash(d)
        BY <4>1 DEF Listen, Stop, Flush, Exit, Crash, Dies
      <4> QED
        BY <1>4, <4>1 DEF DaemonNext, DaemonStep, WorkerStep, Refuse, Take, PreSnap,
           PreFails, PreMark, PreAppend, PostPair, PostUnpaired, PostSnap, PostAppend,
           PostFails, Warm, Sweep, shadowVars
    <3> QED
      BY <1>4, <3>1, DaemonMoves
  <2>2. CASE Listen(d)
    <3>1. /\ dstate[d] = "starting" /\ UNCHANGED inflight
          /\ \/ socket = NoDaemon /\ socket' = d /\ dstate'[d] = "serving"
             \/ socket' = socket /\ dstate'[d] = "dead"
      BY <2>2 DEF Listen
    <3>2. ASSUME NEW e \in Daemons, dstate'[e] = "serving" PROVE socket' = e
      <4>1. e # d => dstate[e] = "serving" /\ socket = e
        BY <2>1, <3>2 DEF Lifetimes
      <4> QED
        BY <3>1, <3>2, <4>1, SentinelAssumption
    <3>3. ASSUME NEW e \in Daemons, dstate'[e] \in {"unspawned", "starting", "dead"},
                 NEW c \in Cmds
          PROVE  inflight'[e][c] = NoRec
      <4>1. dstate[e] \in {"unspawned", "starting", "dead"}
        BY <2>1, <3>1, <3>3
      <4> QED
        BY <3>1, <4>1 DEF Lifetimes
    <3> QED
      BY <3>2, <3>3 DEF Lifetimes, Nil
  <2>3. CASE Stop(d) \/ Flush(d)
    <3>1. dstate[d] \in {"serving", "stopping"} /\ dstate'[d] \in {"stopping", "flushed"}
      BY <2>3 DEF Stop, Flush
    <3>2. UNCHANGED inflight /\ (socket' = socket \/ dstate[d] = "serving")
      BY <2>3 DEF Stop, Flush
    <3>3. ASSUME NEW e \in Daemons, dstate'[e] = "serving" PROVE socket' = e
      <4>1. e # d /\ dstate[e] = "serving"
        BY <2>1, <3>1, <3>3
      <4> QED
        BY <3>2, <4>1 DEF Lifetimes
    <3>4. ASSUME NEW e \in Daemons, dstate'[e] \in {"unspawned", "starting", "dead"},
                 NEW c \in Cmds
          PROVE  inflight'[e][c] = NoRec
      <4>1. dstate[e] \in {"unspawned", "starting", "dead"}
        BY <2>1, <3>1, <3>4
      <4> QED
        BY <3>2, <4>1 DEF Lifetimes
    <3> QED
      BY <3>3, <3>4 DEF Lifetimes, Nil
  <2>4. CASE Exit(d) \/ Crash(d)
    <3>1. /\ dstate'[d] = "dead" /\ inflight'[d] = [c \in Cmds |-> NoRec]
          /\ socket' = IF socket = d THEN NoDaemon ELSE socket
      BY <2>4 DEF Exit, Crash, Dies
    <3>2. ASSUME NEW e \in Daemons, dstate'[e] = "serving" PROVE socket' = e
      <4>1. e # d /\ dstate[e] = "serving" /\ socket = e
        BY <2>1, <3>1, <3>2 DEF Lifetimes
      <4> QED
        BY <3>1, <4>1
    <3>3. ASSUME NEW e \in Daemons, dstate'[e] \in {"unspawned", "starting", "dead"},
                 NEW c \in Cmds
          PROVE  inflight'[e][c] = NoRec
      <4>1. CASE e = d
        BY <3>1, <4>1 DEF Nil, NoRec
      <4>2. CASE e # d
        BY <2>1, <3>3, <4>2 DEF Lifetimes
      <4> QED
        BY <4>1, <4>2
    <3> QED
      BY <3>2, <3>3 DEF Lifetimes, Nil
  <2>5. CASE ~Listen(d) /\ ~Stop(d) /\ ~Flush(d) /\ ~Exit(d) /\ ~Crash(d)
    <3>1. UNCHANGED <<dstate, socket>>
      BY <1>4, <2>5 DEF DaemonNext, DaemonStep, WorkerStep, Refuse, Take, PreSnap,
         PreFails, PreMark, PreAppend, PostPair, PostUnpaired, PostSnap, PostAppend,
         PostFails, Warm, Sweep, shadowVars
    <3>2. dstate[d] \in {"unspawned", "starting", "dead"} => UNCHANGED inflight
      <4>1. CASE dstate[d] \in {"unspawned", "starting", "dead"}
        <5>1. worker[d] = NoJob
          BY <4>1 DEF Holders
        <5> QED
          BY <1>4, <2>5, <4>1, <5>1 DEF DaemonNext, DaemonStep, WorkerStep, Refuse, Take,
             Alive, PreSnap, PreFails, PreMark, PreAppend, PostPair, PostUnpaired,
             PostSnap, PostAppend, PostFails, Warm, Sweep, At, daemonVars
      <4> QED
        BY <4>1
    <3> QED
      BY <2>1, <3>1, <3>2 DEF Lifetimes, Nil
  <2> QED
    BY <2>2, <2>3, <2>4, <2>5
<1> QED
  BY <1>1, <1>2, <1>3, <1>4 DEF Next, Over

\* Only the post of a command changes the post of its row.
LEMMA ClientPostRow ==
  ASSUME TypeOK, NEW k \in Cmds, ClientNext(k), NEW c \in Cmds,
         journal'[c].post # journal[c].post
  PROVE  c = k /\ DegradedPostAppend(k)
<1> USE DEF TypeOK, ShadowTypeOK, ClientTypeOK
<1>1. ASSUME NEW row \in Entry, AppendRow(k, row), row.post = NoSHA
      PROVE  FALSE
  BY <1>1, AppendFacts DEF Later
<1>2. ~DegradedMark(k)
  <2>1. /\ [NoEntry EXCEPT !.overlapped = TRUE] \in Entry
        /\ [NoEntry EXCEPT !.overlapped = TRUE].pre = NoSHA
        /\ [NoEntry EXCEPT !.overlapped = TRUE].post = NoSHA
        /\ [NoEntry EXCEPT !.overlapped = TRUE].status = ""
    BY RowTypes DEF NoEntry
  <2> QED
    BY <2>1, AppendAllFacts DEF DegradedMark
<1>3. ~LockTimeout(k)
  <2>1. [StatusRow("unprotected_timeout") EXCEPT !.note = "lock timeout"] \in Entry
    BY RowTypes DEF Statuses, Notes
  <2> QED
    BY <1>1, <2>1 DEF LockTimeout, StatusRow, NoEntry
<1>4. ~DegradedPreAppend(k)
  <2>1. PreRow(local[k].sha, local[k].overlapped) \in Entry
    BY RowTypes DEF Local
  <2> QED
    BY <1>1, <2>1 DEF DegradedPreAppend, PreRow, NoEntry
<1>5. ~DegradedFails(k) /\ ~DegradedPostSnap(k)
  <2>1. StatusRow("unprotected_error") \in Entry
    BY RowTypes DEF Statuses
  <2>2. StatusRow("unprotected_error").post = NoSHA
    BY DEF StatusRow, NoEntry
  <2> QED
    BY <1>1, <2>1, <2>2 DEF DegradedFails, DegradedPostSnap
<1>6. DegradedPostAppend(k)
  BY <1>2, <1>3, <1>4, <1>5 DEF ClientNext, ClientStep, Expire, Dial, Receive,
     ConnFails, Spawn, SpawnLoses, SpawnFails, RedialGivesUp, Acquire, DegradedPreSnap,
     DegradedPair, shadowVars
<1>7. [StatusRow("protected") EXCEPT !.post = local[k].sha] \in Entry
  BY RowTypes DEF Local, Statuses
<1>8. c = k
  BY <1>6, <1>7, AppendFacts DEF DegradedPostAppend
<1> QED
  BY <1>6, <1>8

\* PostsLast is kept.
LEMMA PostsLastStep ==
  ASSUME SessionInv, PostsLast, [Next]_vars
  PROVE  PostsLast'
<1> SUFFICES ASSUME NEW c \in Cmds
             PROVE  \/ phase'[c] \in {"post", "done"} /\ stage'[c] # "dial"
                    \/ journal'[c].post = NoSHA /\ Quiet(c, "post")'
  BY DEF PostsLast
<1> USE DEF Ops
<1>1. TypeOK /\ HookPhase /\ Waits /\ Jobs /\ Sole
  BY DEF SessionInv
<1>2. CASE phase[c] \in {"post", "done"} /\ stage[c] # "dial"
  <2>1. CASE UNCHANGED vars
    BY <1>2, <2>1 DEF vars, shadowVars, clientVars
  <2>2. ASSUME NEW k \in Cmds, CommandStep(k)
        PROVE  phase'[c] \in {"post", "done"} /\ stage'[c] # "dial"
    BY <1>1, <1>2, <2>2 DEF CommandStep, PreHook, PostHook, HookStarts, Write, Esc, Ages, Goto,
       TypeOK, ShadowTypeOK, ClientTypeOK, clientVars
  <2>3. ASSUME NEW k \in Cmds, ClientNext(k)
        PROVE  phase'[c] \in {"post", "done"} /\ stage'[c] # "dial"
    <3>1. phase'[c] \in {"post", "done"}
      BY <1>1, <1>2, <2>3, HookMoves
    <3>2. stage'[c] # "dial"
      BY <1>1, <1>2, <2>3 DEF ClientNext, ClientStep, Expire, Dial, Receive,
         ConnFails, Spawn, SpawnLoses, SpawnFails, RedialGivesUp, Acquire, LockTimeout,
         DegradedFails, DegradedPreSnap, DegradedMark, DegradedPreAppend, DegradedPair,
         DegradedPostSnap, DegradedPostAppend, HookEnds, Goto, TypeOK, ClientTypeOK
    <3> QED
      BY <3>1, <3>2
  <2>4. ASSUME NEW d \in Daemons, DaemonNext(d)
        PROVE  phase'[c] \in {"post", "done"} /\ stage'[c] # "dial"
    BY <1>2, <2>4, DaemonFrame DEF clientVars
  <2> QED
    BY <2>1, <2>2, <2>3, <2>4 DEF Next, Over
<1>3. CASE journal[c].post = NoSHA /\ Quiet(c, "post")
  <2>1. CASE UNCHANGED vars
    BY <1>3, <2>1 DEF vars, shadowVars, clientVars, daemonVars, Quiet, JobOf, AskedOf
  <2>2. ASSUME NEW k \in Cmds, CommandStep(k)
        PROVE  journal'[c].post = NoSHA /\ Quiet(c, "post")'
    BY <1>3, <2>2, CommandFrame DEF Quiet, JobOf, AskedOf, daemonVars
  <2>3. ASSUME NEW k \in Cmds, ClientNext(k)
        PROVE  \/ phase'[c] \in {"post", "done"} /\ stage'[c] # "dial"
               \/ journal'[c].post = NoSHA /\ Quiet(c, "post")'
    <3>1. CASE c = k /\ DegradedPostAppend(k)
      BY <1>1, <3>1 DEF DegradedPostAppend, HookEnds, Goto, TypeOK, ShadowTypeOK,
         ClientTypeOK
    <3>2. CASE c = k /\ Dial(k) /\ phase[k] = "post"
      BY <1>1, <3>2 DEF Dial, Goto, TypeOK, ClientTypeOK
    <3>3. CASE ~(c = k /\ DegradedPostAppend(k)) /\ ~(c = k /\ Dial(k) /\ phase[k] = "post")
      <4>1. journal'[c].post = NoSHA
        BY <1>1, <1>3, <2>3, <3>3, ClientPostRow
      <4>2. Quiet(c, "post")'
        BY <1>1, <1>3, <2>3, <3>3, ClientTasks DEF Quiet
      <4> QED
        BY <4>1, <4>2
    <3> QED
      BY <3>1, <3>2, <3>3
  <2>4. ASSUME NEW d \in Daemons, DaemonNext(d)
        PROVE  journal'[c].post = NoSHA /\ Quiet(c, "post")'
    BY <1>1, <1>3, <2>4, DaemonTasks, DaemonRows DEF Quiet
  <2> QED
    BY <2>1, <2>2, <2>3, <2>4 DEF Next, Over
<1> QED
  BY <1>2, <1>3 DEF PostsLast
-----------------------------------------------------------------------------
\* A daemon that has not heard of a command does not by a step of its own, ...
LEMMA UnheardStays ==
  ASSUME TypeOK, NEW d \in Daemons, DaemonNext(d), NEW e \in Daemons, NEW c \in Cmds,
         Unheard(e, c)
  PROVE  Unheard(e, c)'
<1> USE DEF TypeOK, ShadowTypeOK, DaemonTypeOK
<1>1. ~JobOf(e, c, "pre")' /\ ~AskedOf(e, c, "pre")'
  BY DaemonTasks DEF Unheard, Ops
<1>2. inflight[e][c] = NoRec /\ Nil(inflight[e][c]) /\ ~JobOf(e, c, "pre")
  BY DEF Unheard, Nil, NoRec
<1>3. inflight'[e][c] = NoRec
  <2>1. CASE e # d
    BY <1>2, <2>1, DaemonMoves
  <2>2. CASE e = d /\ Take(d)
    <3>1. PICK k \in Cmds :
            \/ inflight' = [inflight EXCEPT ![d] = [@ EXCEPT ![k] = NoRec]]
            \/ UNCHANGED inflight
      BY <2>2 DEF Take, Request
    <3>2. CASE inflight' = [inflight EXCEPT ![d] = [@ EXCEPT ![k] = NoRec]]
      <4>1. inflight'[d] = [inflight[d] EXCEPT ![k] = NoRec]
        BY <3>2
      <4> QED
        BY <1>2, <2>2, <4>1
    <3> QED
      BY <1>2, <2>2, <3>1, <3>2
  <2>3. CASE e = d /\ PreMark(d)
    <3>1. worker[d] \in Job /\ worker[d].op = "pre" /\ worker[d] # NoJob
      BY <2>3, AtJob DEF PreMark, At
    <3>2. c # worker[d].cmd
      BY <1>2, <2>3, <3>1 DEF JobOf
    <3>3. inflight'[d][c] = inflight[d][c]
      BY <1>2, <2>3, <3>2 DEF PreMark
    <3> QED
      BY <1>2, <2>3, <3>3
  <2>4. CASE e = d /\ (Exit(d) \/ Crash(d))
    <3>1. inflight'[d] = [k \in Cmds |-> NoRec]
      BY <2>4 DEF Exit, Crash, Dies
    <3> QED
      BY <2>4, <3>1
  <2>5. ASSUME e = d, NEW k \in Cmds, Sweep(d, k) PROVE inflight'[e][c] = NoRec
    <3>1. \/ UNCHANGED inflight
          \/ /\ ~Nil(inflight[d][k])
             /\ inflight' = [inflight EXCEPT ![d] = [@ EXCEPT ![k].swept = TRUE]]
      BY <2>5 DEF Sweep
    <3>2. inflight'[d][c] = inflight[d][c]
      BY <1>2, <2>5, <3>1
    <3> QED
      BY <1>2, <2>5, <3>2
  <2>6. CASE UNCHANGED inflight
    BY <1>2, <2>6
  <2> QED
    BY <2>1, <2>2, <2>3, <2>4, <2>5, <2>6 DEF DaemonNext, DaemonStep, WorkerStep, Listen,
       Stop, Flush, Refuse, PreSnap, PreFails, PreAppend, PostPair, PostUnpaired, PostSnap,
       PostAppend, PostFails, Warm, daemonVars
<1> QED
  BY <1>1, <1>3 DEF Unheard, Nil

\* ... nor by a step of a hook, but the first dial of the pre.
LEMMA UnheardClient ==
  ASSUME TypeOK, NEW k \in Cmds, ClientNext(k), NEW d \in Daemons, NEW c \in Cmds,
         Unheard(d, c), ~(Dial(k) /\ c = k /\ phase[c] = "pre")
  PROVE  Unheard(d, c)'
<1>1. ~JobOf(d, c, "pre")' /\ ~AskedOf(d, c, "pre")'
  BY ClientTasks DEF Unheard, Ops
<1>2. UNCHANGED inflight
  BY ClientFrame DEF daemonVars
<1> QED
  BY <1>1, <1>2 DEF Unheard, Nil

\* NewDaemons is kept.
LEMMA NewDaemonsStep ==
  ASSUME SessionInv, Lifetimes, NewDaemons, [Next]_vars
  PROVE  NewDaemons'
<1> SUFFICES ASSUME NEW c \in Cmds, NEW d \in Daemons,
                    phase'[c] = "post", stage'[c] # "dial", <<c, "post">> \notin timedOut',
                    dstate'[d] = "serving", conn'[c] # [op |-> "post", to |-> d]
             PROVE  Unheard(d, c)'
  BY DEF NewDaemons
<1> USE DEF Ops
<1>1. TypeOK /\ HookPhase /\ Waits /\ Holders
  BY DEF SessionInv
<1>2. CASE UNCHANGED vars
  BY <1>2 DEF NewDaemons, Unheard, JobOf, AskedOf, Nil, vars, shadowVars, daemonVars,
     clientVars
<1>3. ASSUME NEW k \in Cmds, CommandStep(k) PROVE Unheard(d, c)'
  <2>1. UNCHANGED <<dstate, conn, pending, daemonVars, timedOut>>
    BY <1>3, CommandFrame
  <2>2. phase[c] = "post" /\ stage[c] # "dial"
    BY <1>1, <1>3 DEF CommandStep, PreHook, PostHook, HookStarts, Write, Esc, Ages, Goto,
       TypeOK, ShadowTypeOK, ClientTypeOK, clientVars
  <2> QED
    BY <2>1, <2>2 DEF NewDaemons, Unheard, JobOf, AskedOf, Nil, daemonVars
<1>4. ASSUME NEW k \in Cmds, ClientNext(k) PROVE Unheard(d, c)'
  <2>1. phase[c] = "post"
    BY <1>1, <1>4, HookMoves
  <2>2. <<c, "post">> \notin timedOut
    BY <1>4 DEF ClientNext, ClientStep, Expire, Dial, Receive, ConnFails, Spawn,
       SpawnLoses, SpawnFails, RedialGivesUp, Acquire, LockTimeout, DegradedFails,
       DegradedPreSnap, DegradedMark, DegradedPreAppend, DegradedPair,
       DegradedPostSnap, DegradedPostAppend
  <2>3. dstate[d] = "serving"
    BY <1>1, <1>4 DEF ClientNext, ClientStep, Expire, Dial, Receive, ConnFails, Spawn,
       SpawnLoses, SpawnFails, RedialGivesUp, Acquire, LockTimeout, DegradedFails,
       DegradedPreSnap, DegradedMark, DegradedPreAppend, DegradedPair,
       DegradedPostSnap, DegradedPostAppend, shadowVars, TypeOK, ShadowTypeOK
  <2>4. socket = d
    BY <2>3 DEF Lifetimes
  <2>5. CASE c # k
    <3>1. stage'[c] = stage[c] /\ conn'[c] = conn[c]
      BY <1>1, <1>4, <2>5, HookMoves
    <3>2. Unheard(d, c)
      BY <2>1, <2>2, <2>3, <3>1 DEF NewDaemons
    <3> QED
      BY <1>1, <1>4, <2>5, <3>2, UnheardClient
  <2>6. CASE c = k
    <3>1. ~Late(c)
      BY <2>1, <2>2 DEF Late, Hook
    <3>2. ~Dial(c)
      <4>1. CASE Dial(c)
        <5>1. conn'[c] = [op |-> "post", to |-> d]
          BY <1>1, <2>1, <2>4, <4>1 DEF Dial, TypeOK, ShadowTypeOK
        <5> QED
          BY <5>1
      <4> QED
        BY <4>1
    <3>3. stage[c] # "dial"
      <4>1. CASE stage[c] = "dial"
        <5>1. ~Unserved(c)
          BY <2>4, <3>1, <4>1, SentinelAssumption DEF Unserved
        <5>2. stage'[c] = "dial"
          BY <1>1, <1>4, <2>6, <3>2, <4>1, <5>1 DEF ClientNext, ClientStep, Expire, Receive,
             ConnFails, Spawn, SpawnLoses, SpawnFails, RedialGivesUp, Acquire,
             LockTimeout, DegradedFails, DegradedPreSnap, DegradedMark,
             DegradedPreAppend, DegradedPair, DegradedPostSnap, DegradedPostAppend,
             HookPhase
        <5> QED
          BY <5>2
      <4> QED
        BY <4>1
    <3>4. conn[c] # [op |-> "post", to |-> d]
      <4>1. CASE ConnFails(c)
        BY <2>3, <3>1, <4>1 DEF ConnFails
      <4>2. CASE Receive(c)
        <5>1. phase'[c] = "done"
          BY <1>1, <2>1, <4>2 DEF Receive, HookEnds, TypeOK, ShadowTypeOK
        <5> QED
          BY <5>1
      <4>3. CASE ~ConnFails(c) /\ ~Receive(c)
        <5>1. conn'[c] = conn[c] \/ conn[c] = NoConn
          BY <1>1, <1>4, <2>6, <3>2, <4>3 DEF ClientNext, ClientStep, Expire, Spawn,
             SpawnLoses, SpawnFails, RedialGivesUp, Acquire, LockTimeout, DegradedFails,
             DegradedPreSnap, DegradedMark, DegradedPreAppend, DegradedPair,
             DegradedPostSnap, DegradedPostAppend, shadowVars, Waits
        <5> QED
          BY <5>1, NotNoConn
      <4> QED
        BY <4>1, <4>2, <4>3
    <3>5. Unheard(d, c)
      BY <2>1, <2>2, <2>3, <3>3, <3>4 DEF NewDaemons
    <3> QED
      BY <1>1, <1>4, <2>1, <2>6, <3>5, UnheardClient
  <2> QED
    BY <2>5, <2>6
<1>5. ASSUME NEW e \in Daemons, DaemonNext(e) PROVE Unheard(d, c)'
  <2>1. UNCHANGED <<phase, stage, timedOut, conn>>
    BY <1>5, DaemonFrame DEF clientVars
  <2>2. Unheard(d, c)
    <3>1. CASE dstate[d] = "serving"
      BY <2>1, <3>1 DEF NewDaemons
    <3>2. CASE dstate[d] # "serving"
      <4>1. dstate[d] = "starting"
        BY <1>1, <1>5, <3>2 DEF DaemonNext, DaemonStep, WorkerStep, Listen, Stop, Flush,
           Exit, Crash, Dies, Refuse, Take, PreSnap, PreFails, PreMark, PreAppend,
           PostPair, PostUnpaired, PostSnap, PostAppend, PostFails, Warm, Sweep,
           shadowVars, TypeOK, ShadowTypeOK
      <4> QED
        BY <1>1, <4>1 DEF Lifetimes, Holders, Unheard, JobOf, AskedOf
    <3> QED
      BY <3>1, <3>2
  <2> QED
    BY <1>1, <1>5, <2>2, UnheardStays
<1> QED
  BY <1>2, <1>3, <1>4, <1>5 DEF Next, Over
-----------------------------------------------------------------------------
\* A row with a post ends its job.
LEMMA PostRowEnds ==
  ASSUME TypeOK, NEW d \in Daemons, DaemonNext(d), NEW c \in Cmds,
         journal'[c].post # journal[c].post
  PROVE  worker'[d] = NoJob
<1> USE DEF TypeOK, ShadowTypeOK, DaemonTypeOK
<1>1. [NoEntry EXCEPT !.note = "interrupted"] \in Entry
      /\ [NoEntry EXCEPT !.note = "interrupted"].post = NoSHA
  BY RowTypes DEF Notes, NoEntry
<1>2. ASSUME NEW k \in Cmds, Sweep(d, k) PROVE FALSE
  BY <1>1, <1>2, AppendFacts DEF Sweep, Later
<1>3. CASE ~\E k \in Cmds : Sweep(d, k)
  BY <1>3 DEF DaemonNext, DaemonStep, WorkerStep, Listen, Stop, Flush, Exit, Crash, Dies,
     Refuse, Take, PreSnap, PreFails, PreMark, PreAppend, PostPair, PostUnpaired, PostSnap,
     PostAppend, PostFails, Warm, Finish, shadowVars
<1> QED
  BY <1>2, <1>3

\* What a daemon does to the job of a post that is done again.
LEMMA AgainJob ==
  ASSUME TypeOK, NEW d \in Daemons, DaemonNext(d), NEW e \in Daemons, NEW c \in Cmds,
         JobOf(e, c, "post") =>
           ~worker[e].rec.skipped /\ worker[e].status \in {"", "protected"},
         AskedOf(e, c, "post") => Unheard(e, c),
         JobOf(e, c, "post")'
  PROVE  ~worker'[e].rec.skipped /\ worker'[e].status \in {"", "protected"}
<1> USE DEF TypeOK, ShadowTypeOK, DaemonTypeOK
<1>1. CASE e # d \/ UNCHANGED worker
  BY <1>1, DaemonMoves DEF JobOf
<1>2. CASE e = d /\ Take(d)
  <2>1. PICK r \in pending :
          /\ r.to = d
          /\ worker' = [worker EXCEPT ![d] =
               [cmd |-> r.cmd, op |-> r.op, at |-> "taken", post |-> NoSHA,
                rec |-> IF r.op = "post" THEN inflight[d][r.cmd] ELSE NoRec,
                status |-> ""]]
    BY <1>2 DEF Take
  <2>2. r = [cmd |-> r.cmd, op |-> r.op, to |-> d]
    BY <2>1 DEF Request
  <2>3. r.cmd = c /\ r.op = "post"
    <3>1. worker'[d].cmd = r.cmd /\ worker'[d].op = r.op
      BY <2>1
    <3> QED
      BY <1>2, <3>1 DEF JobOf
  <2>4. AskedOf(d, c, "post")
    BY <2>2, <2>3 DEF AskedOf
  <2>5. inflight[d][c] = NoRec
    BY <1>2, <2>4 DEF Unheard
  <2>6. worker'[d].rec = inflight[d][c] /\ worker'[d].status = ""
    BY <2>1, <2>3
  <2>7. ~NoRec.skipped
    BY DEF NoRec
  <2> QED
    BY <1>2, <2>5, <2>6, <2>7
<1>3. CASE e = d /\ PostPair(d)
  <2>1. worker[d] \in Job /\ worker[d] # NoJob /\ worker[d].rec \in Rec
    <3>1. worker[d] \in Job /\ worker[d] # NoJob
      BY <1>3, AtJob DEF PostPair, At
    <3> QED
      BY <3>1 DEF Job
  <2>2. worker'[d] = [worker[d] EXCEPT !.rec = [@ EXCEPT !.pre = journal[worker[d].cmd].pre]]
    BY <1>3, <2>1 DEF PostPair
  <2>3. /\ worker'[d].rec.skipped = worker[d].rec.skipped
        /\ worker'[d].status = worker[d].status
        /\ worker'[d].cmd = worker[d].cmd /\ worker'[d].op = worker[d].op
    BY <2>1, <2>2 DEF Job, Rec
  <2> QED
    BY <1>3, <2>1, <2>3 DEF JobOf
<1>4. CASE e = d /\ PostSnap(d)
  <2>1. worker[d] \in Job /\ worker[d] # NoJob
    BY <1>4, AtJob DEF PostSnap, At
  <2>2. /\ worker'[d].rec = worker[d].rec
        /\ worker'[d].status = IF worker[d].rec.skipped /\ Skipped
                               THEN "skipped_no_change" ELSE "protected"
        /\ worker'[d].cmd = worker[d].cmd /\ worker'[d].op = worker[d].op
    BY <1>4, <2>1 DEF PostSnap, Job
  <2> QED
    BY <1>4, <2>1, <2>2 DEF JobOf
<1>5. CASE e = d /\ (PreSnap(d) \/ PreMark(d))
  <2>1. worker[d] \in Job /\ worker[d] # NoJob /\ worker[d].op = "pre"
    BY <1>5, AtJob DEF PreSnap, PreMark, At
  <2>2. worker'[d].op = worker[d].op
    <3>1. CASE PreSnap(d)
      BY <2>1, <3>1 DEF PreSnap, Job
    <3>2. CASE PreMark(d)
      BY <2>1, <3>2 DEF PreMark, Job
    <3> QED
      BY <1>5, <3>1, <3>2
  <2> QED
    BY <1>5, <2>1, <2>2 DEF JobOf
<1>6. CASE worker'[d] = NoJob
  BY <1>1, <1>6 DEF JobOf
<1> QED
  BY <1>1, <1>2, <1>3, <1>4, <1>5, <1>6 DEF DaemonNext, DaemonStep, WorkerStep, Listen, Stop,
     Flush, Exit, Crash, Dies, Refuse, PreFails, PreAppend, PostUnpaired, PostAppend,
     PostFails, Warm, Sweep, Finish, shadowVars, daemonVars

\* PostsAgain is kept.
LEMMA PostsAgainStep ==
  ASSUME SessionInv, PostLater, Lifetimes, PostsLast, NewDaemons, PostsAgain, [Next]_vars
  PROVE  PostsAgain'
<1> SUFFICES ASSUME NEW c \in Cmds, Again(c)'
             PROVE  /\ stage'[c] = "paired" => local'[c].pre # NoSHA
                    /\ \A d \in Daemons :
                         /\ AskedOf(d, c, "post")' => Unheard(d, c)'
                         /\ JobOf(d, c, "post")' => /\ ~worker'[d].rec.skipped
                                                    /\ worker'[d].status \in {"", "protected"}
  BY DEF PostsAgain
<1> USE DEF Ops
<1>1. TypeOK /\ HookPhase /\ Waits /\ Holders /\ Sole /\ Locals /\ Jobs
  BY DEF SessionInv
<1>2. <<c, "post">> \notin timedOut /\ <<c, "post">> \notin timedOut' /\ journal'[c].post # NoSHA
  <2>1. timedOut \subseteq timedOut'
    <3>1. ASSUME NEW k \in Cmds, ClientNext(k) PROVE timedOut \subseteq timedOut'
      BY <3>1 DEF ClientNext, ClientStep, Expire, Dial, Receive, ConnFails, Spawn,
         SpawnLoses, SpawnFails, RedialGivesUp, Acquire, LockTimeout, DegradedFails,
         DegradedPreSnap, DegradedMark, DegradedPreAppend, DegradedPair,
         DegradedPostSnap, DegradedPostAppend
    <3> QED
      BY <3>1, CommandFrame, DaemonFrame DEF Next, Over, vars, clientVars
  <2> QED
    BY <2>1 DEF Again
<1>3. CASE UNCHANGED vars
  BY <1>3 DEF PostsAgain, Again, Unheard, JobOf, AskedOf, vars, shadowVars, daemonVars,
     clientVars
<1>4. ASSUME NEW k \in Cmds, CommandStep(k)
      PROVE  /\ stage'[c] = "paired" => local'[c].pre # NoSHA
             /\ \A d \in Daemons :
                  /\ AskedOf(d, c, "post")' => Unheard(d, c)'
                  /\ JobOf(d, c, "post")' => /\ ~worker'[d].rec.skipped
                                             /\ worker'[d].status \in {"", "protected"}
  <2>1. UNCHANGED <<journal, pending, daemonVars, timedOut, local>>
    BY <1>4, CommandFrame
  <2>2. stage'[c] = "paired" => stage[c] = "paired"
    BY <1>1, <1>4 DEF CommandStep, PreHook, PostHook, HookStarts, Write, Esc, Ages, Goto,
       TypeOK, ClientTypeOK, clientVars
  <2> QED
    BY <1>2, <2>1, <2>2 DEF PostsAgain, Again, Unheard, JobOf, AskedOf, daemonVars
<1>5. ASSUME NEW k \in Cmds, ClientNext(k)
      PROVE  /\ stage'[c] = "paired" => local'[c].pre # NoSHA
             /\ \A d \in Daemons :
                  /\ AskedOf(d, c, "post")' => Unheard(d, c)'
                  /\ JobOf(d, c, "post")' => /\ ~worker'[d].rec.skipped
                                             /\ worker'[d].status \in {"", "protected"}
  <2>1. UNCHANGED <<inflight, worker>>
    BY <1>5, ClientFrame DEF daemonVars
  <2>2. CASE ~Again(c)
    <3>1. c = k /\ DegradedPostAppend(k)
      BY <1>1, <1>2, <1>5, <2>2, ClientPostRow DEF Again
    <3>2. Quiet(c, "post") /\ ~Dial(k) /\ stage'[c] = "none"
      BY <1>1, <3>1 DEF DegradedPostAppend, Locals, Dial, HookEnds, Goto, TypeOK,
         ClientTypeOK
    <3>3. \A d \in Daemons : ~JobOf(d, c, "post")' /\ ~AskedOf(d, c, "post")'
      BY <1>1, <1>5, <3>2, ClientTasks DEF Quiet
    <3> QED
      BY <3>2, <3>3
  <2>3. CASE Again(c) /\ ~(c = k /\ Dial(c))
    <3>1. \A d \in Daemons : /\ AskedOf(d, c, "post")' => Unheard(d, c)'
                             /\ JobOf(d, c, "post")' <=> JobOf(d, c, "post")
      BY <1>1, <1>5, <2>3, ClientTasks, UnheardClient DEF PostsAgain
    <3>2. stage'[c] = "paired" => local'[c].pre # NoSHA
      <4>1. CASE c # k
        <5>1. stage'[c] = stage[c] /\ local'[c] = local[c]
          BY <1>1, <1>5, <4>1, HookMoves
        <5> QED
          BY <2>3, <5>1 DEF PostsAgain
      <4>2. CASE c = k /\ DegradedPair(k)
        <5>1. journal[c].pre # NoSHA
          BY <2>3 DEF Again, PostLater
        <5> QED
          BY <1>1, <4>2, <5>1 DEF DegradedPair, TypeOK, ClientTypeOK, Local
      <4>3. CASE c = k /\ ~DegradedPair(k)
        <5>1. stage'[c] = "paired" => stage[c] = "paired" /\ local'[c] = local[c]
          BY <1>1, <1>5, <4>3 DEF ClientNext, ClientStep, Expire, Dial, Receive, ConnFails,
             Spawn, SpawnLoses, SpawnFails, RedialGivesUp, Acquire, LockTimeout,
             DegradedFails, DegradedPreSnap, DegradedMark, DegradedPreAppend,
             DegradedPostSnap, DegradedPostAppend, HookEnds, Goto, TypeOK, ClientTypeOK
        <5> QED
          BY <2>3, <5>1 DEF PostsAgain
      <4> QED
        BY <4>1, <4>2, <4>3
    <3> QED
      BY <2>1, <2>3, <3>1, <3>2 DEF PostsAgain
  <2>4. CASE Again(c) /\ c = k /\ Dial(c)
    <3>1. phase[c] = "post" /\ stage[c] # "dial"
      <4>1. phase[c] \in Ops
        BY <1>1, <1>5, <2>4, HookMoves
      <4> QED
        BY <2>4, <4>1 DEF PostsLast, Again
    <3>2. stage[c] = "redial" /\ socket # NoDaemon /\ stage'[c] = "rewait"
      BY <1>1, <2>4, <3>1 DEF Dial, Goto, TypeOK, ClientTypeOK
    <3>3. conn[c] = NoConn /\ socket \in Daemons /\ dstate[socket] = "serving"
      BY <1>1, <3>2 DEF Waits, Holders, TypeOK, ShadowTypeOK
    <3>4. conn[c] # [op |-> "post", to |-> socket]
      BY <3>3, NotNoConn
    <3>5. Unheard(socket, c)
      BY <1>2, <3>1, <3>3, <3>4 DEF NewDaemons
    <3>6. ASSUME NEW d \in Daemons, AskedOf(d, c, "post")' PROVE Unheard(d, c)'
      <4>1. AskedOf(d, c, "post") \/ d = socket
        BY <2>4, <3>1, <3>6 DEF Dial, AskedOf
      <4>2. Unheard(d, c)
        BY <2>4, <3>5, <4>1 DEF PostsAgain
      <4> QED
        BY <1>1, <1>5, <2>4, <3>1, <4>2, UnheardClient
    <3> QED
      BY <2>1, <2>4, <3>2, <3>6 DEF PostsAgain, JobOf
  <2> QED
    BY <2>2, <2>3, <2>4
<1>6. ASSUME NEW e \in Daemons, DaemonNext(e)
      PROVE  /\ stage'[c] = "paired" => local'[c].pre # NoSHA
             /\ \A d \in Daemons :
                  /\ AskedOf(d, c, "post")' => Unheard(d, c)'
                  /\ JobOf(d, c, "post")' => /\ ~worker'[d].rec.skipped
                                             /\ worker'[d].status \in {"", "protected"}
  <2>1. UNCHANGED <<conn, stage, local>>
    BY <1>6, DaemonFrame DEF clientVars
  <2>2. pending' \subseteq pending
    BY <1>6 DEF DaemonNext, DaemonStep, WorkerStep, Listen, Stop, Flush, Exit, Crash,
       Dies, Refuse, Take, PreSnap, PreFails, PreMark, PreAppend, PostPair,
       PostUnpaired, PostSnap, PostAppend, PostFails, Warm, Sweep, shadowVars
  <2>3. CASE ~Again(c)
    <3>1. JobOf(e, c, "post") /\ worker'[e] = NoJob
      BY <1>1, <1>2, <1>6, <2>3, DaemonRows, PostRowEnds DEF Again
    <3>2. conn[c] = [op |-> "post", to |-> e] /\ ~AskedOf(e, c, "post")
      BY <1>1, <1>2, <3>1 DEF Sole
    <3>3. stage[c] # "paired"
      BY <1>1, <3>2, NotNoConn DEF Waits
    <3>4. ASSUME NEW d \in Daemons, JobOf(d, c, "post") \/ AskedOf(d, c, "post") PROVE d = e
      <4>1. conn[c] = [op |-> "post", to |-> d]
        BY <1>1, <1>2, <3>4 DEF Sole
      <4> QED
        BY <3>2, <4>1
    <3>5. ASSUME NEW d \in Daemons PROVE ~JobOf(d, c, "post")' /\ ~AskedOf(d, c, "post")'
      <4>1. ~AskedOf(d, c, "post")'
        <5>1. ~AskedOf(d, c, "post")
          BY <3>2, <3>4
        <5> QED
          BY <2>2, <5>1 DEF AskedOf
      <4>2. ~JobOf(d, c, "post")'
        <5>1. d = e \/ (~JobOf(d, c, "post") /\ worker'[d] = worker[d])
          BY <1>1, <1>6, <3>4, DaemonMoves
        <5> QED
          BY <3>1, <5>1 DEF JobOf
      <4> QED
        BY <4>1, <4>2
    <3> QED
      BY <2>1, <3>3, <3>5
  <2>4. CASE Again(c)
    <3>1. ASSUME NEW d \in Daemons
          PROVE  /\ AskedOf(d, c, "post")' => Unheard(d, c)'
                 /\ JobOf(d, c, "post")' => /\ ~worker'[d].rec.skipped
                                            /\ worker'[d].status \in {"", "protected"}
      <4>1. AskedOf(d, c, "post")' => AskedOf(d, c, "post")
        BY <2>2 DEF AskedOf
      <4>2. /\ AskedOf(d, c, "post") => Unheard(d, c)
            /\ JobOf(d, c, "post") =>
                 ~worker[d].rec.skipped /\ worker[d].status \in {"", "protected"}
        BY <2>4 DEF PostsAgain
      <4> QED
        BY <1>1, <1>6, <4>1, <4>2, UnheardStays, AgainJob
    <3> QED
      BY <2>1, <2>4, <3>1 DEF PostsAgain
  <2> QED
    BY <2>3, <2>4
<1> QED
  BY <1>3, <1>4, <1>5, <1>6 DEF Next, Over

\* A hook that timed out has timed out.
LEMMA TimeoutsStay == TypeOK /\ [Next]_vars => timedOut \subseteq timedOut'
<1>1. ASSUME NEW k \in Cmds, ClientNext(k) PROVE timedOut \subseteq timedOut'
  BY <1>1 DEF ClientNext, ClientStep, Expire, Dial, Receive, ConnFails, Spawn,
     SpawnLoses, SpawnFails, RedialGivesUp, Acquire, LockTimeout, DegradedFails,
     DegradedPreSnap, DegradedMark, DegradedPreAppend, DegradedPair,
     DegradedPostSnap, DegradedPostAppend
<1> QED
  BY <1>1, CommandFrame, DaemonFrame DEF Next, Over, vars, clientVars

\* A step of a hook keeps a protected entry protected, ...
LEMMA ProtectedClient ==
  ASSUME "git" \notin Faults, SessionInv, PostsLast, PostsAgain, NEW c \in Cmds,
         ClientNext(c), Protected(c), <<c, "post">> \notin timedOut
  PROVE  journal'[c].status = "protected"
<1> USE DEF Ops
<1>1. TypeOK /\ HookPhase /\ Waits /\ journal \in [Cmds -> Entry]
  BY DEF SessionInv, TypeOK, ShadowTypeOK
<1>2. journal[c].status = "protected" /\ Again(c)
  BY DEF Protected, Complete, Again
<1>3. phase[c] = "post" /\ ~Late(c)
  <2>1. phase[c] \in Ops
    BY <1>1, HookMoves
  <2> QED
    BY <1>2, <2>1 DEF PostsLast, Again, Late, Hook
<1>4. ~LockTimeout(c) /\ ~DegradedFails(c) /\ ~DegradedPreAppend(c)
  BY <1>1, <1>3 DEF LockTimeout, DegradedFails, DegradedPreAppend, HookPhase
<1>5. CASE DegradedMark(c)
  BY <1>3, <1>5 DEF DegradedMark
<1>6. CASE DegradedPostSnap(c)
  <2>1. local[c].pre # NoSHA
    BY <1>2, <1>6 DEF DegradedPostSnap, PostsAgain
  <2> QED
    BY <1>2, <1>6, <2>1 DEF DegradedPostSnap
<1>7. CASE DegradedPostAppend(c)
  <2> DEFINE row == [StatusRow("protected") EXCEPT !.post = local[c].sha]
  <2>1. row \in Entry
    BY <1>1, RowTypes DEF Local, Statuses, TypeOK, ClientTypeOK
  <2>2. row.status = "protected"
    BY DEF StatusRow, NoEntry
  <2>3. AppendRow(c, row)
    BY <1>7 DEF DegradedPostAppend
  <2> HIDE DEF row
  <2> QED
    BY <1>1, <2>1, <2>2, <2>3, AppendFacts DEF Later
<1> QED
  BY <1>2, <1>4, <1>5, <1>6, <1>7 DEF ClientNext, ClientStep, Expire, Dial, Receive,
     ConnFails, Spawn, SpawnLoses, SpawnFails, RedialGivesUp, Acquire, DegradedPreSnap,
     DegradedPair, shadowVars

\* ... so does a step of a daemon, ...
LEMMA ProtectedDaemon ==
  ASSUME "git" \notin Faults, SessionInv, PostsAgain, NEW d \in Daemons, DaemonNext(d),
         NEW c \in Cmds, Protected(c), <<c, "post">> \notin timedOut
  PROVE  journal'[c].status = "protected"
<1>1. TypeOK /\ Jobs /\ journal \in [Cmds -> Entry]
  BY DEF SessionInv, TypeOK, ShadowTypeOK
<1>2. journal[c].status = "protected" /\ journal[c].pre # NoSHA /\ Again(c)
  BY DEF Protected, Complete, Again
<1>3. CASE ~JobOf(d, c, "post")
  BY <1>1, <1>2, <1>3, DaemonLedger
<1>4. CASE JobOf(d, c, "post")
  <2>1. /\ worker[d] \in Job /\ worker[d] # NoJob /\ worker[d].cmd = c
        /\ worker[d].op = "post" /\ worker[d].status \in {"", "protected"}
    BY <1>1, <1>2, <1>4 DEF JobOf, PostsAgain, TypeOK, DaemonTypeOK
  <2>2. ~PreSnap(d) /\ ~PreFails(d) /\ ~PreMark(d) /\ ~PreAppend(d)
    BY <2>1 DEF PreSnap, PreFails, PreMark, PreAppend, At
  <2>3. ~PostUnpaired(d) /\ ~PostFails(d)
    BY <1>2, <2>1 DEF PostUnpaired, PostFails
  <2>4. CASE PostAppend(d)
    <3>1. FullRow(worker[d]) \in Entry /\ FullRow(worker[d]).status = worker[d].status
      BY <2>1, JobRowTypes, JobRows
    <3>2. worker[d].status = "protected"
      BY <1>1, <2>1, <2>4 DEF PostAppend, At, Jobs
    <3>3. AppendRow(c, FullRow(worker[d]))
      BY <2>1, <2>4 DEF PostAppend
    <3> QED
      BY <1>1, <3>1, <3>2, <3>3, AppendFacts DEF Later
  <2>5. ASSUME NEW k \in Cmds, Sweep(d, k) PROVE journal'[c].status = "protected"
    <3>1. /\ [NoEntry EXCEPT !.note = "interrupted"] \in Entry
          /\ [NoEntry EXCEPT !.note = "interrupted"].status = ""
      BY RowTypes DEF Notes, NoEntry
    <3> QED
      BY <1>1, <1>2, <2>5, <3>1, AppendFacts DEF Sweep, Later
  <2>6. ~Flush(d)
    BY <2>1 DEF Flush
  <2> QED
    BY <1>2, <2>2, <2>3, <2>4, <2>5, <2>6 DEF DaemonNext, DaemonStep, WorkerStep, Listen,
       Stop, Exit, Crash, Dies, Refuse, Take, PostPair, PostSnap, Warm, shadowVars
<1> QED
  BY <1>3, <1>4

\* ... and so every step.
LEMMA ProtectedStep ==
  ASSUME "git" \notin Faults
  PROVE  SessionInv /\ PostsLast /\ PostsAgain /\ [Next]_vars =>
           \A c \in Cmds :
             Protected(c) /\ <<c, "post">> \notin timedOut' => Protected(c)'
<1> SUFFICES ASSUME SessionInv, PostsLast, PostsAgain, [Next]_vars, NEW c \in Cmds,
                    Protected(c), <<c, "post">> \notin timedOut'
             PROVE  Protected(c)'
  OBVIOUS
<1>1. TypeOK /\ HookPhase
  BY DEF SessionInv
<1>2. <<c, "post">> \notin timedOut
  BY <1>1, TimeoutsStay
<1>3. journal'[c].status = "protected"
  <2>1. journal[c].status = "protected"
    BY DEF Protected
  <2>2. CASE UNCHANGED vars
    BY <2>1, <2>2 DEF vars, shadowVars
  <2>3. ASSUME NEW k \in Cmds, CommandStep(k) PROVE journal'[c].status = "protected"
    BY <2>1, <2>3, CommandFrame
  <2>4. ASSUME NEW k \in Cmds, ClientNext(k) PROVE journal'[c].status = "protected"
    <3>1. CASE k = c
      BY <1>2, <2>4, <3>1, ProtectedClient
    <3>2. CASE k # c
      BY <1>1, <2>1, <2>4, <3>2, ClientLedger DEF RowKept
    <3> QED
      BY <3>1, <3>2
  <2>5. ASSUME NEW d \in Daemons, DaemonNext(d) PROVE journal'[c].status = "protected"
    BY <1>2, <2>5, ProtectedDaemon
  <2> QED
    BY <2>2, <2>3, <2>4, <2>5 DEF Next, Over
<1>4. Grows(c)
  BY <1>1, AllGrow
<1> QED
  BY <1>3, <1>4 DEF Protected, Complete, Grows

\* Init makes the invariant true.
LEMMA AgainInit == Init => AgainInv
<1> SUFFICES ASSUME Init PROVE AgainInv
  OBVIOUS
<1> USE DEF Init, ShadowInit, DaemonInit, ClientInit
<1>1. \A c \in Cmds : journal[c].post = NoSHA /\ phase[c] = "idle"
  BY DEF NoEntry
<1>2. Lifetimes
  BY DEF Lifetimes
<1>3. PostsLast
  BY <1>1 DEF PostsLast, Quiet, JobOf, AskedOf
<1>4. NewDaemons /\ PostsAgain
  BY <1>1 DEF NewDaemons, PostsAgain, Again
<1> QED
  BY <1>2, <1>3, <1>4 DEF AgainInv

\* A post hook is never asked for again but by a daemon that has not heard of it.
THEOREM AgainInvHolds == Spec => []AgainInv
<1>1. SessionInv /\ Backed /\ PostLater /\ AgainInv /\ [Next]_vars => AgainInv'
  BY LifetimesStep, PostsLastStep, NewDaemonsStep, PostsAgainStep DEF AgainInv, SessionInv
<1> QED
  BY <1>1, AgainInit, InvHolds, BackedHolds, PTL DEF Spec

\* Where no git command fails, no later row takes the protected status of an entry back:
\* through crashes, stops, slow daemons and retries, while the post hook is within its
\* budget.
THEOREM ProtectedEntriesStay ==
  ASSUME "git" \notin Faults
  PROVE  Spec => ProtectedStays
<1>1. SessionInv /\ AgainInv /\ [Next]_vars =>
        [\A c \in Cmds :
           Protected(c) /\ <<c, "post">> \notin timedOut' => Protected(c)']_vars
  BY ProtectedStep DEF AgainInv
<1> QED
  BY <1>1, AgainInvHolds, InvHolds, PTL DEF Spec, ProtectedStays
=============================================================================
