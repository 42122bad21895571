---------------------------- MODULE SessionProofs ----------------------------
(* The session's safety, proved for any commands, daemons and faults.         *)
EXTENDS SessionInv, TLAPS

Fields == {"pre", "post", "status", "overlapped", "note"}

(* The journal's rows.                                                        *)

LEMMA NoEntryFields ==
  /\ NoEntry \in Entry
  /\ DOMAIN NoEntry = Fields
  /\ NoEntry.pre = NoSHA /\ NoEntry.post = NoSHA
  /\ NoEntry.status = "" /\ NoEntry.overlapped = FALSE /\ NoEntry.note = ""
  BY DEF NoEntry, Entry, SHA, Statuses, Notes, Fields

\* A later row sets the fields it has a value for, and no other.
LEMMA MergeFields ==
  ASSUME NEW e \in Entry, NEW r \in Entry
  PROVE  LET m == MergeEntry(NoEntry, e, r)
         IN  /\ m \in Entry
             /\ m.pre = Later(NoSHA, e.pre, r.pre)
             /\ m.post = Later(NoSHA, e.post, r.post)
             /\ m.status = Later("", e.status, r.status)
<1> DEFINE m == MergeEntry(NoEntry, e, r)
<1>1. m = [f \in Fields |-> Later(NoEntry[f], e[f], r[f])]
  BY NoEntryFields DEF MergeEntry
<1> HIDE DEF m
<1>2. /\ m.pre = Later(NoSHA, e.pre, r.pre)
      /\ m.post = Later(NoSHA, e.post, r.post)
      /\ m.status = Later("", e.status, r.status)
      /\ m.overlapped = Later(FALSE, e.overlapped, r.overlapped)
      /\ m.note = Later("", e.note, r.note)
  BY <1>1, NoEntryFields DEF Fields
<1>3. /\ m.pre \in SHA /\ m.post \in SHA /\ m.status \in Statuses
      /\ m.overlapped \in BOOLEAN /\ m.note \in Notes
  BY <1>2 DEF Entry, Later
<1>4. m = [pre |-> m.pre, post |-> m.post, status |-> m.status,
           overlapped |-> m.overlapped, note |-> m.note]
  BY <1>1, Zenon DEF Fields
<1>5. m \in Entry
  BY <1>3, <1>4 DEF Entry
<1> QED
  BY <1>2, <1>5 DEF m

\* AppendRow changes the entry of one command, AppendRows those of several.
LEMMA AppendFacts ==
  ASSUME journal \in [Cmds -> Entry], NEW c \in Cmds, NEW row \in Entry,
         AppendRow(c, row)
  PROVE  /\ journal' \in [Cmds -> Entry]
         /\ \A e \in Cmds \ {c} : journal'[e] = journal[e]
         /\ journal'[c].pre = Later(NoSHA, journal[c].pre, row.pre)
         /\ journal'[c].post = Later(NoSHA, journal[c].post, row.post)
         /\ journal'[c].status = Later("", journal[c].status, row.status)
<1> DEFINE old == journal[c]
           new == journal'[c]
<1>1. /\ old \in Entry
      /\ new = MergeEntry(NoEntry, old, row)
      /\ journal' = [journal EXCEPT ![c] = new]
  BY DEF AppendRow, Merged
<1> HIDE DEF old, new
<1>2. /\ new \in Entry
      /\ new.pre = Later(NoSHA, old.pre, row.pre)
      /\ new.post = Later(NoSHA, old.post, row.post)
      /\ new.status = Later("", old.status, row.status)
  BY <1>1, MergeFields
<1> QED
  BY <1>1, <1>2 DEF old, new

LEMMA AppendAllFacts ==
  ASSUME journal \in [Cmds -> Entry], NEW cs, NEW row \in Entry,
         row.pre = NoSHA, row.post = NoSHA, row.status = "",
         AppendRows(cs, row)
  PROVE  /\ journal' \in [Cmds -> Entry]
         /\ \A e \in Cmds : /\ journal'[e].pre = journal[e].pre
                            /\ journal'[e].post = journal[e].post
                            /\ journal'[e].status = journal[e].status
<1>1. ASSUME NEW e \in Cmds
      PROVE  /\ journal'[e] \in Entry
             /\ journal'[e].pre = journal[e].pre
             /\ journal'[e].post = journal[e].post
             /\ journal'[e].status = journal[e].status
  <2> DEFINE old == journal[e]
             new == journal'[e]
  <2>1. /\ old \in Entry
        /\ new = old \/ new = MergeEntry(NoEntry, old, row)
    BY DEF AppendRows, Merged
  <2> HIDE DEF old, new
  <2>2. ASSUME new = MergeEntry(NoEntry, old, row)
        PROVE  /\ new \in Entry
               /\ new.pre = Later(NoSHA, old.pre, row.pre)
               /\ new.post = Later(NoSHA, old.post, row.post)
               /\ new.status = Later("", old.status, row.status)
    BY <2>1, <2>2, MergeFields
  <2>3. /\ new \in Entry /\ new.pre = old.pre
        /\ new.post = old.post /\ new.status = old.status
    BY <2>1, <2>2 DEF Later
  <2> QED
    BY <2>3 DEF old, new
<1> QED
  BY <1>1 DEF AppendRows

LEMMA RowTypes ==
  /\ \A sha \in SHA, o \in BOOLEAN : PreRow(sha, o) \in Entry
  /\ \A s \in Statuses : StatusRow(s) \in Entry
  /\ \A s \in Statuses, n \in Notes : [StatusRow(s) EXCEPT !.note = n] \in Entry
  /\ \A s \in Statuses, sha \in SHA : [StatusRow(s) EXCEPT !.post = sha] \in Entry
  /\ \A n \in Notes : [NoEntry EXCEPT !.note = n] \in Entry
  /\ [NoEntry EXCEPT !.overlapped = TRUE] \in Entry
  BY NoEntryFields DEF PreRow, StatusRow, NoEntry, Entry

LEMMA JobRowTypes ==
  ASSUME NEW job \in Job
  PROVE  /\ FullRow(job) \in Entry
         /\ [FullRow(job) EXCEPT !.status = "unprotected_error"] \in Entry
  BY NoEntryFields DEF FullRow, NoEntry, Entry, Job, Rec, Statuses
-----------------------------------------------------------------------------
(* What a step of each actor leaves alone.                                    *)

LEMMA CommandFrame ==
  ASSUME NEW c \in Cmds, CommandStep(c)
  PROVE  UNCHANGED <<head, journal, dstate, socket, conn, pending, replies,
                     daemonVars, timedOut, acked, lock, local>>
  BY DEF CommandStep, PreHook, PostHook, HookStarts, Write, Esc, Ages, clientVars

LEMMA ClientFrame ==
  ASSUME NEW c \in Cmds, ClientNext(c)
  PROVE  UNCHANGED <<aged, tree, daemonVars>>
  BY DEF ClientNext, ClientStep, Expire, Dial, Receive, ConnFails, Spawn, SpawnLoses,
     SpawnFails, RedialGivesUp, Acquire, LockTimeout, DegradedFails, DegradedPreSnap,
     DegradedMark, DegradedPreAppend, DegradedPair, DegradedPostSnap,
     DegradedPostAppend, shadowVars

LEMMA DaemonFrame ==
  ASSUME NEW d \in Daemons, DaemonNext(d)
  PROVE  UNCHANGED <<phase, aged, tree, conn, clientVars>>
  BY DEF DaemonNext, DaemonStep, WorkerStep, Listen, Stop, Flush, Exit, Crash, Dies,
     Refuse, Take, PreSnap, PreFails, PreMark, PreAppend, PostPair, PostUnpaired,
     PostSnap, PostAppend, PostFails, Warm, Sweep, shadowVars
-----------------------------------------------------------------------------
(* Types.                                                                     *)

LEMMA CommandTypes ==
  ASSUME TypeOK, NEW c \in Cmds, CommandStep(c)
  PROVE  TypeOK'
  BY CommandFrame
  DEF CommandStep, PreHook, PostHook, HookStarts, Write, Esc, Ages, Goto, TypeOK,
      ShadowTypeOK, DaemonTypeOK, ClientTypeOK, daemonVars, clientVars, Phases,
      Stages, Contents

\* The end of a hook in phase "pre" or "post".
LEMMA HookEndsTypes ==
  ASSUME TypeOK, NEW c \in Cmds, NEW ok, phase[c] \in Ops, HookEnds(c, ok)
  PROVE  /\ phase' \in [Cmds -> Phases]
         /\ stage' \in [Cmds -> Stages]
         /\ acked' \subseteq Cmds \X Ops
         /\ conn' \in [Cmds -> [op : Ops, to : Daemons] \cup {NoConn}]
         /\ lock' \in Cmds \cup {NoCmd}
         /\ local' \in [Cmds -> Local]
  BY DEF HookEnds, Hook, Goto, TypeOK, ShadowTypeOK, ClientTypeOK, Phases, Stages,
     Local, NoLocal, SHA

LEMMA ClientTypes ==
  ASSUME TypeOK, HookPhase, Waits, NEW c \in Cmds, ClientNext(c)
  PROVE  TypeOK'
<1> USE DEF TypeOK, ShadowTypeOK, ClientTypeOK
<1>1. UNCHANGED <<aged, tree, daemonVars>>
  BY ClientFrame
<1>2. DaemonTypeOK'
  BY <1>1 DEF DaemonTypeOK, daemonVars
<1>3. stage[c] # "none" => phase[c] \in Ops
  BY DEF HookPhase
<1>4. CASE Expire(c) \/ SpawnLoses(c) \/ SpawnFails(c) \/ RedialGivesUp(c) \/ Acquire(c)
  BY <1>1, <1>2, <1>3, <1>4
  DEF Expire, SpawnLoses, SpawnFails, RedialGivesUp, Acquire, Unserved, Goto, Hook,
      shadowVars, Stages
<1>5. CASE Dial(c)
  BY <1>1, <1>2, <1>3, <1>5 DEF Dial, Goto, Request, Stages
<1>6. CASE Receive(c)
  BY <1>1, <1>2, <1>3, <1>6, HookEndsTypes DEF Receive
<1>7. CASE ConnFails(c)
  BY <1>1, <1>2, <1>7 DEF ConnFails, Goto, Stages
<1>8. CASE Spawn(c)
  BY <1>1, <1>2, <1>8 DEF Spawn, Goto, Stages, Lives
<1>9. CASE LockTimeout(c)
  <2>1. journal' \in [Cmds -> Entry]
    BY <1>9, RowTypes, AppendFacts DEF LockTimeout, Statuses, Notes
  <2> QED
    BY <1>1, <1>2, <1>3, <1>9, <2>1, HookEndsTypes DEF LockTimeout
<1>10. CASE DegradedFails(c)
  <2>1. journal' \in [Cmds -> Entry]
    BY <1>10, RowTypes, AppendFacts DEF DegradedFails, Statuses
  <2> QED
    BY <1>1, <1>2, <1>3, <1>10, <2>1, HookEndsTypes DEF DegradedFails, SnapFails, SHA
<1>11. CASE DegradedPreSnap(c) \/ DegradedPair(c)
  <2>1. journal[c].pre \in SHA /\ local[c] \in Local
    BY DEF Entry
  <2> QED
    BY <1>1, <1>2, <1>11, <2>1 DEF DegradedPreSnap, DegradedPair, shadowVars, Snap, SHA,
       Goto, Stages, Local
<1>12. CASE DegradedMark(c)
  <2>1. journal' \in [Cmds -> Entry]
    BY <1>12, RowTypes, AppendAllFacts DEF DegradedMark, NoEntry
  <2>2. local' \in [Cmds -> Local]
    BY <1>12 DEF DegradedMark, Local
  <2> QED
    BY <1>1, <1>2, <1>12, <2>1, <2>2 DEF DegradedMark, Goto, Stages
<1>13. CASE DegradedPreAppend(c)
  <2>1. journal' \in [Cmds -> Entry]
    BY <1>13, RowTypes, AppendFacts DEF DegradedPreAppend, Local
  <2> QED
    BY <1>1, <1>2, <1>3, <1>13, <2>1, HookEndsTypes DEF DegradedPreAppend
<1>14. CASE DegradedPostSnap(c)
  <2>1. ASSUME local[c].pre = NoSHA PROVE journal' \in [Cmds -> Entry]
    BY <1>14, <2>1, RowTypes, AppendFacts DEF DegradedPostSnap, Statuses
  <2>2. CASE local[c].pre = NoSHA
    BY <1>1, <1>2, <1>3, <1>14, <2>1, <2>2, HookEndsTypes DEF DegradedPostSnap, Snap, SHA
  <2>3. CASE local[c].pre # NoSHA
    <3>1. local' = [local EXCEPT ![c].sha = tree] /\ head' = tree
      BY <1>14, <2>3 DEF DegradedPostSnap, Snap
    <3>2. local' \in [Cmds -> Local]
      BY <3>1 DEF Local, SHA
    <3> QED
      BY <1>1, <1>2, <1>14, <2>3, <3>1, <3>2 DEF DegradedPostSnap, SHA, Goto, Stages
  <2> QED
    BY <2>2, <2>3
<1>15. CASE DegradedPostAppend(c)
  <2>1. journal' \in [Cmds -> Entry]
    BY <1>15, RowTypes, AppendFacts DEF DegradedPostAppend, Local, Statuses
  <2> QED
    BY <1>1, <1>2, <1>3, <1>15, <2>1, HookEndsTypes DEF DegradedPostAppend
<1> QED
  BY <1>4, <1>5, <1>6, <1>7, <1>8, <1>9, <1>10, <1>11, <1>12, <1>13, <1>14, <1>15
  DEF ClientNext, ClientStep

\* What a daemon's worker is at is a job, unless it is idle.
LEMMA AtJob ==
  ASSUME TypeOK, NEW d \in Daemons, NEW op, NEW step, At(d, op, step)
  PROVE  worker[d] \in Job /\ worker[d].op = op /\ worker[d].at = step
  BY DEF TypeOK, DaemonTypeOK, At

LEMMA AnswerTypes ==
  ASSUME TypeOK, NEW d \in Daemons, NEW c \in Cmds, NEW op \in Ops, NEW ok \in BOOLEAN,
         Answer(d, c, op, ok)
  PROVE  replies' \subseteq Reply
  BY DEF Answer, TypeOK, ShadowTypeOK, Reply

LEMMA FinishTypes ==
  ASSUME TypeOK, NEW d \in Daemons, worker[d] \in Job, NEW ok \in BOOLEAN, Finish(d, ok)
  PROVE  replies' \subseteq Reply /\ worker' \in [Daemons -> Job \cup {NoJob}]
<1>1. worker[d].cmd \in Cmds /\ worker[d].op \in Ops
  BY DEF Job
<1> QED
  BY <1>1, AnswerTypes DEF Finish, TypeOK, DaemonTypeOK

LEMMA DaemonTypes ==
  ASSUME TypeOK, NEW d \in Daemons, DaemonNext(d)
  PROVE  TypeOK'
<1> USE DEF TypeOK, ShadowTypeOK, DaemonTypeOK
<1>1. UNCHANGED <<phase, aged, tree, conn, clientVars>>
  BY DaemonFrame
<1>2. ClientTypeOK'
  BY <1>1 DEF ClientTypeOK, clientVars
<1>3. NoRec \in Rec /\ tree \in SHA /\ \A c \in Cmds : inflight[d][c] \in Rec
  BY DEF NoRec, Rec, SHA
<1>4. CASE Listen(d) \/ Stop(d)
  BY <1>1, <1>2, <1>4 DEF Listen, Stop, Lives
<1>5. CASE Flush(d)
  <2>1. journal' \in [Cmds -> Entry]
    BY <1>5, RowTypes, AppendAllFacts DEF Flush, NoEntry, Notes
  <2> QED
    BY <1>1, <1>2, <1>5, <2>1 DEF Flush, Lives
<1>6. CASE Exit(d) \/ Crash(d)
  <2>1. Dies(d)
    BY <1>6 DEF Exit, Crash
  <2>2. replies' \subseteq replies /\ pending' \subseteq pending
    BY <2>1 DEF Dies
  <2>3. inflight' \in [Daemons -> [Cmds -> Rec]]
    BY <1>3, <2>1 DEF Dies
  <2> QED
    BY <1>1, <1>2, <2>1, <2>2, <2>3 DEF Dies, Lives
<1>7. CASE Refuse(d)
  BY <1>1, <1>2, <1>7, AnswerTypes DEF Refuse, Request, daemonVars
<1>8. CASE Take(d)
  <2>1. PICK r \in pending :
          /\ pending' = pending \ {r}
          /\ worker' = [worker EXCEPT ![d] =
               [cmd |-> r.cmd, op |-> r.op, at |-> "taken", post |-> NoSHA,
                rec |-> IF r.op = "post" THEN inflight[d][r.cmd] ELSE NoRec,
                status |-> ""]]
          /\ IF r.op = "post"
             THEN /\ inflight' = [inflight EXCEPT ![d][r.cmd] = NoRec]
                  /\ open' = [open EXCEPT ![d] = @ \ {r.cmd}]
             ELSE UNCHANGED <<inflight, open>>
    BY <1>8 DEF Take
  <2>2. r.cmd \in Cmds /\ r.op \in Ops
    BY DEF Request
  <2>3. worker' \in [Daemons -> Job \cup {NoJob}]
    BY <1>3, <2>1, <2>2 DEF Job, Steps, Statuses, SHA
  <2>4. [inflight[d] EXCEPT ![r.cmd] = NoRec] \in [Cmds -> Rec]
    BY <1>3, <2>2
  <2>5. inflight' \in [Daemons -> [Cmds -> Rec]]
    BY <2>1, <2>4
  <2>6. open' \in [Daemons -> SUBSET Cmds]
    <3>1. open[d] \ {r.cmd} \in SUBSET Cmds
      OBVIOUS
    <3>2. open' = [open EXCEPT ![d] = open[d] \ {r.cmd}] \/ open' = open
      BY <2>1
    <3> QED
      BY <3>1, <3>2
  <2> QED
    BY <1>1, <1>2, <1>8, <2>1, <2>3, <2>5, <2>6 DEF Take
<1>9. CASE PreSnap(d)
  <2>1. worker[d] \in Job /\ Skipped \in BOOLEAN
    BY <1>9, AtJob DEF PreSnap, Skipped
  <2>2. [NoRec EXCEPT !.pre = tree, !.skipped = Skipped] \in Rec
    BY <1>3, <2>1 DEF NoRec, Rec
  <2>3. worker' \in [Daemons -> Job \cup {NoJob}]
    BY <1>9, <2>1, <2>2 DEF PreSnap, Job, Steps
  <2> QED
    BY <1>1, <1>2, <1>3, <1>9, <2>3 DEF PreSnap, Snap
<1>10. CASE PreFails(d) \/ PreAppend(d)
  <2>1. worker[d] \in Job
    BY <1>10, AtJob DEF PreFails, PreAppend
  <2>2. replies' \subseteq Reply /\ worker' \in [Daemons -> Job \cup {NoJob}]
    BY <1>10, <2>1, FinishTypes DEF PreFails, PreAppend
  <2>3. ASSUME PreAppend(d) PROVE journal' \in [Cmds -> Entry]
    <3>1. worker[d].cmd \in Cmds /\ PreRow(worker[d].rec.pre, worker[d].rec.overlapped) \in Entry
      BY <2>1, RowTypes DEF Job, Rec
    <3> QED
      BY <2>3, <3>1, AppendFacts DEF PreAppend
  <2> QED
    BY <1>1, <1>2, <1>3, <1>10, <2>2, <2>3 DEF PreFails, PreAppend, SnapFails
<1>11. CASE PreMark(d)
  <2> DEFINE rec == [worker[d].rec EXCEPT !.overlapped = open[d] # {}]
  <2>1. worker[d] \in Job /\ worker[d].cmd \in Cmds
    BY <1>11, AtJob DEF PreMark, Job
  <2>2. rec \in Rec
    BY <2>1 DEF Job, Rec
  <2>3. worker' \in [Daemons -> Job \cup {NoJob}]
    BY <1>11, <2>1, <2>2 DEF PreMark, Job, Steps
  <2>4. \A e \in Cmds : [inflight[d][e] EXCEPT !.overlapped = TRUE] \in Rec
    BY <1>3 DEF Rec
  <2>5. inflight' \in [Daemons -> [Cmds -> Rec]]
    BY <1>3, <1>11, <2>2, <2>4 DEF PreMark
  <2> QED
    BY <1>1, <1>2, <1>11, <2>1, <2>3, <2>5 DEF PreMark
<1>12. CASE PostPair(d)
  <2>1. worker[d] \in Job /\ worker[d].cmd \in Cmds
    BY <1>12, AtJob DEF PostPair, Job
  <2>2. journal[worker[d].cmd].pre \in SHA
    BY <2>1 DEF Entry
  <2>3. worker' \in [Daemons -> Job \cup {NoJob}]
    BY <1>12, <2>1, <2>2 DEF PostPair, Job, Rec
  <2> QED
    BY <1>1, <1>2, <1>12, <2>3 DEF PostPair, shadowVars
<1>13. CASE PostUnpaired(d) \/ PostAppend(d)
  <2>1. worker[d] \in Job /\ worker[d].cmd \in Cmds
    BY <1>13, AtJob DEF PostUnpaired, PostAppend, Job
  <2>2. replies' \subseteq Reply /\ worker' \in [Daemons -> Job \cup {NoJob}]
    BY <1>13, <2>1, FinishTypes DEF PostUnpaired, PostAppend
  <2>3. journal' \in [Cmds -> Entry]
    BY <1>13, <2>1, RowTypes, JobRowTypes, AppendFacts
    DEF PostUnpaired, PostAppend, Statuses, Notes
  <2> QED
    BY <1>1, <1>2, <1>13, <2>2, <2>3 DEF PostUnpaired, PostAppend
<1>14. CASE PostSnap(d)
  <2>1. worker[d] \in Job
    BY <1>14, AtJob DEF PostSnap
  <2>2. worker' \in [Daemons -> Job \cup {NoJob}]
    BY <1>3, <1>14, <2>1 DEF PostSnap, Job, Steps, Statuses
  <2> QED
    BY <1>1, <1>2, <1>3, <1>14, <2>2 DEF PostSnap, Snap
<1>15. CASE PostFails(d)
  <2>1. worker[d] \in Job /\ worker[d].cmd \in Cmds
    BY <1>15, AtJob DEF PostFails, Job
  <2>2. replies' \subseteq Reply /\ worker' \in [Daemons -> Job \cup {NoJob}]
    BY <1>15, <2>1, FinishTypes DEF PostFails
  <2>3. journal' \in [Cmds -> Entry]
    BY <1>15, <2>1, JobRowTypes, AppendFacts DEF PostFails
  <2> QED
    BY <1>1, <1>2, <1>3, <1>15, <2>2, <2>3 DEF PostFails, SnapFails
<1>16. CASE Warm(d)
  BY <1>1, <1>2, <1>3, <1>16 DEF Warm, Snap, daemonVars
<1>17. ASSUME NEW c \in Cmds, Sweep(d, c) PROVE TypeOK'
  <2>1. journal' \in [Cmds -> Entry]
    BY <1>17, RowTypes, AppendFacts DEF Sweep, Notes
  <2>2. [inflight[d][c] EXCEPT !.swept = TRUE] \in Rec
    BY <1>3 DEF Rec
  <2>3. [inflight[d] EXCEPT ![c] = [inflight[d][c] EXCEPT !.swept = TRUE]] \in [Cmds -> Rec]
    BY <2>2
  <2>4. inflight' \in [Daemons -> [Cmds -> Rec]]
    BY <1>17, <2>3 DEF Sweep
  <2> QED
    BY <1>1, <1>2, <1>17, <2>1, <2>4 DEF Sweep
<1> QED
  BY <1>4, <1>5, <1>6, <1>7, <1>8, <1>9, <1>10, <1>11, <1>12, <1>13, <1>14, <1>15,
     <1>16, <1>17
  DEF DaemonNext, DaemonStep, WorkerStep

-----------------------------------------------------------------------------
(* Where the hooks are.                                                       *)

\* A hook's step moves the hook along its chain or ends it, and touches the
\* connection of no other.
LEMMA HookMoves ==
  ASSUME TypeOK, HookPhase, Waits, NEW c \in Cmds, ClientNext(c)
  PROVE  /\ \A e \in Cmds \ {c} : /\ phase'[e] = phase[e] /\ stage'[e] = stage[e]
                                  /\ conn'[e] = conn[e] /\ local'[e] = local[e]
         /\ stage[c] # "none" /\ phase[c] \in Ops
         /\ \/ phase'[c] = phase[c] /\ stage'[c] # "none"
            \/ /\ phase'[c] = IF phase[c] = "pre" THEN "run" ELSE "done"
               /\ stage'[c] = "none" /\ conn'[c] = NoConn
<1> USE DEF TypeOK, ShadowTypeOK, ClientTypeOK, HookPhase, Ops
<1>1. CASE Expire(c) \/ SpawnLoses(c) \/ SpawnFails(c) \/ RedialGivesUp(c)
             \/ Acquire(c) \/ Spawn(c) \/ Dial(c) \/ ConnFails(c)
  BY <1>1 DEF Expire, SpawnLoses, SpawnFails, RedialGivesUp, Acquire, Spawn, Dial,
     ConnFails, Unserved, Goto, shadowVars
<1>2. CASE Receive(c) \/ LockTimeout(c) \/ DegradedFails(c) \/ DegradedPreAppend(c)
             \/ DegradedPostAppend(c)
  <2>1. stage[c] # "none" /\ \E ok : HookEnds(c, ok)
    BY <1>2 DEF Receive, LockTimeout, DegradedFails, DegradedPreAppend,
       DegradedPostAppend
  <2> QED
    BY <2>1 DEF HookEnds, Goto
<1>3. CASE DegradedPreSnap(c) \/ DegradedMark(c) \/ DegradedPair(c)
  BY <1>3 DEF DegradedPreSnap, DegradedMark, DegradedPair, Goto, shadowVars
<1>4. CASE DegradedPostSnap(c)
  BY <1>4 DEF DegradedPostSnap, HookEnds, Goto
<1> QED
  BY <1>1, <1>2, <1>3, <1>4 DEF ClientNext, ClientStep

LEMMA HookPhaseStep ==
  ASSUME TypeOK, HookPhase, Waits, [Next]_vars
  PROVE  HookPhase'
<1>1. CASE UNCHANGED vars
  BY <1>1 DEF HookPhase, vars, shadowVars, clientVars
<1>2. ASSUME NEW c \in Cmds, CommandStep(c) PROVE HookPhase'
  BY <1>2 DEF CommandStep, PreHook, PostHook, HookStarts, Write, Esc, Ages, Goto,
     clientVars, HookPhase, Ops, TypeOK, ShadowTypeOK, ClientTypeOK
<1>3. ASSUME NEW c \in Cmds, ClientNext(c) PROVE HookPhase'
  <2>1. /\ stage'[c] = "marked" => stage[c] \in {"marked", "snapped"} /\ phase[c] = "pre"
        /\ stage'[c] = "paired" => stage[c] \in {"paired", "locked"} /\ phase[c] = "post"
    BY <1>3 DEF ClientNext, ClientStep, Expire, SpawnLoses, SpawnFails, RedialGivesUp,
       Acquire, Spawn, Dial, ConnFails, Receive, LockTimeout, DegradedFails,
       DegradedPreAppend, DegradedPostAppend, DegradedPreSnap, DegradedMark,
       DegradedPair, DegradedPostSnap, HookEnds, Goto, HookPhase, TypeOK, ClientTypeOK
  <2> QED
    BY <1>3, <2>1, HookMoves DEF HookPhase, Ops
<1>4. ASSUME NEW d \in Daemons, DaemonNext(d) PROVE HookPhase'
  BY <1>4, DaemonFrame DEF HookPhase, clientVars
<1> QED
  BY <1>1, <1>2, <1>3, <1>4 DEF Next, Over

LEMMA WaitsStep ==
  ASSUME TypeOK, HookPhase, Waits, [Next]_vars
  PROVE  Waits'
<1> USE DEF TypeOK, ShadowTypeOK, ClientTypeOK
<1>1. CASE UNCHANGED vars
  BY <1>1 DEF Waits, vars, shadowVars, clientVars
<1>2. ASSUME NEW c \in Cmds, CommandStep(c) PROVE Waits'
  BY <1>2 DEF CommandStep, PreHook, PostHook, HookStarts, Write, Esc, Ages, Goto,
     clientVars, HookPhase, Waits, Ops
<1>3. ASSUME NEW c \in Cmds, ClientNext(c) PROVE Waits'
  <2>1. /\ conn'[c] # NoConn <=> stage'[c] \in {"wait", "rewait"}
        /\ conn'[c] # NoConn => conn'[c].op = phase'[c]
    <3>1. CASE Dial(c)
      BY <3>1 DEF Dial, Goto, NoConn, HookPhase, Ops
    <3>2. CASE Expire(c) \/ SpawnLoses(c) \/ SpawnFails(c) \/ RedialGivesUp(c)
                 \/ Acquire(c) \/ Spawn(c) \/ ConnFails(c)
      BY <3>2 DEF Expire, SpawnLoses, SpawnFails, RedialGivesUp, Acquire, Spawn,
         ConnFails, Unserved, Goto, shadowVars, Waits
    <3>3. CASE Receive(c) \/ LockTimeout(c) \/ DegradedFails(c) \/ DegradedPreAppend(c)
                 \/ DegradedPostAppend(c)
      BY <3>3 DEF Receive, LockTimeout, DegradedFails, DegradedPreAppend,
         DegradedPostAppend, HookEnds, Goto
    <3>4. CASE DegradedPreSnap(c) \/ DegradedMark(c) \/ DegradedPair(c)
                 \/ DegradedPostSnap(c)
      BY <3>4 DEF DegradedPreSnap, DegradedMark, DegradedPair, DegradedPostSnap,
         HookEnds, Goto, shadowVars, Waits
    <3> QED
      BY <1>3, <3>1, <3>2, <3>3, <3>4 DEF ClientNext, ClientStep
  <2> QED
    BY <1>3, <2>1, HookMoves DEF Waits
<1>4. ASSUME NEW d \in Daemons, DaemonNext(d) PROVE Waits'
  BY <1>4, DaemonFrame DEF Waits, clientVars
<1> QED
  BY <1>1, <1>2, <1>3, <1>4 DEF Next, Over

-----------------------------------------------------------------------------
(* What daemons hold.                                                         *)

LEMMA DaemonMoves ==
  ASSUME TypeOK, NEW d \in Daemons, DaemonNext(d)
  PROVE  \A e \in Daemons \ {d} : /\ worker'[e] = worker[e] /\ open'[e] = open[e]
                                  /\ inflight'[e] = inflight[e]
  BY DEF TypeOK, DaemonTypeOK, DaemonNext, DaemonStep, WorkerStep, Listen, Stop, Flush,
     Exit, Crash, Dies, Refuse, Take, PreSnap, PreFails, PreMark, PreAppend, PostPair,
     PostUnpaired, PostSnap, PostAppend, PostFails, Warm, Sweep, Finish, shadowVars,
     daemonVars

LEMMA HoldersStep ==
  ASSUME TypeOK, Holders, [Next]_vars
  PROVE  Holders'
<1> USE DEF TypeOK, ShadowTypeOK, DaemonTypeOK
<1>1. CASE UNCHANGED vars
  BY <1>1 DEF Holders, vars, shadowVars, daemonVars
<1>2. ASSUME NEW c \in Cmds, CommandStep(c) PROVE Holders'
  BY <1>2, CommandFrame DEF Holders, daemonVars
<1>3. ASSUME NEW c \in Cmds, ClientNext(c) PROVE Holders'
  <2>1. CASE Dial(c)
    BY <1>3, <2>1, ClientFrame DEF Dial, Holders, daemonVars
  <2>2. CASE Spawn(c)
    BY <1>3, <2>2, ClientFrame DEF Spawn, Holders, daemonVars
  <2>3. CASE ~Dial(c) /\ ~Spawn(c)
    <3>1. UNCHANGED <<dstate, socket, pending>>
      BY <1>3, <2>3 DEF ClientNext, ClientStep, Expire, Receive, ConnFails, SpawnLoses,
         SpawnFails, RedialGivesUp, Acquire, LockTimeout, DegradedFails, DegradedPreSnap,
         DegradedMark, DegradedPreAppend, DegradedPair, DegradedPostSnap,
         DegradedPostAppend, shadowVars
    <3> QED
      BY <1>3, <3>1, ClientFrame DEF Holders, daemonVars
  <2> QED
    BY <2>1, <2>2, <2>3
<1>4. ASSUME NEW d \in Daemons, DaemonNext(d) PROVE Holders'
  <2>1. CASE Listen(d) \/ Stop(d) \/ Flush(d)
    BY <2>1, SentinelAssumption DEF Listen, Stop, Flush, Holders
  <2>2. CASE Exit(d) \/ Crash(d)
    BY <2>2 DEF Exit, Crash, Dies, Holders
  <2>3. CASE Refuse(d) \/ Warm(d) \/ \E c \in Cmds : Sweep(d, c)
    BY <2>3 DEF Refuse, Warm, Sweep, Holders, daemonVars
  <2>4. CASE WorkerStep(d)
    <3>1. /\ UNCHANGED <<dstate, socket>>
          /\ pending' \subseteq pending
          /\ dstate[d] \notin {"unspawned", "starting", "dead"}
      BY <2>4 DEF WorkerStep, Take, PreSnap, PreFails, PreMark, PreAppend, PostPair,
         PostUnpaired, PostSnap, PostAppend, PostFails, Alive, At, Holders, shadowVars
    <3> QED
      BY <1>4, <3>1, DaemonMoves DEF Holders
  <2> QED
    BY <1>4, <2>1, <2>2, <2>3, <2>4 DEF DaemonNext, DaemonStep
<1> QED
  BY <1>1, <1>2, <1>3, <1>4 DEF Next, Over

LEMMA OpensStep ==
  ASSUME TypeOK, Opens, OpenPairFlagged, Jobs, [Next]_vars
  PROVE  Opens' /\ OpenPairFlagged'
<1> USE DEF TypeOK, DaemonTypeOK, Opens, OpenPairFlagged
<1>1. CASE UNCHANGED vars
  BY <1>1 DEF vars, daemonVars
<1>2. ASSUME NEW c \in Cmds, CommandStep(c) \/ ClientNext(c)
      PROVE  Opens' /\ OpenPairFlagged'
  BY <1>2, CommandFrame, ClientFrame DEF daemonVars
<1>3. ASSUME NEW d \in Daemons, DaemonNext(d) PROVE Opens' /\ OpenPairFlagged'
  <2>1. SUFFICES
          /\ \A a \in open'[d] : inflight'[d][a].pre # NoSHA
          /\ \A a, b \in open'[d] : a # b =>
               inflight'[d][a].overlapped /\ inflight'[d][b].overlapped
    BY <1>3, DaemonMoves
  <2>2. /\ \A a \in open[d] : inflight[d][a].pre # NoSHA
        /\ \A a, b \in open[d] : a # b =>
             inflight[d][a].overlapped /\ inflight[d][b].overlapped
    OBVIOUS
  <2>3. CASE Flush(d) \/ Exit(d) \/ Crash(d)
    BY <2>3 DEF Flush, Exit, Crash, Dies
  <2>4. CASE Take(d)
    <3>1. PICK c \in Cmds :
            \/ /\ inflight' = [inflight EXCEPT ![d] = [@ EXCEPT ![c] = NoRec]]
               /\ open' = [open EXCEPT ![d] = @ \ {c}]
            \/ UNCHANGED <<inflight, open>>
      BY <2>4 DEF Take, ShadowTypeOK, Request
    <3>2. \A a \in open'[d] : a \in open[d] /\ inflight'[d][a] = inflight[d][a]
      BY <3>1
    <3> QED
      BY <2>2, <3>2
  <2>5. CASE PreMark(d)
    <3> DEFINE c == worker[d].cmd
               rec == [worker[d].rec EXCEPT !.overlapped = open[d] # {}]
    <3>1. worker[d] \in Job /\ worker[d].at = "snapped" /\ worker[d].cmd \in Cmds
      BY <2>5, AtJob DEF PreMark, Job
    <3>2. worker[d].rec \in Rec /\ worker[d].rec.pre # NoSHA
      BY <3>1 DEF Jobs, Job, NoJob
    <3>3. rec.pre # NoSHA /\ rec.overlapped = (open[d] # {})
      BY <3>2 DEF Rec
    <3>4. open'[d] = open[d] \cup {c} /\ inflight'[d][c] = rec
      BY <2>5, <3>1 DEF PreMark
    <3>5. ASSUME NEW e \in open[d], e # c
          PROVE  inflight'[d][e].pre # NoSHA /\ inflight'[d][e].overlapped
      <4>1. inflight[d][e] \in Rec /\ inflight[d][e].pre # NoSHA
        BY <2>2
      <4>2. inflight'[d][e] = [inflight[d][e] EXCEPT !.overlapped = TRUE]
        BY <2>5, <3>5, <4>1 DEF PreMark, Nil
      <4> QED
        BY <4>1, <4>2 DEF Rec
    <3> HIDE DEF c, rec
    <3> QED
      BY <3>3, <3>4, <3>5
  <2>6. ASSUME NEW c \in Cmds, Sweep(d, c)
        PROVE  /\ \A a \in open'[d] : inflight'[d][a].pre # NoSHA
               /\ \A a, b \in open'[d] : a # b =>
                    inflight'[d][a].overlapped /\ inflight'[d][b].overlapped
    BY <2>2, <2>6 DEF Sweep
  <2>7. CASE UNCHANGED <<inflight, open>>
    BY <2>2, <2>7
  <2> QED
    BY <1>3, <2>3, <2>4, <2>5, <2>6, <2>7 DEF DaemonNext, DaemonStep, WorkerStep, Listen,
       Stop, Refuse, PreSnap, PreFails, PreAppend, PostPair, PostUnpaired, PostSnap,
       PostAppend, PostFails, Warm, daemonVars
<1> QED
  BY <1>1, <1>2, <1>3 DEF Next, Over

LEMMA JobsStep ==
  ASSUME TypeOK, Jobs, [Next]_vars
  PROVE  Jobs'
<1> USE DEF TypeOK, DaemonTypeOK
<1>1. CASE UNCHANGED vars
  BY <1>1 DEF Jobs, vars, daemonVars
<1>2. ASSUME NEW c \in Cmds, CommandStep(c) \/ ClientNext(c) PROVE Jobs'
  BY <1>2, CommandFrame, ClientFrame DEF Jobs, daemonVars
<1>3. ASSUME NEW d \in Daemons, DaemonNext(d) PROVE Jobs'
  <2> DEFINE Past(job) ==
        job # NoJob =>
          /\ job.at \in {"snapped", "marked"} => job.rec.pre # NoSHA
          /\ job.at = "snapped" /\ job.op = "post" =>
               job.post # NoSHA /\ job.status \in {"protected", "skipped_no_change"}
  <2>1. SUFFICES Past(worker'[d])
    BY <1>3, DaemonMoves DEF Jobs
  <2>2. Past(worker[d])
    BY DEF Jobs
  <2>3. tree # NoSHA
    BY SentinelAssumption DEF ShadowTypeOK
  <2>4. CASE worker'[d] = NoJob
    BY <2>4
  <2>5. CASE Take(d)
    <3>1. PICK r \in pending : worker' = [worker EXCEPT ![d] =
            [cmd |-> r.cmd, op |-> r.op, at |-> "taken", post |-> NoSHA,
             rec |-> IF r.op = "post" THEN inflight[d][r.cmd] ELSE NoRec,
             status |-> ""]]
      BY <2>5 DEF Take
    <3>2. worker'[d].at = "taken"
      BY <3>1
    <3> QED
      BY <3>2
  <2>6. CASE PreSnap(d)
    <3>1. worker[d] \in Job /\ worker[d].op = "pre"
      BY <2>6, AtJob DEF PreSnap
    <3> QED
      BY <2>3, <2>6, <3>1 DEF PreSnap, Job, NoRec
  <2>7. CASE PreMark(d)
    <3>1. worker[d] \in Job /\ worker[d].op = "pre" /\ worker[d].at = "snapped"
      BY <2>7, AtJob DEF PreMark
    <3>2. worker'[d].op = "pre" /\ worker'[d].at = "marked"
          /\ worker'[d].rec.pre = worker[d].rec.pre
      BY <2>7, <3>1 DEF PreMark, Job, Rec
    <3> QED
      BY <2>2, <3>1, <3>2 DEF Job, NoJob
  <2>8. CASE PostPair(d)
    <3>1. worker[d] \in Job /\ worker[d].at = "taken"
      BY <2>8, AtJob DEF PostPair
    <3> QED
      BY <2>8, <3>1 DEF PostPair, Job
  <2>9. CASE PostSnap(d)
    <3>1. worker[d] \in Job /\ worker[d].at = "taken" /\ worker[d].op = "post"
      BY <2>9, AtJob DEF PostSnap
    <3>2. worker[d].rec.pre # NoSHA
      BY <2>9 DEF PostSnap, Nil
    <3> QED
      BY <2>3, <2>9, <3>1, <3>2 DEF PostSnap, Job
  <2>10. CASE UNCHANGED worker
    BY <2>2, <2>10
  <2> QED
    BY <1>3, <2>4, <2>5, <2>6, <2>7, <2>8, <2>9, <2>10 DEF DaemonNext, DaemonStep,
       WorkerStep, Listen, Stop, Flush, Exit, Crash, Dies, Refuse, PreFails, PreAppend,
       PostUnpaired, PostAppend, PostFails, Finish, Warm, Sweep, daemonVars
<1> QED
  BY <1>1, <1>2, <1>3 DEF Next, Over

-----------------------------------------------------------------------------
(* What a step writes to the journal.                                         *)

RowKept(c) ==
  /\ journal'[c].pre = journal[c].pre
  /\ journal'[c].post = journal[c].post
  /\ journal'[c].status = journal[c].status

\* A snapshot in the journal is never lost.
Grows(c) ==
  /\ journal[c].pre # NoSHA => journal'[c].pre # NoSHA
  /\ journal[c].post # NoSHA => journal'[c].post # NoSHA

\* A hook's row is of its own command, and its pre is the snapshot it took.
LEMMA ClientLedger ==
  ASSUME TypeOK, HookPhase, NEW c \in Cmds, ClientNext(c)
  PROVE  /\ \A e \in Cmds \ {c} : RowKept(e)
         /\ Grows(c)
         /\ journal'[c].pre \in {journal[c].pre, local[c].sha}
         /\ journal'[c].pre # journal[c].pre => phase[c] = "pre"
         /\ stage[c] \in {"wait", "rewait"} => RowKept(c)
<1> USE DEF TypeOK, ShadowTypeOK, ClientTypeOK, RowKept, Grows
<1>1. CASE UNCHANGED journal
  BY <1>1
<1>2. CASE DegradedMark(c)
  <2>1. [NoEntry EXCEPT !.overlapped = TRUE] \in Entry
    BY RowTypes
  <2>2. /\ [NoEntry EXCEPT !.overlapped = TRUE].pre = NoSHA
        /\ [NoEntry EXCEPT !.overlapped = TRUE].post = NoSHA
        /\ [NoEntry EXCEPT !.overlapped = TRUE].status = ""
    BY DEF NoEntry
  <2> QED
    BY <1>2, <2>1, <2>2, AppendAllFacts DEF DegradedMark
<1>3. ASSUME NEW row \in Entry, AppendRow(c, row), stage[c] \notin {"wait", "rewait"},
             row.pre = NoSHA \/ (row.pre = local[c].sha /\ phase[c] = "pre")
      PROVE  /\ \A e \in Cmds \ {c} : RowKept(e)
             /\ Grows(c)
             /\ journal'[c].pre \in {journal[c].pre, local[c].sha}
             /\ journal'[c].pre # journal[c].pre => phase[c] = "pre"
             /\ stage[c] \in {"wait", "rewait"} => RowKept(c)
  BY <1>3, AppendFacts DEF Later
<1>4. CASE LockTimeout(c)
  <2>1. [StatusRow("unprotected_timeout") EXCEPT !.note = "lock timeout"] \in Entry
    BY RowTypes DEF Statuses, Notes
  <2> QED
    BY <1>3, <1>4, <2>1 DEF LockTimeout, StatusRow, NoEntry
<1>5. ASSUME stage[c] = "paired", AppendRow(c, StatusRow("unprotected_error"))
      PROVE  /\ \A e \in Cmds \ {c} : RowKept(e)
             /\ Grows(c)
             /\ journal'[c].pre \in {journal[c].pre, local[c].sha}
             /\ journal'[c].pre # journal[c].pre => phase[c] = "pre"
             /\ stage[c] \in {"wait", "rewait"} => RowKept(c)
  <2>1. StatusRow("unprotected_error") \in Entry
    BY RowTypes DEF Statuses
  <2> QED
    BY <1>3, <1>5, <2>1 DEF StatusRow, NoEntry
<1>6. CASE DegradedFails(c) \/ DegradedPostSnap(c)
  BY <1>1, <1>5, <1>6 DEF DegradedFails, DegradedPostSnap
<1>7. CASE DegradedPreAppend(c)
  <2>1. PreRow(local[c].sha, local[c].overlapped) \in Entry
    BY RowTypes DEF Local
  <2>2. PreRow(local[c].sha, local[c].overlapped).pre = local[c].sha /\ phase[c] = "pre"
    BY <1>7 DEF PreRow, NoEntry, DegradedPreAppend, HookPhase
  <2> QED
    BY <1>3, <1>7, <2>1, <2>2 DEF DegradedPreAppend
<1>8. CASE DegradedPostAppend(c)
  <2>1. [StatusRow("protected") EXCEPT !.post = local[c].sha] \in Entry
    BY RowTypes DEF Local, Statuses
  <2> QED
    BY <1>3, <1>8, <2>1 DEF DegradedPostAppend, StatusRow, NoEntry
<1> QED
  BY <1>1, <1>2, <1>4, <1>6, <1>7, <1>8 DEF ClientNext, ClientStep, Expire, Dial, Receive,
     ConnFails, Spawn, SpawnLoses, SpawnFails, RedialGivesUp, Acquire, DegradedPreSnap,
     DegradedPair, shadowVars

LEMMA JobRows ==
  ASSUME NEW job \in Job
  PROVE  /\ FullRow(job).pre = job.rec.pre
         /\ FullRow(job).post = job.post
         /\ FullRow(job).status = job.status
         /\ [FullRow(job) EXCEPT !.status = "unprotected_error"].pre = job.rec.pre
         /\ PreRow(job.rec.pre, job.rec.overlapped) \in Entry
         /\ PreRow(job.rec.pre, job.rec.overlapped).pre = job.rec.pre
         /\ PreRow(job.rec.pre, job.rec.overlapped).post = NoSHA
         /\ PreRow(job.rec.pre, job.rec.overlapped).status = ""
<1>1. job.rec \in Rec
  BY DEF Job
<1>2. PreRow(job.rec.pre, job.rec.overlapped) \in Entry
  BY <1>1, RowTypes DEF Rec
<1> QED
  BY <1>2 DEF FullRow, PreRow, NoEntry

\* A daemon's row is of the command it works for, its pre that of the record;
\* only the job of a post sets a status.
LEMMA DaemonLedger ==
  ASSUME TypeOK, NEW d \in Daemons, DaemonNext(d), NEW c \in Cmds
  PROVE  /\ Grows(c)
         /\ \/ journal'[c].pre = journal[c].pre
            \/ /\ worker[d] # NoJob /\ worker[d].cmd = c
               /\ journal'[c].pre = worker[d].rec.pre
         /\ ~JobOf(d, c, "post") => journal'[c].status = journal[c].status
<1> DEFINE Goal ==
      /\ Grows(c)
      /\ \/ journal'[c].pre = journal[c].pre
         \/ /\ worker[d] # NoJob /\ worker[d].cmd = c
            /\ journal'[c].pre = worker[d].rec.pre
      /\ ~JobOf(d, c, "post") => journal'[c].status = journal[c].status
<1> USE DEF TypeOK, ShadowTypeOK, DaemonTypeOK
<1>1. CASE UNCHANGED journal
  BY <1>1 DEF Grows
<1>2. CASE Flush(d) \/ \E e \in Cmds : Sweep(d, e)
  <2>1. [NoEntry EXCEPT !.note = "interrupted"] \in Entry
    BY RowTypes DEF Notes
  <2>2. /\ [NoEntry EXCEPT !.note = "interrupted"].pre = NoSHA
        /\ [NoEntry EXCEPT !.note = "interrupted"].post = NoSHA
        /\ [NoEntry EXCEPT !.note = "interrupted"].status = ""
    BY DEF NoEntry
  <2>3. CASE Flush(d)
    BY <2>1, <2>2, <2>3, AppendAllFacts DEF Flush, Grows
  <2>4. ASSUME NEW e \in Cmds, Sweep(d, e) PROVE Goal
    <3>1. CASE UNCHANGED journal
      BY <1>1, <3>1
    <3>2. CASE AppendRow(e, [NoEntry EXCEPT !.note = "interrupted"])
      BY <2>1, <2>2, <3>2, AppendFacts DEF Grows, Later
    <3> QED
      BY <2>4, <3>1, <3>2 DEF Sweep
  <2> QED
    BY <1>2, <2>3, <2>4
<1>3. ASSUME worker[d] \in Job, NEW row \in Entry, AppendRow(worker[d].cmd, row),
             row.pre \in {NoSHA, worker[d].rec.pre},
             row.status = "" \/ worker[d].op = "post"
      PROVE  Goal
  <2>1. worker[d].cmd \in Cmds /\ worker[d] # NoJob
    <3>1. worker[d].at \in Steps /\ worker[d].cmd \in Cmds
      BY <1>3 DEF Job
    <3>2. NoJob.at \notin Steps
      BY DEF NoJob, Steps
    <3> QED
      BY <3>1, <3>2
  <2>2. CASE c = worker[d].cmd
    BY <1>3, <2>1, <2>2, AppendFacts DEF Later, Grows, JobOf
  <2>3. CASE c # worker[d].cmd
    BY <1>3, <2>1, <2>3, AppendFacts DEF Grows
  <2> QED
    BY <2>2, <2>3
<1>4. CASE PreAppend(d)
  <2>1. worker[d] \in Job
    BY <1>4, AtJob DEF PreAppend
  <2> QED
    BY <1>3, <1>4, <2>1, JobRows DEF PreAppend
<1>5. CASE PostUnpaired(d)
  <2> DEFINE row == [StatusRow("unprotected_error") EXCEPT !.note = "pre missing"]
  <2>1. row \in Entry /\ row.pre = NoSHA
    BY RowTypes DEF Statuses, Notes, StatusRow, NoEntry
  <2> QED
    BY <1>3, <1>5, <2>1, AtJob DEF PostUnpaired
<1>6. CASE PostAppend(d)
  <2>1. worker[d] \in Job /\ worker[d].op = "post"
    BY <1>6, AtJob DEF PostAppend
  <2> QED
    BY <1>3, <1>6, <2>1, JobRowTypes, JobRows DEF PostAppend
<1>7. CASE PostFails(d)
  <2>1. worker[d] \in Job /\ worker[d].op = "post"
    BY <1>7, AtJob DEF PostFails
  <2> QED
    BY <1>1, <1>3, <1>7, <2>1, JobRowTypes, JobRows DEF PostFails
<1> QED
  BY <1>1, <1>2, <1>4, <1>5, <1>6, <1>7 DEF DaemonNext, DaemonStep, WorkerStep, Listen,
     Stop, Exit, Crash, Dies, Refuse, Take, PreSnap, PreFails, PreMark, PostPair,
     PostSnap, Warm, shadowVars

-----------------------------------------------------------------------------
(* Requests and answers.                                                      *)

\* A daemon makes no request up: a task of it after a step was one before.
LEMMA DaemonTasks ==
  ASSUME TypeOK, NEW d \in Daemons, DaemonNext(d),
         NEW e \in Daemons, NEW c \in Cmds, NEW op \in Ops
  PROVE  /\ JobOf(e, c, op)' \/ AskedOf(e, c, op)' => JobOf(e, c, op) \/ AskedOf(e, c, op)
         /\ JobOf(e, c, op)' /\ AskedOf(e, c, op)' => JobOf(e, c, op) /\ AskedOf(e, c, op)
<1> USE DEF TypeOK, ShadowTypeOK, DaemonTypeOK
<1>1. CASE Take(d)
  <2>1. PICK r \in pending :
          /\ r.to = d
          /\ pending' = pending \ {r}
          /\ worker' = [worker EXCEPT ![d] =
               [cmd |-> r.cmd, op |-> r.op, at |-> "taken", post |-> NoSHA,
                rec |-> IF r.op = "post" THEN inflight[d][r.cmd] ELSE NoRec,
                status |-> ""]]
    BY <1>1 DEF Take
  <2>2. r = [cmd |-> r.cmd, op |-> r.op, to |-> d]
    BY <2>1 DEF Request
  <2>3. worker'[d].cmd = r.cmd /\ worker'[d].op = r.op
    BY <2>1
  <2>4. CASE e = d
    BY <2>1, <2>2, <2>3, <2>4 DEF JobOf, AskedOf
  <2>5. CASE e # d
    BY <2>1, <2>5 DEF JobOf, AskedOf
  <2> QED
    BY <2>4, <2>5
<1>2. CASE ~Take(d)
  <2>1. pending' \subseteq pending
    BY <1>2 DEF DaemonNext, DaemonStep, WorkerStep, Listen, Stop, Flush, Exit, Crash,
       Dies, Refuse, PreSnap, PreFails, PreMark, PreAppend, PostPair, PostUnpaired,
       PostSnap, PostAppend, PostFails, Warm, Sweep, shadowVars
  <2>2. worker'[d] # NoJob =>
          /\ worker[d] # NoJob
          /\ worker'[d].cmd = worker[d].cmd /\ worker'[d].op = worker[d].op
    <3>1. CASE worker'[d] = NoJob \/ UNCHANGED worker
      BY <3>1
    <3>2. CASE PreSnap(d) \/ PreMark(d) \/ PostPair(d) \/ PostSnap(d)
      <4>1. worker[d] \in Job /\ worker[d] # NoJob
        BY <3>2, AtJob DEF PreSnap, PreMark, PostPair, PostSnap, At
      <4> QED
        BY <3>2, <4>1 DEF PreSnap, PreMark, PostPair, PostSnap, Job
    <3> QED
      BY <1>2, <3>1, <3>2 DEF DaemonNext, DaemonStep, WorkerStep, Listen, Stop, Flush,
         Exit, Crash, Dies, Refuse, PreFails, PreAppend, PostUnpaired, PostAppend,
         PostFails, Finish, Warm, Sweep, shadowVars, daemonVars
  <2>3. worker'[e] # NoJob =>
          /\ worker[e] # NoJob
          /\ worker'[e].cmd = worker[e].cmd /\ worker'[e].op = worker[e].op
    BY <2>2, DaemonMoves
  <2> QED
    BY <2>1, <2>3 DEF JobOf, AskedOf
<1> QED
  BY <1>1, <1>2

\* Only a dial adds a request.
LEMMA ClientTasks ==
  ASSUME TypeOK, NEW c \in Cmds, ClientNext(c),
         NEW d \in Daemons, NEW e \in Cmds, NEW op \in Ops,
         ~Dial(c) \/ e # c \/ op # phase[c]
  PROVE  /\ JobOf(d, e, op)' <=> JobOf(d, e, op)
         /\ AskedOf(d, e, op)' <=> AskedOf(d, e, op)
<1>1. JobOf(d, e, op)' <=> JobOf(d, e, op)
  BY ClientFrame DEF JobOf, daemonVars
<1>2. CASE ~Dial(c)
  <2>1. UNCHANGED pending
    BY <1>2 DEF ClientNext, ClientStep, Expire, Receive, ConnFails, Spawn, SpawnLoses,
       SpawnFails, RedialGivesUp, Acquire, LockTimeout, DegradedFails, DegradedPreSnap,
       DegradedMark, DegradedPreAppend, DegradedPair, DegradedPostSnap,
       DegradedPostAppend, shadowVars
  <2> QED
    BY <1>1, <2>1 DEF AskedOf
<1>3. CASE Dial(c) /\ (e # c \/ op # phase[c])
  BY <1>1, <1>3 DEF Dial, AskedOf
<1> QED
  BY <1>2, <1>3

\* A hook that gives up a connection within its budget leaves nothing behind.
LEMMA GivesUpQuiet ==
  ASSUME TypeOK, Waits, Holders, Sole, NEW c \in Cmds, ConnFails(c), ~Late(c),
         phase[c] \in Ops
  PROVE  Quiet(c, phase[c])
<1>1. dstate[conn[c].to] = "dead" /\ conn[c] # NoConn
  BY DEF ConnFails, Waits
<1>2. conn[c].to \in Daemons
  BY <1>1 DEF TypeOK, ShadowTypeOK
<1>3. worker[conn[c].to] = NoJob /\ \A r \in pending : r.to # conn[c].to
  BY <1>1, <1>2 DEF Holders
<1>4. ASSUME NEW d \in Daemons, JobOf(d, c, phase[c]) \/ AskedOf(d, c, phase[c])
      PROVE  conn[c].to = d
  <2>1. <<c, phase[c]>> \notin timedOut
    BY DEF Late, Hook
  <2>2. conn[c] = [op |-> phase[c], to |-> d]
    BY <1>4, <2>1 DEF Sole
  <2> QED
    BY <2>2
<1> QED
  BY <1>3, <1>4 DEF Quiet, JobOf, AskedOf

LEMMA SoleStep ==
  ASSUME TypeOK, HookPhase, Waits, Holders, Sole, Addressed, [Next]_vars
  PROVE  Sole'
<1>1. CASE UNCHANGED vars
  BY <1>1 DEF Sole, JobOf, AskedOf, vars, shadowVars, daemonVars, clientVars
<1>2. ASSUME NEW c \in Cmds, CommandStep(c) PROVE Sole'
  BY <1>2, CommandFrame DEF Sole, JobOf, AskedOf, daemonVars
<1>3. ASSUME NEW d \in Daemons, DaemonNext(d) PROVE Sole'
  BY <1>3, DaemonFrame, DaemonTasks DEF Sole, clientVars
<1>4. ASSUME NEW c \in Cmds, ClientNext(c) PROVE Sole'
  <2> SUFFICES ASSUME NEW e \in Cmds, NEW op \in Ops, <<e, op>> \notin timedOut',
                      NEW d \in Daemons
               PROVE  /\ JobOf(d, e, op)' \/ AskedOf(d, e, op)' =>
                           conn'[e] = [op |-> op, to |-> d]
                      /\ ~(JobOf(d, e, op)' /\ AskedOf(d, e, op)')
    BY DEF Sole
  <2>1. <<e, op>> \notin timedOut
    BY <1>4 DEF ClientNext, ClientStep, Expire, Dial, Receive, ConnFails, Spawn,
       SpawnLoses, SpawnFails, RedialGivesUp, Acquire, LockTimeout, DegradedFails,
       DegradedPreSnap, DegradedMark, DegradedPreAppend, DegradedPair,
       DegradedPostSnap, DegradedPostAppend
  <2>2. /\ JobOf(d, e, op) \/ AskedOf(d, e, op) => conn[e] = [op |-> op, to |-> d]
        /\ ~(JobOf(d, e, op) /\ AskedOf(d, e, op))
    BY <2>1 DEF Sole
  <2>3. stage[c] # "none" /\ phase[c] \in Ops
    BY <1>4, HookMoves
  <2>4. CASE e # c
    BY <1>4, <2>2, <2>4, ClientTasks, HookMoves
  <2>5. CASE e = c /\ Dial(c)
    <3>1. conn[c] = NoConn
      BY <2>5 DEF Dial, Waits
    <3>2. ~JobOf(d, c, op) /\ ~AskedOf(d, c, op)
      BY <2>2, <2>5, <3>1 DEF NoConn, Ops
    <3>3. CASE op # phase[c]
      BY <1>4, <2>5, <3>2, <3>3, ClientTasks
    <3>4. CASE op = phase[c]
      <4>1. ~JobOf(d, c, op)'
        BY <1>4, <3>2, ClientFrame DEF JobOf, daemonVars
      <4>2. AskedOf(d, c, op)' => d = socket
        BY <2>5, <3>2, <3>4 DEF Dial, AskedOf
      <4>3. conn'[c] = [op |-> op, to |-> socket]
        BY <2>5, <3>4 DEF Dial, TypeOK, ShadowTypeOK
      <4> QED
        BY <2>5, <4>1, <4>2, <4>3
    <3> QED
      BY <3>3, <3>4
  <2>6. CASE e = c /\ ~Dial(c)
    <3>1. /\ JobOf(d, c, op)' <=> JobOf(d, c, op)
          /\ AskedOf(d, c, op)' <=> AskedOf(d, c, op)
      BY <1>4, <2>6, ClientTasks
    <3>2. CASE ConnFails(c)
      <4>1. op # phase[c] => ~JobOf(d, c, op) /\ ~AskedOf(d, c, op)
        BY <2>2, <2>6, <3>2 DEF ConnFails, Waits
      <4>2. op = phase[c] => ~JobOf(d, c, op) /\ ~AskedOf(d, c, op)
        BY <2>1, <2>3, <2>6, <3>2, GivesUpQuiet DEF Quiet, Late, Hook
      <4> QED
        BY <2>6, <3>1, <4>1, <4>2
    <3>3. CASE Receive(c)
      <4>1. PICK r \in replies : r.cmd = c /\ r.op = conn[c].op /\ r.op = phase[c]
        BY <3>3 DEF Receive, Answers, Waits
      <4>2. ~Late(c)
        BY <3>3 DEF Receive
      <4>3. Quiet(c, phase[c])
        BY <4>1, <4>2 DEF Addressed, Late, Hook
      <4>4. op # phase[c] => ~JobOf(d, c, op) /\ ~AskedOf(d, c, op)
        BY <2>2, <2>6, <3>3 DEF Receive, Waits
      <4> QED
        BY <2>6, <3>1, <4>3, <4>4 DEF Quiet
    <3>4. CASE ~ConnFails(c) /\ ~Receive(c)
      <4>1. conn'[c] = conn[c] \/ conn[c] = NoConn
        BY <1>4, <2>6, <3>4 DEF ClientNext, ClientStep, Expire, Spawn, SpawnLoses,
           SpawnFails, RedialGivesUp, Acquire, LockTimeout, DegradedFails,
           DegradedPreSnap, DegradedMark, DegradedPreAppend, DegradedPair,
           DegradedPostSnap, DegradedPostAppend, shadowVars, Waits
      <4> QED
        BY <2>2, <2>6, <3>1, <4>1 DEF NoConn, Ops
    <3> QED
      BY <3>2, <3>3, <3>4
  <2> QED
    BY <2>4, <2>5, <2>6
<1> QED
  BY <1>1, <1>2, <1>3, <1>4 DEF Next, Over

\* A task keeps a hook from being quiet; a quiet hook stays quiet until it dials.
LEMMA StaysQuiet ==
  ASSUME TypeOK, NEW c \in Cmds, NEW op \in Ops, Quiet(c, op), [Next]_vars,
         \A e \in Cmds : Dial(e) => e # c \/ op # phase[c]
  PROVE  Quiet(c, op)'
<1>1. CASE UNCHANGED vars
  BY <1>1 DEF Quiet, JobOf, AskedOf, vars, shadowVars, daemonVars
<1>2. ASSUME NEW e \in Cmds, CommandStep(e) PROVE Quiet(c, op)'
  BY <1>2, CommandFrame DEF Quiet, JobOf, AskedOf, daemonVars
<1>3. ASSUME NEW e \in Cmds, ClientNext(e) PROVE Quiet(c, op)'
  BY <1>3, ClientTasks DEF Quiet
<1>4. ASSUME NEW d \in Daemons, DaemonNext(d) PROVE Quiet(c, op)'
  BY <1>4, DaemonTasks DEF Quiet
<1> QED
  BY <1>1, <1>2, <1>3, <1>4 DEF Next, Over

LEMMA AllGrow ==
  ASSUME TypeOK, HookPhase, [Next]_vars, NEW c \in Cmds
  PROVE  Grows(c)
<1>1. CASE UNCHANGED vars
  BY <1>1 DEF Grows, vars, shadowVars
<1>2. ASSUME NEW e \in Cmds, CommandStep(e) PROVE Grows(c)
  BY <1>2, CommandFrame DEF Grows
<1>3. ASSUME NEW e \in Cmds, ClientNext(e) PROVE Grows(c)
  BY <1>3, ClientLedger DEF Grows, RowKept
<1>4. ASSUME NEW d \in Daemons, DaemonNext(d) PROVE Grows(c)
  BY <1>4, DaemonLedger
<1> QED
  BY <1>1, <1>2, <1>3, <1>4 DEF Next, Over

\* What is durable stays so, the status of a post as long as no task and no hook
\* of it is left.
LEMMA StaysDurable ==
  ASSUME TypeOK, HookPhase, Waits, [Next]_vars, NEW c \in Cmds, NEW op \in Ops,
         Durable(c, op),
         op = "post" => /\ Quiet(c, "post")
                        /\ stage[c] \in {"none", "wait", "rewait"}
  PROVE  Durable(c, op)'
<1>1. Grows(c)
  BY AllGrow
<1>2. CASE op = "pre"
  BY <1>1, <1>2 DEF Durable, Grows
<1>3. CASE op = "post"
  <2>1. journal'[c].status = journal[c].status
    <3>1. CASE UNCHANGED vars
      BY <3>1 DEF vars, shadowVars
    <3>2. ASSUME NEW e \in Cmds, CommandStep(e)
          PROVE  journal'[c].status = journal[c].status
      BY <3>2, CommandFrame
    <3>3. ASSUME NEW e \in Cmds, ClientNext(e)
          PROVE  journal'[c].status = journal[c].status
      <4>1. CASE e = c
        BY <1>3, <3>3, <4>1, ClientLedger, HookMoves DEF RowKept
      <4>2. CASE e # c
        BY <3>3, <4>2, ClientLedger DEF RowKept
      <4> QED
        BY <4>1, <4>2
    <3>4. ASSUME NEW d \in Daemons, DaemonNext(d)
          PROVE  journal'[c].status = journal[c].status
      BY <1>3, <3>4, DaemonLedger DEF Quiet
    <3> QED
      BY <3>1, <3>2, <3>3, <3>4 DEF Next, Over
  <2> QED
    BY <1>1, <1>3, <2>1 DEF Durable, Complete, Grows
<1> QED
  BY <1>2, <1>3 DEF Ops

\* The answers a daemon's step adds are for hooks that wait on it, and are the
\* last of their request; one that is OK tells of what is in the journal.
LEMMA DaemonAnswers ==
  ASSUME TypeOK, Sole, Jobs, NEW d \in Daemons, DaemonNext(d),
         NEW r \in replies', r \notin replies
  PROVE  /\ r.from = d /\ r.cmd \in Cmds /\ r.op \in Ops
         /\ JobOf(d, r.cmd, r.op) \/ AskedOf(d, r.cmd, r.op)
         /\ conn[r.cmd] = [op |-> r.op, to |-> d]
         /\ <<r.cmd, r.op>> \notin timedOut =>
              Quiet(r.cmd, r.op)' /\ (r.ok => Durable(r.cmd, r.op)')
         /\ replies' \subseteq replies \cup {r}
<1> USE DEF TypeOK, ShadowTypeOK, DaemonTypeOK
<1>1. CASE Refuse(d)
  <2>1. PICK q \in pending :
          /\ q.to = d /\ pending' = pending \ {q} /\ Answer(d, q.cmd, q.op, FALSE)
    BY <1>1 DEF Refuse
  <2>2. q = [cmd |-> q.cmd, op |-> q.op, to |-> d] /\ q.cmd \in Cmds /\ q.op \in Ops
    BY <2>1 DEF Request
  <2>3. /\ r = [cmd |-> q.cmd, op |-> q.op, from |-> d, ok |-> FALSE]
        /\ replies' = replies \cup {r}
        /\ conn[q.cmd] = [op |-> q.op, to |-> d]
    BY <2>1 DEF Answer
  <2>4. AskedOf(d, q.cmd, q.op)
    BY <2>2 DEF AskedOf
  <2>5. ASSUME <<q.cmd, q.op>> \notin timedOut PROVE Quiet(q.cmd, q.op)'
    <3>1. \A e \in Daemons : ~JobOf(e, q.cmd, q.op) /\ (AskedOf(e, q.cmd, q.op) => e = d)
      BY <2>2, <2>4, <2>5 DEF Sole
    <3> QED
      BY <1>1, <2>1, <2>2, <3>1 DEF Quiet, JobOf, AskedOf, Refuse, daemonVars
  <2> QED
    BY <2>2, <2>3, <2>4, <2>5
<1>2. ASSUME worker[d] \in Job, NEW ok \in BOOLEAN, Finish(d, ok), UNCHANGED pending,
             NEW c \in Cmds, NEW op \in Ops, c = worker[d].cmd, op = worker[d].op,
             ok => Durable(c, op)'
      PROVE  /\ r.from = d /\ r.cmd \in Cmds /\ r.op \in Ops
             /\ JobOf(d, r.cmd, r.op) \/ AskedOf(d, r.cmd, r.op)
             /\ conn[r.cmd] = [op |-> r.op, to |-> d]
             /\ <<r.cmd, r.op>> \notin timedOut =>
                  Quiet(r.cmd, r.op)' /\ (r.ok => Durable(r.cmd, r.op)')
             /\ replies' \subseteq replies \cup {r}
  <2>1. worker[d].at \in Steps
    BY <1>2 DEF Job
  <2>2. JobOf(d, c, op)
    <3>1. NoJob.at \notin Steps
      BY DEF NoJob, Steps
    <3> QED
      BY <1>2, <2>1, <3>1 DEF JobOf
  <2>3. /\ r = [cmd |-> c, op |-> op, from |-> d, ok |-> ok]
        /\ replies' = replies \cup {r}
        /\ conn[c] = [op |-> op, to |-> d]
    BY <1>2 DEF Finish, Answer
  <2>4. worker' = [worker EXCEPT ![d] = NoJob]
    BY <1>2 DEF Finish
  <2>5. ASSUME <<c, op>> \notin timedOut PROVE Quiet(c, op)'
    <3>1. \A e \in Daemons : ~AskedOf(e, c, op) /\ (JobOf(e, c, op) => e = d)
      BY <1>2, <2>2, <2>5 DEF Sole
    <3>2. \A e \in Daemons : ~JobOf(e, c, op)'
      BY <2>4, <3>1 DEF JobOf
    <3> QED
      BY <1>2, <3>1, <3>2 DEF Quiet, AskedOf
  <2>6. r.cmd = c /\ r.op = op /\ r.from = d /\ r.ok = ok
    BY <2>3
  <2> QED
    BY <1>2, <2>2, <2>3, <2>5, <2>6
<1>3. CASE PreFails(d) \/ PostUnpaired(d) \/ PostFails(d)
  <2>1. worker[d] \in Job
    BY <1>3, AtJob DEF PreFails, PostUnpaired, PostFails
  <2>2. worker[d].cmd \in Cmds /\ worker[d].op \in Ops
    BY <2>1 DEF Job
  <2> QED
    BY <1>2, <1>3, <2>1, <2>2 DEF PreFails, PostUnpaired, PostFails
<1>4. CASE PreAppend(d)
  <2>1. worker[d] \in Job /\ worker[d].op = "pre" /\ worker[d].at = "marked"
    BY <1>4, AtJob DEF PreAppend
  <2>2. worker[d].rec.pre # NoSHA
    BY <1>4, <2>1 DEF Jobs, PreAppend, At
  <2>3. worker[d].cmd \in Cmds
    BY <2>1 DEF Job
  <2>4. journal'[worker[d].cmd].pre # NoSHA
    BY <1>4, <2>1, <2>2, <2>3, JobRows, AppendFacts DEF PreAppend, Later
  <2>5. PICK c \in Cmds : c = worker[d].cmd
    BY <2>3
  <2>6. Durable(c, "pre")'
    BY <2>4, <2>5 DEF Durable
  <2> QED
    BY <1>2, <1>4, <2>1, <2>5, <2>6 DEF PreAppend, Ops
<1>5. CASE PostAppend(d)
  <2>1. worker[d] \in Job /\ worker[d].op = "post" /\ worker[d].at = "snapped"
    BY <1>5, AtJob DEF PostAppend
  <2>2. /\ worker[d].rec.pre # NoSHA /\ worker[d].post # NoSHA
        /\ worker[d].status \in {"protected", "skipped_no_change"}
    BY <1>5, <2>1 DEF Jobs, PostAppend, At
  <2>3. worker[d].cmd \in Cmds
    BY <2>1 DEF Job
  <2>4. /\ journal'[worker[d].cmd].pre # NoSHA
        /\ journal'[worker[d].cmd].post # NoSHA
        /\ journal'[worker[d].cmd].status \in {"protected", "skipped_no_change"}
    BY <1>5, <2>1, <2>2, <2>3, JobRows, JobRowTypes, AppendFacts DEF PostAppend, Later
  <2>5. PICK c \in Cmds : c = worker[d].cmd
    BY <2>3
  <2>6. Durable(c, "post")'
    BY <2>4, <2>5 DEF Durable, Complete
  <2> QED
    BY <1>2, <1>5, <2>1, <2>5, <2>6 DEF PostAppend, Ops
<1>6. CASE replies' \subseteq replies
  BY <1>6
<1>7. Exit(d) \/ Crash(d) => replies' \subseteq replies
  BY DEF Exit, Crash, Dies
<1> QED
  BY <1>1, <1>3, <1>4, <1>5, <1>6, <1>7 DEF DaemonNext, DaemonStep, WorkerStep, Listen,
     Stop, Flush, Take, PreSnap, PreMark, PostPair, PostSnap, Warm, Sweep, shadowVars

\* A hook that has an answer waits on the daemon it is from.
LEMMA AnswerAwaited ==
  ASSUME TypeOK, Waits, Addressed, NEW r \in replies
  PROVE  /\ r.cmd \in Cmds /\ r.op \in Ops
         /\ stage[r.cmd] \in {"wait", "rewait"}
         /\ conn[r.cmd].op = r.op /\ conn[r.cmd].to = r.from
         /\ phase[r.cmd] = r.op
<1>1. r.cmd \in Cmds /\ r.op \in Ops
  BY DEF TypeOK, ShadowTypeOK, Reply
<1>2. conn[r.cmd] = [op |-> r.op, to |-> r.from]
  BY DEF Addressed
<1>3. conn[r.cmd].op = r.op /\ conn[r.cmd].to = r.from
  BY <1>2
<1>4. NoConn.op \notin Ops
  BY DEF NoConn, Ops
<1> QED
  BY <1>1, <1>3, <1>4 DEF Waits

LEMMA AddressedStep ==
  ASSUME TypeOK, HookPhase, Waits, Sole, Jobs, Addressed, [Next]_vars
  PROVE  Addressed'
<1> USE DEF TypeOK, ShadowTypeOK
<1>1. ASSUME NEW r \in replies, <<r.cmd, r.op>> \notin timedOut
      PROVE  Quiet(r.cmd, r.op)' /\ (r.ok => Durable(r.cmd, r.op)')
  \* The hook waits: it neither dials nor writes.
  <2>1. r.cmd \in Cmds /\ r.op \in Ops
    BY AnswerAwaited
  <2>2. stage[r.cmd] \in {"wait", "rewait"}
    BY AnswerAwaited
  <2>3. Quiet(r.cmd, r.op) /\ (r.ok => Durable(r.cmd, r.op))
    BY <1>1 DEF Addressed
  <2>4. \A e \in Cmds : Dial(e) => e # r.cmd
    BY <2>2 DEF Dial
  <2> QED
    BY <2>1, <2>2, <2>3, <2>4, StaysQuiet, StaysDurable
<1>2. timedOut \subseteq timedOut'
  BY CommandFrame, DaemonFrame DEF Next, Over, vars, clientVars, ClientNext, ClientStep,
     Expire, Dial, Receive, ConnFails, Spawn, SpawnLoses, SpawnFails, RedialGivesUp,
     Acquire, LockTimeout, DegradedFails, DegradedPreSnap, DegradedMark,
     DegradedPreAppend, DegradedPair, DegradedPostSnap, DegradedPostAppend
<1>3. ASSUME replies' \subseteq replies, \A r \in replies' : conn'[r.cmd] = conn[r.cmd]
      PROVE  Addressed'
  BY <1>1, <1>2, <1>3 DEF Addressed
<1>4. CASE UNCHANGED vars
  BY <1>3, <1>4 DEF vars, shadowVars
<1>5. ASSUME NEW c \in Cmds, CommandStep(c) PROVE Addressed'
  BY <1>3, <1>5, CommandFrame
<1>6. ASSUME NEW c \in Cmds, ClientNext(c) PROVE Addressed'
  <2>1. /\ replies' \subseteq replies
        /\ conn'[c] # conn[c] => \A r \in replies' : r.cmd # c
    <3>1. CASE Dial(c)
      BY <3>1, AnswerAwaited DEF Dial
    <3>2. CASE ConnFails(c)
      BY <3>2, AnswerAwaited DEF ConnFails, Answers
    <3>3. CASE Receive(c)
      BY <3>3 DEF Receive, Addressed, Answers, Waits, Late, Hook, Reply
    <3>4. CASE ~Dial(c) /\ ~ConnFails(c) /\ ~Receive(c)
      BY <1>6, <3>4 DEF ClientNext, ClientStep, Expire, Spawn, SpawnLoses, SpawnFails,
         RedialGivesUp, Acquire, LockTimeout, DegradedFails, DegradedPreSnap,
         DegradedMark, DegradedPreAppend, DegradedPair, DegradedPostSnap,
         DegradedPostAppend, HookEnds, shadowVars, Addressed, Waits, NoConn, Ops, Reply
    <3> QED
      BY <3>1, <3>2, <3>3, <3>4
  <2>2. \A r \in replies' : conn'[r.cmd] = conn[r.cmd]
    BY <1>6, <2>1, HookMoves DEF Reply
  <2> QED
    BY <1>3, <2>1, <2>2
<1>7. ASSUME NEW d \in Daemons, DaemonNext(d) PROVE Addressed'
  <2>1. UNCHANGED <<conn, timedOut>>
    BY <1>7, DaemonFrame DEF clientVars
  <2>2. CASE replies' \subseteq replies
    BY <1>3, <2>1, <2>2
  <2>3. ASSUME NEW r \in replies', r \notin replies PROVE Addressed'
    \* The task the answer ends was the only one: there is no earlier answer.
    <3>1. /\ r.from = d /\ r.cmd \in Cmds /\ r.op \in Ops
          /\ JobOf(d, r.cmd, r.op) \/ AskedOf(d, r.cmd, r.op)
          /\ conn[r.cmd] = [op |-> r.op, to |-> d]
          /\ <<r.cmd, r.op>> \notin timedOut =>
               Quiet(r.cmd, r.op)' /\ (r.ok => Durable(r.cmd, r.op)')
          /\ replies' \subseteq replies \cup {r}
      BY <1>7, <2>3, DaemonAnswers
    <3>2. ASSUME NEW s \in replies, s.cmd = r.cmd
          PROVE  s.op = r.op /\ <<r.cmd, r.op>> \in timedOut
      <4>1. conn[r.cmd].op = r.op /\ conn[s.cmd].op = s.op
        BY <3>1, AnswerAwaited
      <4>2. s.op = r.op
        BY <3>2, <4>1
      <4>3. <<s.cmd, s.op>> \notin timedOut => Quiet(s.cmd, s.op)
        BY DEF Addressed
      <4> QED
        BY <3>1, <3>2, <4>2, <4>3 DEF Quiet
    <3>3. ASSUME NEW s \in replies'
          PROVE  /\ conn'[s.cmd] = [op |-> s.op, to |-> s.from]
                 /\ <<s.cmd, s.op>> \notin timedOut' =>
                      /\ Quiet(s.cmd, s.op)' /\ (s.ok => Durable(s.cmd, s.op)')
                      /\ \A t \in replies' : t.cmd = s.cmd => t = s
      <4>1. CASE s = r
        BY <2>1, <3>1, <3>2, <4>1
      <4>2. CASE s # r
        <5>1. s \in replies
          BY <3>1, <4>2
        <5> QED
          BY <1>1, <2>1, <3>1, <3>2, <5>1 DEF Addressed
      <4> QED
        BY <4>1, <4>2
    <3> QED
      BY <3>3 DEF Addressed
  <2> QED
    BY <2>2, <2>3
<1> QED
  BY <1>4, <1>5, <1>6, <1>7 DEF Next, Over

-----------------------------------------------------------------------------
(* Direct writes and acknowledgements.                                        *)

LEMMA NotNoConn == \A op \in Ops : \A d : [op |-> op, to |-> d] # NoConn
<1>1. NoConn.op \notin Ops
  BY DEF NoConn, Ops
<1> QED
  BY <1>1

LEMMA LocalsStep ==
  ASSUME TypeOK, HookPhase, Waits, Sole, Locals, [Next]_vars
  PROVE  Locals'
<1> USE DEF TypeOK, ShadowTypeOK, ClientTypeOK
<1>1. ASSUME NEW c \in Cmds, stage'[c] = stage[c], phase'[c] = phase[c],
             local'[c] = local[c]
      PROVE  /\ stage'[c] \in {"snapped", "marked"} => local'[c].sha # NoSHA
             /\ local'[c].pre # NoSHA => journal'[c].pre # NoSHA
             /\ stage'[c] = "snapped" /\ phase'[c] = "post" =>
                  local'[c].pre # NoSHA /\ Quiet(c, "post")'
  <2>1. Grows(c)
    BY AllGrow
  <2>2. stage[c] = "snapped" /\ phase[c] = "post" => Quiet(c, "post")'
    BY StaysQuiet DEF Locals, Dial, Ops
  <2> QED
    BY <1>1, <2>1, <2>2 DEF Locals, Grows
<1>2. CASE UNCHANGED vars
  BY <1>1, <1>2 DEF vars, shadowVars, clientVars, Locals
<1>3. ASSUME NEW c \in Cmds, CommandStep(c) PROVE Locals'
  <2>1. \A e \in Cmds : \/ stage'[e] = stage[e] /\ phase'[e] = phase[e]
                        \/ stage'[e] \in {"none", "dial"}
    BY <1>3 DEF CommandStep, PreHook, PostHook, HookStarts, Write, Esc, Ages, Goto,
       clientVars, HookPhase, Ops
  <2> QED
    BY <1>1, <1>3, <2>1, CommandFrame DEF Locals
<1>4. ASSUME NEW c \in Cmds, ClientNext(c) PROVE Locals'
  <2>1. SUFFICES /\ stage'[c] \in {"snapped", "marked"} => local'[c].sha # NoSHA
                 /\ local'[c].pre # NoSHA => journal'[c].pre # NoSHA
                 /\ stage'[c] = "snapped" /\ phase'[c] = "post" =>
                      local'[c].pre # NoSHA /\ Quiet(c, "post")'
    BY <1>1, <1>4, HookMoves DEF Locals
  <2>2. tree # NoSHA
    BY SentinelAssumption
  <2>3. CASE Dial(c) \/ ConnFails(c) \/ Spawn(c) \/ SpawnLoses(c) \/ SpawnFails(c)
               \/ RedialGivesUp(c) \/ Acquire(c)
    BY <2>3 DEF Dial, ConnFails, Spawn, SpawnLoses, SpawnFails, RedialGivesUp, Acquire,
       Goto, shadowVars, Locals
  <2>9. ASSUME NEW ok, HookEnds(c, ok)
        PROVE  stage'[c] = "none" /\ local'[c].pre = NoSHA
    BY <2>9 DEF HookEnds, Goto, NoLocal
  <2>4. CASE Expire(c)
    BY <1>1, <2>4 DEF Expire, shadowVars
  <2>5. CASE DegradedPreSnap(c)
    BY <2>2, <2>5 DEF DegradedPreSnap, Local, Goto, Locals
  <2>6. CASE DegradedMark(c)
    <3>1. Grows(c)
      BY AllGrow
    <3>2. local'[c].sha = local[c].sha /\ local'[c].pre = local[c].pre
      BY <2>6 DEF DegradedMark, Local
    <3> QED
      BY <2>6, <3>1, <3>2 DEF DegradedMark, Goto, Locals, Grows
  <2>7. CASE DegradedPair(c)
    BY <2>7 DEF DegradedPair, Goto, Local, Locals, shadowVars
  <2>8. CASE DegradedPostSnap(c) /\ local[c].pre # NoSHA
    <3>1. Quiet(c, "post")
      <4>1. conn[c] = NoConn /\ phase[c] = "post" /\ <<c, "post">> \notin timedOut
        BY <2>8 DEF DegradedPostSnap, Waits, HookPhase, Late, Hook
      <4> QED
        BY <4>1, NotNoConn DEF Sole, Quiet, Ops
    <3>2. Quiet(c, "post")'
      BY <2>8, <3>1, ClientTasks, <1>4 DEF Quiet, DegradedPostSnap, Dial, Ops
    <3>3. local' = [local EXCEPT ![c].sha = tree] /\ stage[c] = "paired"
          /\ journal' = journal /\ stage' = [stage EXCEPT ![c] = "snapped"]
      BY <2>8 DEF DegradedPostSnap, Goto
    <3>4. local'[c].sha = tree /\ local'[c].pre = local[c].pre
      BY <3>3 DEF Local
    <3> QED
      BY <2>2, <2>8, <3>2, <3>3, <3>4 DEF Locals
  <2> QED
    BY <1>4, <2>3, <2>4, <2>5, <2>6, <2>7, <2>8, <2>9 DEF ClientNext, ClientStep,
       Receive, LockTimeout, DegradedFails, DegradedPreAppend, DegradedPostSnap,
       DegradedPostAppend
<1>5. ASSUME NEW d \in Daemons, DaemonNext(d) PROVE Locals'
  BY <1>1, <1>5, DaemonFrame DEF Locals, clientVars
<1> QED
  BY <1>2, <1>3, <1>4, <1>5 DEF Next, Over

\* An acknowledgement a hook's step adds is of what is in the journal by then,
\* and the end of the hook: nothing is left to be done for a post.
LEMMA NewlyAcked ==
  ASSUME TypeOK, HookPhase, Waits, Addressed, Locals, NEW c \in Cmds, ClientNext(c),
         NEW h \in acked', h \notin acked
  PROVE  /\ h = <<c, phase[c]>> /\ phase[c] \in Ops
         /\ phase'[c] = IF phase[c] = "pre" THEN "run" ELSE "done"
         /\ phase[c] = "post" => Quiet(c, "post")'
         /\ \A op \in Ops : op = phase[c] => Durable(c, op)'
<1> USE DEF TypeOK, ShadowTypeOK, ClientTypeOK
<1>1. phase[c] \in Ops /\ stage[c] # "none"
  BY HookMoves
<1>2. ASSUME NEW ok, HookEnds(c, ok)
      PROVE  h = <<c, phase[c]>> /\ phase'[c] = IF phase[c] = "pre" THEN "run" ELSE "done"
  BY <1>2 DEF HookEnds, Hook
<1>3. ~Dial(c) => (Quiet(c, "post") => Quiet(c, "post")')
  BY ClientTasks DEF Quiet, Ops
<1>4. CASE Receive(c)
  <2>1. PICK r \in Answers(c) : HookEnds(c, r.ok)
    BY <1>4 DEF Receive
  <2>2. r \in replies /\ r.cmd = c /\ r.ok
    BY <2>1 DEF Answers, HookEnds
  <2>3. r.op = phase[c]
    BY <2>2, AnswerAwaited
  <2>4. <<r.cmd, r.op>> \notin timedOut
    BY <1>4, <2>2, <2>3 DEF Receive, Late, Hook
  <2>5. Quiet(c, phase[c]) /\ Durable(c, phase[c])
    BY <2>2, <2>3, <2>4 DEF Addressed
  <2>6. journal' = journal /\ ~Dial(c)
    BY <1>4 DEF Receive, Dial
  <2>7. \A op \in Ops : op = phase[c] => Durable(c, op)'
    BY <2>5, <2>6 DEF Durable, Complete
  <2> QED
    BY <1>1, <1>2, <1>3, <2>1, <2>5, <2>6, <2>7
<1>5. CASE DegradedPreAppend(c)
  <2>1. phase[c] = "pre" /\ local[c].sha # NoSHA /\ local[c] \in Local
    BY <1>5 DEF DegradedPreAppend, HookPhase, Locals
  <2>2. PreRow(local[c].sha, local[c].overlapped) \in Entry
    BY <2>1, RowTypes DEF Local
  <2>3. PreRow(local[c].sha, local[c].overlapped).pre = local[c].sha
    BY DEF PreRow, NoEntry
  <2>4. journal'[c].pre # NoSHA
    BY <1>5, <2>1, <2>2, <2>3, AppendFacts DEF DegradedPreAppend, Later
  <2> QED
    BY <1>1, <1>2, <1>5, <2>1, <2>4 DEF DegradedPreAppend, Durable
<1>6. CASE DegradedPostAppend(c)
  <2> DEFINE row == [StatusRow("protected") EXCEPT !.post = local[c].sha]
  <2>1. /\ phase[c] = "post" /\ local[c].sha # NoSHA /\ journal[c].pre # NoSHA
        /\ Quiet(c, "post") /\ local[c] \in Local
    BY <1>6 DEF DegradedPostAppend, Locals
  <2>2. row \in Entry
    BY <2>1, RowTypes DEF Local, Statuses
  <2>3. row.pre = NoSHA /\ row.post = local[c].sha /\ row.status = "protected"
    BY DEF StatusRow, NoEntry
  <2>4. /\ journal'[c].pre = journal[c].pre /\ journal'[c].post = local[c].sha
        /\ journal'[c].status = "protected"
    BY <1>6, <2>1, <2>2, <2>3, AppendFacts DEF DegradedPostAppend, Later
  <2>5. Durable(c, "post")'
    BY <2>1, <2>4 DEF Durable, Complete
  <2>6. ~Dial(c)
    BY <1>6 DEF DegradedPostAppend, Dial
  <2> QED
    BY <1>1, <1>2, <1>3, <1>6, <2>1, <2>5, <2>6 DEF DegradedPostAppend
<1>7. CASE acked' \subseteq acked
  BY <1>7
<1>8. ASSUME HookEnds(c, FALSE) PROVE acked' = acked
  BY <1>8 DEF HookEnds
<1> QED
  BY <1>4, <1>5, <1>6, <1>7, <1>8 DEF ClientNext, ClientStep, Expire, Dial, ConnFails,
     Spawn, SpawnLoses, SpawnFails, RedialGivesUp, Acquire, LockTimeout, DegradedFails,
     DegradedPreSnap, DegradedMark, DegradedPair, DegradedPostSnap

LEMMA AckedStep ==
  ASSUME TypeOK, HookPhase, Waits, Addressed, Locals, AckedOver, AckedDurable,
         [Next]_vars
  PROVE  AckedOver' /\ AckedDurable'
<1> USE DEF TypeOK, ShadowTypeOK, ClientTypeOK
<1>1. ASSUME NEW c \in Cmds, <<c, "post">> \in acked
      PROVE  phase'[c] = "done" /\ Quiet(c, "post")'
  \* The command is over: it has no hook.
  <2>1. phase[c] = "done" /\ Quiet(c, "post") /\ stage[c] = "none"
    BY <1>1 DEF AckedOver, HookPhase, Ops
  <2>2. Quiet(c, "post")'
    BY <2>1, StaysQuiet DEF Dial, Ops
  <2>3. ASSUME NEW e \in Cmds, CommandStep(e) PROVE phase'[c] = "done"
    BY <2>1, <2>3 DEF CommandStep, PreHook, PostHook, HookStarts, Write, Esc, Ages
  <2>4. ASSUME NEW e \in Cmds, ClientNext(e) PROVE phase'[c] = "done"
    BY <2>1, <2>4, HookMoves
  <2>5. ASSUME NEW d \in Daemons, DaemonNext(d) PROVE phase'[c] = "done"
    BY <2>1, <2>5, DaemonFrame
  <2> QED
    BY <2>1, <2>2, <2>3, <2>4, <2>5 DEF Next, Over, vars, shadowVars
<1>2. ASSUME NEW h \in acked PROVE Durable(h[1], h[2])'
  <2>1. PICK c \in Cmds, op \in Ops : h = <<c, op>>
    BY <1>2
  <2>2. Durable(c, op)
    BY <1>2, <2>1 DEF AckedDurable
  <2>3. op = "post" => Quiet(c, "post") /\ stage[c] = "none"
    BY <1>2, <2>1 DEF AckedOver, HookPhase, Ops
  <2>4. Durable(c, op)'
    BY <2>2, <2>3, StaysDurable
  <2> QED
    BY <2>1, <2>4
<1>3. ASSUME acked' = acked PROVE AckedOver' /\ AckedDurable'
  BY <1>1, <1>2, <1>3 DEF AckedOver, AckedDurable
<1>4. CASE UNCHANGED vars
  BY <1>3, <1>4 DEF vars, clientVars
<1>5. ASSUME NEW c \in Cmds, CommandStep(c) PROVE AckedOver' /\ AckedDurable'
  BY <1>3, <1>5, CommandFrame
<1>6. ASSUME NEW c \in Cmds, ClientNext(c) PROVE AckedOver' /\ AckedDurable'
  <2>1. ASSUME NEW h \in acked', h \notin acked
        PROVE  /\ Durable(h[1], h[2])'
               /\ \A e \in Cmds : h = <<e, "post">> =>
                    phase'[e] = "done" /\ Quiet(e, "post")'
    BY <1>6, <2>1, NewlyAcked DEF Ops
  <2> QED
    BY <1>1, <1>2, <2>1 DEF AckedOver, AckedDurable
<1>7. ASSUME NEW d \in Daemons, DaemonNext(d) PROVE AckedOver' /\ AckedDurable'
  BY <1>3, <1>7, DaemonFrame DEF clientVars
<1> QED
  BY <1>4, <1>5, <1>6, <1>7 DEF Next, Over

-----------------------------------------------------------------------------
(* A pre is from before its command.                                          *)

LEMMA WritesStep ==
  ASSUME TypeOK, HookPhase, Waits, WritesLater, [Next]_vars
  PROVE  WritesLater'
<1> USE DEF TypeOK, ShadowTypeOK
<1>1. CASE UNCHANGED vars
  BY <1>1 DEF WritesLater, vars, shadowVars
<1>2. ASSUME NEW c \in Cmds, CommandStep(c) PROVE WritesLater'
  BY <1>2 DEF CommandStep, PreHook, PostHook, HookStarts, Write, Esc, Ages, WritesLater
<1>3. ASSUME NEW c \in Cmds, ClientNext(c) PROVE WritesLater'
  BY <1>3, ClientFrame, HookMoves DEF WritesLater, Ops
<1>4. ASSUME NEW d \in Daemons, DaemonNext(d) PROVE WritesLater'
  BY <1>4, DaemonFrame DEF WritesLater
<1> QED
  BY <1>1, <1>2, <1>3, <1>4 DEF Next, Over

\* A daemon snapshots for a pre within its budget while the command waits.
LEMMA PreCleanDaemon ==
  ASSUME TypeOK, Waits, Sole, Jobs, WritesLater, PreClean, NEW d \in Daemons,
         DaemonNext(d), NEW c \in Cmds, <<c, "pre">> \notin timedOut
  PROVE  /\ Before(c, journal'[c].pre)
         /\ Before(c, inflight'[d][c].pre)
         /\ worker'[d] # NoJob /\ worker'[d].cmd = c => Before(c, worker'[d].rec.pre)
<1> USE DEF TypeOK, ShadowTypeOK, DaemonTypeOK
<1>1. /\ Before(c, journal[c].pre)
      /\ Before(c, inflight[d][c].pre)
      /\ worker[d] # NoJob /\ worker[d].cmd = c => Before(c, worker[d].rec.pre)
  BY DEF PreClean
<1>2. Before(c, journal'[c].pre)
  BY <1>1, DaemonLedger
<1>3. NoRec.pre = NoSHA
  BY DEF NoRec
<1>4. CASE UNCHANGED <<inflight, worker>>
  BY <1>1, <1>2, <1>4
<1>5. CASE Exit(d) \/ Crash(d)
  BY <1>2, <1>3, <1>5 DEF Exit, Crash, Dies, Before
<1>6. CASE Take(d)
  <2>1. PICK r \in pending :
          /\ worker' = [worker EXCEPT ![d] =
               [cmd |-> r.cmd, op |-> r.op, at |-> "taken", post |-> NoSHA,
                rec |-> IF r.op = "post" THEN inflight[d][r.cmd] ELSE NoRec,
                status |-> ""]]
          /\ \/ inflight' = [inflight EXCEPT ![d] = [@ EXCEPT ![r.cmd] = NoRec]]
             \/ UNCHANGED inflight
    BY <1>6 DEF Take
  <2>2. inflight'[d][c] \in {inflight[d][c], NoRec}
    <3>1. CASE UNCHANGED inflight
      BY <3>1
    <3>2. CASE inflight' = [inflight EXCEPT ![d] = [@ EXCEPT ![r.cmd] = NoRec]]
      <4>1. inflight'[d] = [inflight[d] EXCEPT ![r.cmd] = NoRec]
        BY <3>2
      <4>2. inflight[d] \in [Cmds -> Rec]
        OBVIOUS
      <4> QED
        BY <4>1, <4>2
    <3> QED
      BY <2>1, <3>1, <3>2
  <2>3. /\ worker'[d].cmd = r.cmd
        /\ worker'[d].rec = IF r.op = "post" THEN inflight[d][r.cmd] ELSE NoRec
    BY <2>1
  <2> QED
    BY <1>1, <1>2, <1>3, <2>2, <2>3 DEF Before, Request
<1>7. CASE PreSnap(d)
  <2>1. worker[d] \in Job /\ worker[d] # NoJob /\ worker[d].op = "pre"
    BY <1>7, AtJob DEF PreSnap, At
  <2>2. worker'[d].cmd = worker[d].cmd /\ worker'[d].rec.pre = tree
    BY <1>7, <2>1 DEF PreSnap, Job, NoRec
  <2>3. ASSUME worker[d].cmd = c PROVE c \notin tree
    <3>1. JobOf(d, c, "pre")
      BY <2>1, <2>3 DEF JobOf
    <3>2. conn[c] = [op |-> "pre", to |-> d]
      BY <3>1 DEF Sole, Ops
    <3>3. conn[c].op = "pre" /\ conn[c] # NoConn
      BY <3>2, NotNoConn DEF Ops
    <3> QED
      BY <3>3 DEF Waits, WritesLater
  <2> QED
    BY <1>1, <1>2, <1>7, <2>2, <2>3 DEF PreSnap, Before
<1>8. CASE PreMark(d)
  <2>1. worker[d] \in Job /\ worker[d] # NoJob /\ worker[d].cmd \in Cmds
    BY <1>8, AtJob DEF PreMark, At, Job
  <2>2. worker[d].rec \in Rec
    BY <2>1 DEF Job
  <2>3. worker'[d].cmd = worker[d].cmd /\ worker'[d].rec.pre = worker[d].rec.pre
    BY <1>8, <2>1, <2>2 DEF PreMark, Job, Rec
  <2>4. inflight[d][c] \in Rec
    OBVIOUS
  <2>5. /\ c = worker[d].cmd => inflight'[d][c].pre = worker[d].rec.pre
        /\ c # worker[d].cmd => inflight'[d][c].pre = inflight[d][c].pre
    BY <1>8, <2>1, <2>2, <2>4 DEF PreMark, Rec
  <2> QED
    BY <1>1, <1>2, <2>1, <2>3, <2>5
<1>9. CASE PostPair(d)
  <2>1. worker[d] \in Job /\ worker[d] # NoJob
    BY <1>9, AtJob DEF PostPair, At
  <2>2. worker[d].rec \in Rec
    BY <2>1 DEF Job
  <2>3. worker'[d].cmd = worker[d].cmd
        /\ worker'[d].rec.pre = journal[worker[d].cmd].pre
    BY <1>9, <2>1, <2>2 DEF PostPair, Job, Rec
  <2> QED
    BY <1>1, <1>2, <1>9, <2>3 DEF PostPair
<1>10. CASE PostSnap(d)
  <2>1. worker[d] \in Job /\ worker[d] # NoJob
    BY <1>10, AtJob DEF PostSnap, At
  <2>2. worker'[d].cmd = worker[d].cmd /\ worker'[d].rec = worker[d].rec
    BY <1>10, <2>1 DEF PostSnap, Job
  <2> QED
    BY <1>1, <1>2, <1>10, <2>1, <2>2 DEF PostSnap
<1>11. CASE worker' = [worker EXCEPT ![d] = NoJob] /\ UNCHANGED inflight
  BY <1>1, <1>2, <1>11
<1>12. ASSUME NEW e \in Cmds, Sweep(d, e)
       PROVE  inflight'[d][c].pre = inflight[d][c].pre /\ UNCHANGED worker
  <2>1. inflight[d][e] \in Rec
    OBVIOUS
  <2>2. [inflight[d][e] EXCEPT !.swept = TRUE].pre = inflight[d][e].pre
    BY <2>1 DEF Rec
  <2>3. UNCHANGED worker
    BY <1>12 DEF Sweep
  <2>4. DEFINE rec == [inflight[d][e] EXCEPT !.swept = TRUE]
  <2>5. \/ inflight' = inflight
        \/ inflight' = [inflight EXCEPT ![d] = [@ EXCEPT ![e] = rec]]
    BY <1>12 DEF Sweep
  <2> HIDE DEF rec
  <2>6. inflight'[d][c] \in {inflight[d][c], IF c = e THEN rec ELSE inflight[d][c]}
    BY <2>5
  <2>7. rec.pre = inflight[d][e].pre
    BY <2>2 DEF rec
  <2> QED
    BY <2>3, <2>6, <2>7
<1> QED
  BY <1>1, <1>2, <1>4, <1>5, <1>6, <1>7, <1>8, <1>9, <1>10, <1>11, <1>12
  DEF DaemonNext, DaemonStep, WorkerStep, Listen, Stop, Flush, Refuse, PreFails,
      PreAppend, PostUnpaired, PostAppend, PostFails, Finish, Warm, daemonVars

LEMMA PreCleanStep ==
  ASSUME TypeOK, HookPhase, Waits, Sole, Jobs, WritesLater, PreClean, [Next]_vars
  PROVE  PreClean'
<1> USE DEF TypeOK, ShadowTypeOK, ClientTypeOK
<1>1. timedOut \subseteq timedOut'
  BY CommandFrame, DaemonFrame DEF Next, Over, vars, clientVars, ClientNext, ClientStep,
     Expire, Dial, Receive, ConnFails, Spawn, SpawnLoses, SpawnFails, RedialGivesUp,
     Acquire, LockTimeout, DegradedFails, DegradedPreSnap, DegradedMark,
     DegradedPreAppend, DegradedPair, DegradedPostSnap, DegradedPostAppend
<1>2. CASE UNCHANGED vars
  BY <1>2 DEF PreClean, vars, shadowVars, daemonVars, clientVars
<1>3. ASSUME NEW c \in Cmds, CommandStep(c) PROVE PreClean'
  <2>1. \A e \in Cmds : phase'[e] \in {"idle", "pre"} => phase[e] \in {"idle", "pre"}
    BY <1>3 DEF CommandStep, PreHook, PostHook, HookStarts, Write, Esc, Ages
  <2> QED
    BY <1>3, <2>1, CommandFrame DEF PreClean, daemonVars
<1>4. ASSUME NEW c \in Cmds, ClientNext(c) PROVE PreClean'
  <2>1. /\ phase'[c] \in {"idle", "pre"} => phase[c] = "pre"
        /\ local'[c].sha \in {local[c].sha, NoSHA}
             \/ (phase[c] = "pre" /\ local'[c].sha = tree) \/ phase'[c] = "post"
    <3>1. phase'[c] \in {"idle", "pre"} => phase[c] = "pre"
      BY <1>4, HookMoves DEF Ops
    <3>2. CASE DegradedPreSnap(c)
      BY <3>2 DEF DegradedPreSnap, Local
    <3>3. CASE DegradedPostSnap(c)
      BY <3>3 DEF DegradedPostSnap, HookEnds, NoLocal, HookPhase
    <3>4. CASE DegradedMark(c) \/ DegradedPair(c)
      <4>1. local[c] \in Local
        OBVIOUS
      <4>2. CASE DegradedMark(c)
        BY <4>1, <4>2 DEF DegradedMark, Local
      <4>3. CASE DegradedPair(c)
        <5>1. local' = [local EXCEPT ![c] =
                          [local[c] EXCEPT !.pre = journal[c].pre]]
          BY <4>3 DEF DegradedPair
        <5>2. [local[c] EXCEPT !.pre = journal[c].pre].sha = local[c].sha
          BY <4>1 DEF Local
        <5> QED
          BY <3>1, <5>1, <5>2
      <4> QED
        BY <3>4, <4>2, <4>3
    <3>5. ASSUME NEW ok, HookEnds(c, ok) PROVE local'[c].sha = NoSHA
      BY <3>5 DEF HookEnds, NoLocal
    <3>6. CASE UNCHANGED local
      BY <3>1, <3>6
    <3> QED
      BY <1>4, <3>1, <3>2, <3>3, <3>4, <3>5, <3>6 DEF ClientNext, ClientStep, Expire,
         Dial, Receive, ConnFails, Spawn, SpawnLoses, SpawnFails, RedialGivesUp, Acquire,
         LockTimeout, DegradedFails, DegradedPreAppend, DegradedPostAppend
  <2>2. ASSUME NEW e \in Cmds, <<e, "pre">> \notin timedOut
        PROVE  /\ Before(e, journal'[e].pre)
               /\ phase'[e] \in {"idle", "pre"} => Before(e, local'[e].sha)
    <3>1. CASE e = c
      <4>1. Before(c, journal'[c].pre)
        BY <1>4, <2>2, <3>1, ClientLedger DEF PreClean
      <4>2. phase'[c] \in {"idle", "pre"} => Before(c, local'[c].sha)
        BY <2>1, <2>2, <3>1 DEF PreClean, WritesLater, Before
      <4> QED
        BY <3>1, <4>1, <4>2
    <3>2. CASE e # c
      BY <1>4, <2>2, <3>2, ClientLedger, HookMoves DEF PreClean, RowKept
    <3> QED
      BY <3>1, <3>2
  <2> QED
    BY <1>1, <1>4, <2>2, ClientFrame DEF PreClean, daemonVars
<1>5. ASSUME NEW d \in Daemons, DaemonNext(d) PROVE PreClean'
  BY <1>5, DaemonFrame, DaemonMoves, PreCleanDaemon DEF PreClean, clientVars
<1> QED
  BY <1>2, <1>3, <1>4, <1>5 DEF Next, Over

-----------------------------------------------------------------------------
(* The theorems.                                                              *)

LEMMA InitInv == Init => SessionInv
<1> SUFFICES ASSUME Init PROVE SessionInv
  OBVIOUS
<1> USE DEF Init, ShadowInit, DaemonInit, ClientInit
<1>1. TypeOK
  <2>1. ShadowTypeOK
    BY NoEntryFields DEF ShadowTypeOK, Phases, Contents, SHA, Lives
  <2>2. DaemonTypeOK
    BY DEF DaemonTypeOK, NoRec, Rec, SHA
  <2>3. ClientTypeOK
    BY DEF ClientTypeOK, Stages, NoLocal, Local, SHA
  <2> QED
    BY <2>1, <2>2, <2>3 DEF TypeOK
<1>2. HookPhase /\ Waits /\ Holders
  BY DEF HookPhase, Waits, Holders, Ops
<1>3. Sole /\ Addressed /\ AckedOver /\ AckedDurable
  BY DEF Sole, Addressed, AckedOver, AckedDurable, JobOf, AskedOf
<1>4. Jobs /\ Locals /\ Opens /\ OpenPairFlagged
  BY DEF Jobs, Locals, Opens, OpenPairFlagged, NoLocal
<1>5. WritesLater /\ PreClean
  BY NoEntryFields DEF WritesLater, PreClean, Before, NoLocal, NoRec
<1> QED
  BY <1>1, <1>2, <1>3, <1>4, <1>5 DEF SessionInv

LEMMA TypeStep ==
  ASSUME TypeOK, HookPhase, Waits, [Next]_vars
  PROVE  TypeOK'
<1>1. CASE UNCHANGED vars
  BY <1>1 DEF vars, shadowVars, daemonVars, clientVars, TypeOK, ShadowTypeOK,
     DaemonTypeOK, ClientTypeOK
<1> QED
  BY <1>1, CommandTypes, ClientTypes, DaemonTypes DEF Next, Over

LEMMA InvStep == SessionInv /\ [Next]_vars => SessionInv'
  BY TypeStep, HookPhaseStep, WaitsStep, HoldersStep, SoleStep, AddressedStep, AckedStep,
     JobsStep, LocalsStep, OpensStep, WritesStep, PreCleanStep DEF SessionInv

\* The session's invariant holds in every state, for any number of commands and
\* daemon processes and whatever fails.
THEOREM InvHolds == Spec => []SessionInv
  BY InitInv, InvStep, PTL DEF Spec

\* Every variable always holds a value of its kind.
THEOREM TypeCorrect == Spec => []TypeOK
<1>1. SessionInv => TypeOK
  BY DEF SessionInv
<1> QED
  BY <1>1, InvHolds, PTL

\* What a hook was told is done is in the journal for good (handlePre, handlePost
\* and degraded append before they answer): no crash, restart, repeated request
\* or late job takes an acknowledged snapshot or its status back.
THEOREM AcksAreDurable == Spec => []AckedDurable
<1>1. SessionInv => AckedDurable
  BY DEF SessionInv
<1> QED
  BY <1>1, InvHolds, PTL

\* Any two pres open in one daemon are flagged overlapped (handlePre).
THEOREM OpenPairsAreFlagged == Spec => []OpenPairFlagged
<1>1. SessionInv => OpenPairFlagged
  BY DEF SessionInv
<1> QED
  BY <1>1, InvHolds, PTL

\* The pre snapshot of a hook that stayed within its budget is from before its
\* command ran, whichever path of the chain took it (Client.Snapshot).
THEOREM PresComeBefore == Spec => []PreBeforeRun
<1>1. SessionInv => PreBeforeRun
  BY DEF SessionInv, PreClean, Before, PreBeforeRun
<1> QED
  BY <1>1, InvHolds, PTL

\* The steps of a hook whose budget is over.
LEMMA LateSteps ==
  ASSUME TypeOK, HookPhase, NEW c \in Cmds, Late(c), ClientNext(c)
  PROVE  \/ stage[c] = "dial" /\ stage'[c] \in {"redial", "lock"}
         \/ stage[c] = "wait" /\ stage'[c] = "spawn"
         \/ stage[c] = "spawn" /\ stage'[c] \in {"redial", "lock"}
         \/ stage[c] \in {"redial", "rewait"} /\ stage'[c] = "lock"
         \/ stage[c] = "lock" /\ stage'[c] \in {"locked", "none"}
         \/ stage[c] = "locked" /\ stage'[c] \in {"paired", "none"}
         \/ stage[c] = "paired" /\ stage'[c] = "none"
         \/ stage[c] = "snapped" /\ stage'[c] \in {"marked", "none"}
         \/ stage[c] = "marked" /\ stage'[c] = "none"
<1>1. stage \in [Cmds -> Stages]
  BY DEF TypeOK, ClientTypeOK
<1>2. ASSUME NEW s, Goto(c, s) PROVE stage'[c] = s
  BY <1>1, <1>2 DEF Goto
<1>3. ASSUME NEW ok, HookEnds(c, ok) PROVE stage'[c] = "none"
  BY <1>2, <1>3 DEF HookEnds
<1>4. ~Expire(c) /\ ~Dial(c) /\ ~Receive(c) /\ ~DegradedPreSnap(c) /\ ~DegradedPostSnap(c)
  BY DEF Expire, Dial, Receive, DegradedPreSnap, DegradedPostSnap
<1>5. CASE ConnFails(c) \/ Spawn(c) \/ SpawnLoses(c) \/ SpawnFails(c) \/ RedialGivesUp(c)
  BY <1>2, <1>5 DEF ConnFails, Spawn, SpawnLoses, SpawnFails, RedialGivesUp, Unserved
<1>6. CASE Acquire(c) \/ LockTimeout(c) \/ DegradedFails(c)
  BY <1>2, <1>3, <1>6 DEF Acquire, LockTimeout, DegradedFails
<1>7. CASE DegradedMark(c) \/ DegradedPreAppend(c) \/ DegradedPair(c) \/ DegradedPostAppend(c)
  BY <1>2, <1>3, <1>7 DEF DegradedMark, DegradedPreAppend, DegradedPair, DegradedPostAppend
<1> QED
  BY <1>4, <1>5, <1>6, <1>7 DEF ClientNext, ClientStep

\* No other step moves such a hook.
LEMMA OthersLeaveLate ==
  ASSUME TypeOK, HookPhase, Waits, NEW c \in Cmds, Late(c), [Next]_vars, ~ClientNext(c)
  PROVE  stage'[c] = stage[c]
<1>1. phase[c] \in Ops /\ stage \in [Cmds -> Stages] /\ phase \in [Cmds -> Phases]
  BY DEF TypeOK, ShadowTypeOK, ClientTypeOK, Late, Hook
<1>2. ASSUME NEW e \in Cmds, CommandStep(e) PROVE stage'[c] = stage[c]
  BY <1>1, <1>2 DEF CommandStep, PreHook, PostHook, HookStarts, Goto, Write, Esc, Ages, clientVars,
     Ops
<1>3. ASSUME NEW e \in Cmds, e # c, ClientNext(e) PROVE stage'[c] = stage[c]
  BY <1>1, <1>3, HookMoves
<1>4. ASSUME NEW d \in Daemons, DaemonNext(d) PROVE stage'[c] = stage[c]
  BY <1>4 DEF DaemonNext, clientVars
<1>5. CASE UNCHANGED vars
  BY <1>5 DEF vars, clientVars
<1> QED
  BY <1>2, <1>3, <1>4, <1>5 DEF Next, Over

\* Client.Snapshot: a hook whose budget is over ends after eight steps of its own at most,
\* whatever daemons, other hooks and the agent do.
THEOREM HooksWindDown == Spec => HookWindsDown
<1>1. ASSUME SessionInv, [Next]_vars, NEW c \in Cmds, Late(c)
      PROVE  /\ StepsLeft[stage[c]]' <= StepsLeft[stage[c]]
             /\ ClientNext(c) => StepsLeft[stage[c]]' < StepsLeft[stage[c]]
  <2>1. TypeOK /\ HookPhase /\ Waits
    BY <1>1 DEF SessionInv
  <2>2. /\ StepsLeft["none"] = 0 /\ StepsLeft["marked"] = 1 /\ StepsLeft["snapped"] = 2
        /\ StepsLeft["paired"] = 3 /\ StepsLeft["locked"] = 4 /\ StepsLeft["lock"] = 5
        /\ StepsLeft["redial"] = 6 /\ StepsLeft["spawn"] = 7 /\ StepsLeft["rewait"] = 7
        /\ StepsLeft["wait"] = 8 /\ StepsLeft["dial"] = 8
    BY DEF StepsLeft
  <2>3. StepsLeft[stage[c]]' = StepsLeft[stage'[c]]
    BY DEF StepsLeft
  <2>4. CASE ClientNext(c)
    BY <1>1, <2>1, <2>2, <2>3, <2>4, LateSteps
  <2>5. CASE ~ClientNext(c)
    <3>1. stage'[c] = stage[c] /\ stage[c] \in Stages
      BY <1>1, <2>1, <2>5, OthersLeaveLate DEF TypeOK, ClientTypeOK
    <3>2. StepsLeft[stage[c]] \in Nat
      BY <2>2, <3>1 DEF Stages
    <3> QED
      BY <2>3, <2>5, <3>1, <3>2
  <2> QED
    BY <2>4, <2>5
<1>2. SessionInv /\ [Next]_vars =>
        [\A c \in Cmds : Late(c) =>
           /\ StepsLeft[stage[c]]' <= StepsLeft[stage[c]]
           /\ ClientNext(c) => StepsLeft[stage[c]]' < StepsLeft[stage[c]]]_vars
  BY <1>1
<1> QED
  BY <1>2, InvHolds, PTL DEF Spec, HookWindsDown
=============================================================================
