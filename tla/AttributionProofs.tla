-------------------------- MODULE AttributionProofs --------------------------
(* Whose changes a protected entry holds, proved for any number of commands   *)
(* where one daemon serves them all, and where every hook writes directly.    *)
EXTENDS LedgerProofs, AttributionInv

(* The flag in the rows.                                                      *)

\* A flag once set stays set through a merge: mergeEntry keeps the OR.
LEMMA MergeFlag ==
  ASSUME NEW e \in Entry, NEW r \in Entry
  PROVE  MergeEntry(NoEntry, e, r).overlapped = (e.overlapped \/ r.overlapped)
<1>1. MergeEntry(NoEntry, e, r).overlapped = Later(FALSE, e.overlapped, r.overlapped)
  BY NoEntryFields DEF MergeEntry, Fields
<1>2. e.overlapped \in BOOLEAN /\ r.overlapped \in BOOLEAN
  BY DEF Entry
<1> QED
  BY <1>1, <1>2, Zenon DEF Later

\* A row of one command: its entry has the row's pre and post, or the old ones.
LEMMA AppendFlag ==
  ASSUME journal \in [Cmds -> Entry], NEW c \in Cmds, NEW row \in Entry,
         AppendRow(c, row)
  PROVE  journal'[c].overlapped = (journal[c].overlapped \/ row.overlapped)
<1>1. journal'[c] = MergeEntry(NoEntry, journal[c], row)
  BY DEF AppendRow, Merged
<1> QED
  BY <1>1, MergeFlag

\* The same of the rows that one open pre after another gets.
LEMMA AppendAllFlags ==
  ASSUME journal \in [Cmds -> Entry], NEW cs, NEW row \in Entry, AppendRows(cs, row),
         NEW e \in Cmds
  PROVE  journal'[e].overlapped = (journal[e].overlapped \/ (e \in cs /\ row.overlapped))
<1>1. CASE e \in cs
  <2>1. journal'[e] = MergeEntry(NoEntry, journal[e], row)
    BY <1>1 DEF AppendRows, Merged
  <2>2. journal'[e].overlapped = (journal[e].overlapped \/ row.overlapped)
    BY <2>1, MergeFlag
  <2> QED
    BY <1>1, <2>2
<1>2. CASE e \notin cs
  <2>1. journal'[e] = journal[e]
    BY <1>2 DEF AppendRows
  <2>2. journal[e].overlapped \in BOOLEAN
    BY DEF Entry
  <2> QED
    BY <1>2, <2>1, <2>2
<1> QED
  BY <1>1, <1>2
-----------------------------------------------------------------------------
(* One daemon serves every hook.                                              *)

\* A served hook only dials, spawns and gets its answer.
LEMMA ServedClient ==
  ASSUME AlwaysServed, TypeOK, Waits, HookPhase, OneServer, NEW c \in Cmds, ClientNext(c)
  PROVE  /\ Dial(c) \/ Receive(c) \/ Spawn(c) \/ SpawnLoses(c)
         /\ UNCHANGED <<timedOut, journal>>
<1>1. ~Late(c) /\ "slow" \notin Faults /\ "nospawn" \notin Faults /\ "deadline" \notin Faults
  BY DEF OneServer, Late, AlwaysServed
<1>2. ~ConnFails(c)
  <2>1. ASSUME ConnFails(c) PROVE FALSE
    <3>1. conn[c] # NoConn
      BY <2>1 DEF ConnFails, Waits
    <3>2. conn[c].to \in Daemons /\ conn[c].to = socket
      BY <3>1 DEF OneServer, TypeOK, ShadowTypeOK
    <3>3. dstate[conn[c].to] = "serving"
      BY <3>2 DEF OneServer
    <3> QED
      BY <1>1, <2>1, <3>3 DEF ConnFails
  <2> QED
    BY <2>1
<1>3. ~SpawnFails(c)
  BY <1>1 DEF SpawnFails, Used, OneServer, AlwaysServed
<1>4. ~RedialGivesUp(c)
  BY <1>1 DEF RedialGivesUp, OneServer
<1>5. stage[c] \notin {"lock", "locked", "paired", "snapped", "marked"}
  BY DEF OneServer
<1>6. Dial(c) \/ Receive(c) \/ Spawn(c) \/ SpawnLoses(c)
  BY <1>1, <1>2, <1>3, <1>4, <1>5 DEF ClientNext, ClientStep, Expire, Acquire, LockTimeout,
     DegradedFails, DegradedPreSnap, DegradedMark, DegradedPreAppend, DegradedPair,
     DegradedPostSnap, DegradedPostAppend
<1> QED
  BY <1>6 DEF Dial, Receive, Spawn, SpawnLoses, shadowVars

\* A step of a daemon other than its start is one of the server's worker, or of its
\* sweep.
ServerStep(d) == WorkerStep(d) \/ Warm(d) \/ \E c \in Cmds : Sweep(d, c)

\* A daemon only binds the socket or, having it, serves.
LEMMA ServedDaemon ==
  ASSUME AlwaysServed, TypeOK, Holders, OneServer, NEW d \in Daemons, DaemonNext(d)
  PROVE  \/ Listen(d) /\ UNCHANGED clientVars
         \/ /\ socket = d /\ dstate[d] = "serving" /\ ServerStep(d)
            /\ UNCHANGED <<dstate, socket, clientVars>>
<1>1. /\ "stop" \notin Faults /\ "crash" \notin Faults
      /\ dstate[d] \in {"unspawned", "starting", "serving", "dead"}
  BY DEF AlwaysServed, OneServer
<1>2. UNCHANGED clientVars
  BY DEF DaemonNext
<1>3. Listen(d) \/ ServerStep(d)
  BY <1>1 DEF DaemonNext, DaemonStep, ServerStep, Stop, Flush, Exit, Crash, Refuse
<1>4. ASSUME ServerStep(d)
      PROVE  /\ socket = d /\ dstate[d] = "serving"
             /\ UNCHANGED <<dstate, socket>>
  <2>1. Alive(d) \/ worker[d] # NoJob
    BY <1>4 DEF ServerStep, WorkerStep, Take, PreSnap, PreFails, PreMark, PreAppend,
       PostPair, PostUnpaired, PostSnap, PostAppend, PostFails, At, Warm, Sweep, Alive
  <2>2. dstate[d] = "serving"
    BY <1>1, <2>1 DEF Holders, Alive
  <2>3. UNCHANGED <<dstate, socket>>
    BY <1>4 DEF ServerStep, WorkerStep, Take, PreSnap, PreFails, PreMark, PreAppend,
       PostPair, PostUnpaired, PostSnap, PostAppend, PostFails, Warm, Sweep, shadowVars
  <2> QED
    BY <2>2, <2>3 DEF OneServer
<1> QED
  BY <1>2, <1>3, <1>4

\* OneServer is kept.
LEMMA OneServerStep ==
  ASSUME AlwaysServed, TypeOK, HookPhase, Waits, Holders, OneServer, [Next]_vars
  PROVE  OneServer'
<1> USE DEF TypeOK, ShadowTypeOK
<1>1. CASE UNCHANGED vars
  BY <1>1 DEF OneServer, Claimed, vars, shadowVars, clientVars, daemonVars
<1>2. ASSUME NEW c \in Cmds, CommandStep(c) PROVE OneServer'
  <2>1. UNCHANGED <<dstate, socket, conn, daemonVars, timedOut>>
    BY <1>2, CommandFrame
  <2>2. \A e \in Cmds : stage'[e] = stage[e] \/ stage'[e] = "dial"
    BY <1>2 DEF CommandStep, PreHook, PostHook, HookStarts, Write, Esc, Ages, Goto,
       clientVars, ClientTypeOK
  <2> QED
    BY <2>1, <2>2 DEF OneServer, Claimed, daemonVars
<1>3. ASSUME NEW c \in Cmds, ClientNext(c) PROVE OneServer'
  <2>1. UNCHANGED <<timedOut, socket, open, inflight>>
    BY <1>3, ServedClient, ClientFrame DEF Dial, Receive, Spawn, SpawnLoses, shadowVars,
       daemonVars
  <2>2. \/ UNCHANGED dstate /\ stage'[c] # "redial"
        \/ UNCHANGED dstate /\ Claimed
        \/ \E d \in Daemons : /\ dstate[d] = "unspawned"
                              /\ dstate' = [dstate EXCEPT ![d] = "starting"]
    BY <1>3, ServedClient DEF Dial, Receive, Spawn, SpawnLoses, shadowVars, HookEnds, Goto,
       ClientTypeOK
  <2>3. Claimed => Claimed'
    BY <2>2 DEF Claimed
  <2>4. (\E d \in Daemons : dstate'[d] # "unspawned") => Claimed'
    BY <2>2, <2>3 DEF OneServer, Claimed
  <2>5. ASSUME NEW d \in Daemons
        PROVE  /\ dstate'[d] \in {"unspawned", "starting", "serving", "dead"}
               /\ dstate'[d] = "serving" <=> socket' = d
               /\ socket' # d => open'[d] = {} /\ \A e \in Cmds : Nil(inflight'[d][e])
    BY <2>1, <2>2 DEF OneServer
  <2>6. ASSUME NEW e \in Cmds
        PROVE  /\ stage'[e] \in {"none", "dial", "wait", "redial", "rewait"}
               /\ stage'[e] = "redial" => Claimed'
               /\ conn'[e] # NoConn => conn'[e].to = socket'
    <3>1. CASE e # c
      BY <1>3, <2>1, <2>3, <3>1, HookMoves DEF OneServer
    <3>2. CASE e = c
      <4>1. /\ stage'[c] \in {"none", "wait", "redial", "rewait"}
            /\ stage'[c] = "redial" => Claimed'
        BY <1>3, <2>2, ServedClient DEF Dial, Receive, Spawn, SpawnLoses, HookEnds, Goto,
           ClientTypeOK, Claimed
      <4>2. conn'[c] # NoConn => conn'[c].to = socket'
        BY <1>3, ServedClient DEF Dial, Receive, Spawn, SpawnLoses, HookEnds, OneServer,
           shadowVars
      <4> QED
        BY <3>2, <4>1, <4>2
    <3> QED
      BY <3>1, <3>2
  <2> QED
    BY <2>1, <2>4, <2>5, <2>6 DEF OneServer, Nil
<1>4. ASSUME NEW d \in Daemons, DaemonNext(d) PROVE OneServer'
  <2>1. UNCHANGED <<conn, clientVars>>
    BY <1>4, DaemonFrame
  <2>2. CASE Listen(d)
    <3>1. UNCHANGED <<open, inflight>> /\ socket # d
      BY <2>2 DEF Listen, OneServer
    <3>2. \A e \in Cmds : conn[e] = NoConn \/ socket # NoDaemon
      BY SentinelAssumption DEF OneServer
    <3>3. \/ socket = NoDaemon /\ socket' = d /\ dstate' = [dstate EXCEPT ![d] = "serving"]
          \/ /\ socket \in Daemons /\ dstate[socket] = "serving" /\ socket' = socket
             /\ dstate' = [dstate EXCEPT ![d] = "dead"]
      BY <2>2 DEF Listen, OneServer
    <3>4. Claimed'
      BY <3>1, <3>3 DEF Claimed
    <3>5. \A e \in Cmds : conn'[e] # NoConn => conn'[e].to = socket'
      BY <2>1, <3>2, <3>3 DEF OneServer
    <3>6. ASSUME NEW e \in Daemons
          PROVE  /\ dstate'[e] \in {"unspawned", "starting", "serving", "dead"}
                 /\ dstate'[e] = "serving" <=> socket' = e
                 /\ socket' # e => open'[e] = {} /\ \A c \in Cmds : Nil(inflight'[e][c])
      BY <3>1, <3>3, SentinelAssumption DEF OneServer
    <3> QED
      BY <2>1, <3>4, <3>5, <3>6 DEF OneServer, clientVars, Nil
  <2>3. CASE socket = d /\ UNCHANGED <<dstate, socket>>
    <3>1. \A e \in Daemons \ {d} : open'[e] = open[e] /\ inflight'[e] = inflight[e]
      BY <1>4, DaemonMoves
    <3> QED
      BY <2>1, <2>3, <3>1 DEF OneServer, Claimed, clientVars, Nil
  <2> QED
    BY <1>4, <2>2, <2>3, ServedDaemon
<1> QED
  BY <1>1, <1>2, <1>3, <1>4 DEF Next, Over

RememberedAt(d, c) == journal[c].pre # NoSHA /\ PostDue(c) => ~Nil(inflight[d][c])

Right(d, c) ==
  RememberedAt(d, c) /\ MemoryRight(d, c) /\ PreJobRight(d, c) /\ PostJobRight(d, c)

KeepsFlag(c) == Flagged(c) /\ phase[c] \notin {"idle", "pre"} => Flagged(c)'

\* What the server's step starts from.
Serving(d) ==
  /\ SessionInv /\ Backed /\ AgedOver /\ OneServer /\ Remembered /\ DaemonRight
  /\ socket = d

\* What Serving(d) collects.
LEMMA ServingFacts ==
  ASSUME NEW d \in Daemons, Serving(d)
  PROVE  /\ TypeOK /\ HookPhase /\ Waits /\ Holders /\ Sole /\ Jobs /\ OpenPairFlagged
         /\ WritesLater /\ AgedOver /\ Backed /\ OneServer /\ Opens
         /\ \A c \in Cmds : Right(d, c)
<1>1. SessionInv /\ Remembered /\ DaemonRight /\ socket = d /\ OneServer
  BY DEF Serving
<1>2. \A e \in Daemons \ {d} : \A c \in Cmds : Nil(inflight[e][c])
  BY <1>1 DEF OneServer
<1>3. ASSUME NEW c \in Cmds PROVE RememberedAt(d, c)
  BY <1>1, <1>2 DEF Remembered, RememberedAt
<1> QED
  BY <1>1, <1>3 DEF Serving, SessionInv, DaemonRight, Right

\* A task is of a hook that waits for it.
LEMMA TaskPhase ==
  ASSUME Waits, Sole, timedOut = {}, NEW d \in Daemons, NEW c \in Cmds, NEW op \in Ops,
         JobOf(d, c, op) \/ AskedOf(d, c, op)
  PROVE  /\ conn[c] = [op |-> op, to |-> d] /\ phase[c] = op
         /\ JobOf(d, c, op) => ~\E e \in Daemons : AskedOf(e, c, op)
<1>1. \A e \in Daemons : /\ JobOf(e, c, op) \/ AskedOf(e, c, op) =>
                              conn[c] = [op |-> op, to |-> e]
                         /\ ~(JobOf(e, c, op) /\ AskedOf(e, c, op))
  BY DEF Sole
<1>2. conn[c] = [op |-> op, to |-> d]
  BY <1>1
<1>3. ASSUME JobOf(d, c, op), NEW e \in Daemons, AskedOf(e, c, op) PROVE FALSE
  <2>1. conn[c] = [op |-> op, to |-> e]
    BY <1>1, <1>3
  <2>2. conn[c].to = e /\ conn[c].to = d
    BY <1>2, <2>1
  <2> QED
    BY <1>1, <1>3, <2>2
<1>4. conn[c] # NoConn
  BY <1>2 DEF NoConn, Ops
<1> QED
  BY <1>2, <1>3, <1>4 DEF Waits

\* A pre enters the journal before its command has written.
NewPresClean == \A e \in Cmds : journal'[e].pre # NoSHA => journal[e].pre # NoSHA \/ e \notin tree

\* A row gets its pre while the pre hook of its command runs, ...
LEMMA PresOfPre ==
  ASSUME NEW d \in Daemons, Serving(d), DaemonNext(d), NEW c \in Cmds,
         journal'[c].pre # NoSHA, journal[c].pre = NoSHA
  PROVE  phase[c] = "pre"
<1> USE ServingFacts
<1>1. worker[d] # NoJob /\ worker[d].cmd = c /\ worker[d].rec.pre # NoSHA
  BY DaemonLedger
<1>2. worker[d].op \in Ops
  BY <1>1 DEF TypeOK, DaemonTypeOK, Job
<1>3. worker[d].op # "post"
  BY <1>1 DEF Backed, JobOf
<1>4. JobOf(d, c, "pre")
  BY <1>1, <1>2, <1>3 DEF JobOf, Ops
<1> QED
  BY <1>4, TaskPhase DEF Ops, OneServer

\* ... before the command has written anything, ...
LEMMA PresClean ==
  ASSUME NEW d \in Daemons, Serving(d), DaemonNext(d)
  PROVE  NewPresClean
  BY PresOfPre, ServingFacts DEF NewPresClean, WritesLater

\* ... so a new row makes no stray of what has been written already.
LEMMA StraysStay ==
  ASSUME NewPresClean, tree' = tree, tree \subseteq Cmds, NEW c \in Cmds, NEW pre,
         \A e \in Cmds : journal[e].pre # NoSHA => journal'[e].pre # NoSHA
  PROVE  {e \in tree' \ pre : e # c /\ journal'[e].pre # NoSHA} = Strays(c, pre)
  BY DEF NewPresClean, Strays
-----------------------------------------------------------------------------
(* The server's steps, one by one.                                            *)

\* The server takes a request: a post takes the record out of the memory.
LEMMA TakeServed ==
  ASSUME NEW d \in Daemons, Serving(d), Take(d), NEW c \in Cmds
  PROVE  Right(d, c)' /\ KeepsFlag(c)
<1> USE DEF TypeOK, ShadowTypeOK, DaemonTypeOK
<1>1. TypeOK /\ Right(d, c) /\ timedOut = {} /\ Waits /\ Sole
  BY ServingFacts DEF OneServer
<1>2. PICK r \in pending :
        /\ r.to = d
        /\ pending' = pending \ {r}
        /\ worker' = [worker EXCEPT ![d] =
             [cmd |-> r.cmd, op |-> r.op, at |-> "taken", post |-> NoSHA,
              rec |-> IF r.op = "post" THEN inflight[d][r.cmd] ELSE NoRec,
              status |-> ""]]
        /\ IF r.op = "post"
           THEN /\ inflight' = [inflight EXCEPT ![d][r.cmd] = NoRec]
                /\ open' = [open EXCEPT ![d] = @ \ {r.cmd}]
           ELSE UNCHANGED <<inflight, open>>
  BY DEF Take
<1>3. r = [cmd |-> r.cmd, op |-> r.op, to |-> d] /\ r.cmd \in Cmds /\ r.op \in Ops
  BY <1>1, <1>2 DEF Request
<1>4. /\ worker'[d].cmd = r.cmd /\ worker'[d].op = r.op /\ worker'[d].at = "taken"
      /\ worker'[d].post = NoSHA
      /\ worker'[d].rec = IF r.op = "post" THEN inflight[d][r.cmd] ELSE NoRec
      /\ \A e \in Daemons \ {d} : worker'[e] = worker[e]
  BY <1>1, <1>2
<1>5. UNCHANGED <<phase, aged, tree, journal, conn>>
  BY DEF Take
<1>10. /\ \A e \in Daemons : inflight'[e][c] =
           IF r.op = "post" /\ e = d /\ c = r.cmd THEN NoRec ELSE inflight[e][c]
       /\ open'[d] = IF r.op = "post" THEN open[d] \ {r.cmd} ELSE open[d]
  <2>1. CASE r.op = "post"
    <3>1. /\ inflight' = [inflight EXCEPT ![d] = [inflight[d] EXCEPT ![r.cmd] = NoRec]]
          /\ open' = [open EXCEPT ![d] = open[d] \ {r.cmd}]
      BY <1>1, <1>2, <2>1
    <3>2. /\ inflight'[d] = [inflight[d] EXCEPT ![r.cmd] = NoRec]
          /\ \A e \in Daemons \ {d} : inflight'[e] = inflight[e]
      BY <1>1, <3>1
    <3>3. inflight[d] \in [Cmds -> Rec]
      BY <1>1
    <3>4. inflight'[d][c] = IF c = r.cmd THEN NoRec ELSE inflight[d][c]
      BY <3>2, <3>3
    <3> QED
      BY <1>1, <2>1, <3>1, <3>2, <3>4
  <2>2. CASE r.op # "post"
    BY <1>2, <2>2
  <2> QED
    BY <2>1, <2>2
<1>6. PostDue(c)' => PostDue(c)
  BY <1>2, <1>5 DEF PostDue, AskedOf
<1>7. AskedOf(d, r.cmd, r.op)
  BY <1>2, <1>3 DEF AskedOf
<1>8. CASE r.op = "pre" \/ r.cmd # c
  <2>1. inflight'[d][c] = inflight[d][c] /\ (c \in open'[d] <=> c \in open[d])
    BY <1>10, <1>3, <1>8
  <2>2. ~JobOf(d, c, "post")' /\ ~(JobOf(d, c, "pre") /\ worker[d].at # "taken")'
    BY <1>4, <1>8 DEF JobOf
  <2>3. RememberedAt(d, c)' /\ MemoryRight(d, c)'
    BY <1>1, <1>5, <1>6, <2>1 DEF Right, RememberedAt, MemoryRight, Unfinished, Strays
  <2>4. PreJobRight(d, c)' /\ PostJobRight(d, c)'
    BY <2>2 DEF PreJobRight, PostJobRight
  <2>5. KeepsFlag(c)
    <3>1. \A e \in Daemons : inflight'[e][c] = inflight[e][c]
      BY <1>10, <1>8
    <3>2. \A e \in Daemons \ {d} : JobOf(e, c, "post")' => JobOf(e, c, "post")
      BY <1>4 DEF JobOf
    <3> QED
      BY <1>4, <1>5, <2>2, <3>1, <3>2 DEF KeepsFlag, Flagged
  <2> QED
    BY <2>3, <2>4, <2>5 DEF Right
<1>9. CASE r.op = "post" /\ r.cmd = c
  <2>1. conn[c] = [op |-> "post", to |-> d] /\ phase[c] = "post"
    BY <1>1, <1>7, <1>9, TaskPhase DEF Ops
  <2>2. ~PostDue(c)'
    <3>1. ASSUME NEW e \in Daemons, AskedOf(e, c, "post")' PROVE FALSE
      <4>1. AskedOf(e, c, "post")
        BY <1>2, <3>1 DEF AskedOf
      <4>2. conn[c] = [op |-> "post", to |-> e]
        BY <1>1, <4>1, TaskPhase DEF Ops
      <4>3. e = d
        BY <2>1, <4>2
      <4> QED
        BY <1>2, <1>3, <1>9, <3>1, <4>3 DEF AskedOf
    <3> QED
      BY <1>5, <2>1, <3>1 DEF PostDue, NoConn
  <2>3. inflight'[d][c] = NoRec /\ open'[d] = open[d] \ {c}
    BY <1>10, <1>9
  <2>4. Nil(NoRec)
    BY DEF Nil, NoRec
  <2>5. RememberedAt(d, c)' /\ MemoryRight(d, c)' /\ PreJobRight(d, c)'
    BY <1>4, <1>9, <2>2, <2>3, <2>4
    DEF RememberedAt, MemoryRight, PreJobRight, JobOf, Nil
  <2>6. PostDue(c)
    BY <1>7, <1>9 DEF PostDue
  <2>7. ASSUME ~Nil(inflight[d][c])
        PROVE  Strays(c, inflight[d][c].pre) # {} \/ open'[d] # {} =>
                 inflight[d][c].overlapped
    <3>1. Unfinished(c)
      BY <2>1 DEF Unfinished
    <3>2. c \in open[d] /\ (Strays(c, inflight[d][c].pre) # {} => inflight[d][c].overlapped)
      BY <1>1, <2>7, <3>1 DEF Right, MemoryRight
    <3>3. ASSUME NEW e \in open[d], e # c PROVE inflight[d][c].overlapped
      BY <3>2, <3>3, ServingFacts DEF OpenPairFlagged
    <3> QED
      BY <2>3, <3>2, <3>3
  <2>8. PostJobRight(d, c)'
    <3>1. worker'[d].rec = inflight[d][c]
      BY <1>4, <1>9
    <3>2. Nil(inflight[d][c]) => journal[c].pre = NoSHA
      BY <1>1, <2>6 DEF Right, RememberedAt
    <3> QED
      BY <1>4, <1>5, <2>7, <3>1, <3>2 DEF PostJobRight, Nil, Strays
  <2>9. KeepsFlag(c)
    <3>1. \A e \in Daemons \ {d} : inflight'[e][c] = inflight[e][c]
      BY <1>10
    <3>2. \A e \in Daemons \ {d} : JobOf(e, c, "post")' => JobOf(e, c, "post")
      BY <1>4 DEF JobOf
    <3>3. worker'[d].rec = inflight[d][c]
      BY <1>4, <1>9
    <3> QED
      BY <1>4, <1>5, <2>3, <2>4, <3>1, <3>2, <3>3 DEF KeepsFlag, Flagged, Nil
  <2> QED
    BY <2>5, <2>8, <2>9 DEF Right
<1> QED
  BY <1>3, <1>8, <1>9 DEF Ops

\* A snapshot changes nothing that a record is compared with.
LEMMA PreSnapServed ==
  ASSUME NEW d \in Daemons, Serving(d), PreSnap(d), NEW c \in Cmds
  PROVE  Right(d, c)' /\ KeepsFlag(c)
<1> USE DEF TypeOK, ShadowTypeOK, DaemonTypeOK
<1>1. TypeOK /\ Right(d, c)
  BY ServingFacts
<1>2. worker[d] \in Job /\ worker[d].op = "pre" /\ worker[d] # NoJob
  BY <1>1, AtJob DEF PreSnap, At
<1>3. /\ worker'[d].op = "pre" /\ worker'[d].at = "snapped"
      /\ worker'[d].rec.pre = tree
      /\ \A e \in Daemons \ {d} : worker'[e] = worker[e]
  BY <1>1, <1>2 DEF PreSnap, Job, NoRec
<1>4. UNCHANGED <<phase, aged, tree, journal, conn, pending, inflight, open>>
  BY DEF PreSnap
<1>5. RememberedAt(d, c)' /\ MemoryRight(d, c)'
  BY <1>1, <1>4
  DEF Right, RememberedAt, MemoryRight, PostDue, AskedOf, Unfinished, Strays
<1>6. PreJobRight(d, c)' /\ PostJobRight(d, c)'
  BY <1>3, <1>4 DEF PreJobRight, PostJobRight, JobOf, Strays
<1>7. KeepsFlag(c)
  BY <1>3, <1>4 DEF KeepsFlag, Flagged, JobOf, Nil
<1> QED
  BY <1>5, <1>6, <1>7 DEF Right

\* The server snapshots for a post.
LEMMA PostSnapServed ==
  ASSUME NEW d \in Daemons, Serving(d), PostSnap(d), NEW c \in Cmds
  PROVE  Right(d, c)' /\ KeepsFlag(c)
<1> USE DEF TypeOK, ShadowTypeOK, DaemonTypeOK
<1>1. TypeOK /\ Right(d, c)
  BY ServingFacts
<1>2. worker[d] \in Job /\ worker[d].op = "post" /\ worker[d] # NoJob
  BY <1>1, AtJob DEF PostSnap, At
<1>3. /\ worker'[d].cmd = worker[d].cmd /\ worker'[d].op = "post"
      /\ worker'[d].at = "snapped"
      /\ worker'[d].rec = worker[d].rec /\ worker'[d].post = tree
      /\ \A e \in Daemons \ {d} : worker'[e] = worker[e]
  BY <1>1, <1>2 DEF PostSnap, Job
<1>4. UNCHANGED <<phase, aged, tree, journal, conn, pending, inflight, open>>
  BY DEF PostSnap
<1>5. RememberedAt(d, c)' /\ MemoryRight(d, c)'
  BY <1>1, <1>4
  DEF Right, RememberedAt, MemoryRight, PostDue, AskedOf, Unfinished, Strays
<1>6. JobOf(d, c, "post")' => JobOf(d, c, "post")
  BY <1>2, <1>3 DEF JobOf
<1>7. PreJobRight(d, c)' /\ PostJobRight(d, c)'
  BY <1>1, <1>3, <1>4, <1>6 DEF Right, PreJobRight, PostJobRight, JobOf, Strays, Nil
<1>8. KeepsFlag(c)
  <2>1. \A e \in Daemons : JobOf(e, c, "post")' => JobOf(e, c, "post")
    BY <1>3, <1>6 DEF JobOf
  <2>2. \A e \in Daemons : JobOf(e, c, "post")' => worker'[e].rec = worker[e].rec
    BY <1>3
  <2> QED
    BY <1>4, <2>1, <2>2 DEF KeepsFlag, Flagged, Nil
<1> QED
  BY <1>5, <1>7, <1>8 DEF Right

\* A mark flags whatever is open beside it, in both directions.
LEMMA PreMarkServed ==
  ASSUME NEW d \in Daemons, Serving(d), PreMark(d), NEW c \in Cmds
  PROVE  Right(d, c)' /\ KeepsFlag(c)
<1> DEFINE k == worker[d].cmd
           rec == [worker[d].rec EXCEPT !.overlapped = open[d] # {}]
<1> USE DEF TypeOK, ShadowTypeOK, DaemonTypeOK
<1>1. TypeOK /\ Right(d, c) /\ Waits /\ Sole /\ timedOut = {} /\ Jobs
  BY ServingFacts DEF OneServer
<1>2. /\ worker[d] \in Job /\ worker[d].op = "pre" /\ worker[d].at = "snapped"
      /\ worker[d] # NoJob
  BY <1>1, AtJob DEF PreMark, At
<1>3. k \in Cmds /\ worker[d].rec \in Rec /\ worker[d].rec.pre # NoSHA
  BY <1>1, <1>2 DEF Job, Jobs
<1>4. JobOf(d, k, "pre")
  BY <1>2 DEF JobOf
<1>5. phase[k] = "pre"
  BY <1>1, <1>3, <1>4, TaskPhase DEF Ops
<1>6. /\ rec.pre = worker[d].rec.pre /\ rec.overlapped = (open[d] # {})
  BY <1>3 DEF Rec
<1>7. /\ worker'[d].op = "pre" /\ worker'[d].at = "marked" /\ worker'[d].cmd = k
      /\ \A e \in Daemons \ {d} : worker'[e] = worker[e] /\ inflight'[e] = inflight[e]
      /\ open'[d] = open[d] \cup {k}
  BY <1>1, <1>2 DEF PreMark, Job
<1>8. /\ c = k => inflight'[d][c] = rec
      /\ c # k => /\ inflight'[d][c].pre = inflight[d][c].pre
                  /\ inflight[d][c].overlapped => inflight'[d][c].overlapped
  <2>1. inflight'[d][c] = CASE c = k -> rec
                            [] c # k /\ c \in open[d] /\ ~Nil(inflight[d][c])
                                 -> [inflight[d][c] EXCEPT !.overlapped = TRUE]
                            [] OTHER -> inflight[d][c]
    BY <1>1 DEF PreMark
  <2>2. inflight[d][c] \in Rec
    BY <1>1
  <2>3. CASE c = k
    BY <2>1, <2>3
  <2>4. CASE c # k
    <3>1. \/ inflight'[d][c] = [inflight[d][c] EXCEPT !.overlapped = TRUE]
          \/ inflight'[d][c] = inflight[d][c]
      BY <2>1, <2>4
    <3> QED
      BY <2>2, <2>4, <3>1 DEF Rec
  <2> QED
    BY <2>3, <2>4
<1> HIDE DEF rec
<1>9. UNCHANGED <<phase, aged, tree, journal, conn, pending>>
  BY DEF PreMark
<1>10. ~Nil(inflight'[d][k])
  <2>1. inflight'[d][k] = rec
    BY <1>1, <1>3 DEF PreMark, rec
  <2> QED
    BY <1>3, <1>6, <2>1 DEF Nil
<1>11. ~JobOf(d, c, "post")' /\ PostJobRight(d, c)'
  BY <1>7 DEF JobOf, PostJobRight
<1>12. PreJobRight(d, c)'
  BY <1>7, <1>10 DEF PreJobRight, JobOf
<1>13. RememberedAt(d, c)'
  BY <1>1, <1>8, <1>9, <1>10 DEF Right, RememberedAt, PostDue, AskedOf, Nil
<1>14. MemoryRight(d, c)'
  <2>1. CASE c # k
    BY <1>1, <1>7, <1>8, <1>9, <2>1 DEF Right, MemoryRight, Unfinished, Strays, Nil
  <2>2. CASE c = k
    <3>1. Strays(c, rec.pre) \subseteq open[d]
      BY <1>1, <1>2, <1>4, <1>6, <2>2 DEF Right, PreJobRight
    <3> QED
      BY <1>6, <1>7, <1>8, <1>9, <2>2, <3>1 DEF MemoryRight, Strays
  <2> QED
    BY <2>1, <2>2
<1>15. KeepsFlag(c)
  <2>1. ASSUME c # k PROVE KeepsFlag(c)
    BY <1>7, <1>8, <1>9, <1>11, <2>1 DEF KeepsFlag, Flagged, Nil, JobOf
  <2> QED
    BY <1>5, <2>1 DEF KeepsFlag
<1> QED
  BY <1>11, <1>12, <1>13, <1>14, <1>15 DEF Right

\* A flag in the journal is there for good.
LEMMA FlagsStay ==
  ASSUME TypeOK, NEW d \in Daemons, DaemonNext(d), NEW c \in Cmds
  PROVE  journal[c].overlapped => journal'[c].overlapped
<1> USE DEF TypeOK, ShadowTypeOK, DaemonTypeOK
<1>1. CASE UNCHANGED journal
  BY <1>1
<1>2. ASSUME NEW e \in Cmds, NEW row \in Entry, AppendRow(e, row)
      PROVE  journal[c].overlapped => journal'[c].overlapped
  <2>1. journal'[e].overlapped = (journal[e].overlapped \/ row.overlapped)
    BY <1>2, AppendFlag
  <2>2. c # e => journal'[c] = journal[c]
    BY <1>2 DEF AppendRow
  <2> QED
    BY <2>1, <2>2
<1>3. [NoEntry EXCEPT !.note = "interrupted"] \in Entry
  BY RowTypes DEF Notes
<1>4. CASE Flush(d)
  <2>1. AppendRows({e \in open[d] : ~Nil(inflight[d][e]) /\ ~inflight[d][e].swept},
                   [NoEntry EXCEPT !.note = "interrupted"])
    BY <1>4 DEF Flush
  <2> QED
    BY <1>3, <2>1, AppendAllFlags
<1>5. CASE \E e \in Cmds : Sweep(d, e)
  <2>1. PICK e \in Cmds : Sweep(d, e)
    BY <1>5
  <2> QED
    BY <1>1, <1>2, <1>3, <2>1 DEF Sweep
<1>6. CASE PreAppend(d) \/ PostUnpaired(d) \/ PostAppend(d) \/ PostFails(d)
  <2>1. worker[d] \in Job
    BY <1>6, AtJob DEF PreAppend, PostUnpaired, PostAppend, PostFails
  <2>2. /\ worker[d].cmd \in Cmds
        /\ PreRow(worker[d].rec.pre, worker[d].rec.overlapped) \in Entry
        /\ FullRow(worker[d]) \in Entry
        /\ [FullRow(worker[d]) EXCEPT !.status = "unprotected_error"] \in Entry
    BY <2>1, JobRows, JobRowTypes DEF Job
  <2>3. [StatusRow("unprotected_error") EXCEPT !.note = "pre missing"] \in Entry
    BY RowTypes DEF Statuses, Notes
  <2> QED
    BY <1>1, <1>2, <1>6, <2>2, <2>3 DEF PreAppend, PostUnpaired, PostAppend, PostFails
<1> QED
  BY <1>1, <1>4, <1>5, <1>6 DEF DaemonNext, DaemonStep, WorkerStep, Listen, Stop, Exit,
     Crash, Dies, Refuse, Take, PreSnap, PreFails, PreMark, PostPair, PostSnap, Warm,
     shadowVars

\* The end of a job: what its row adds is in memory already, or leaves it with the row.
LEMMA JobEnds ==
  ASSUME NEW d \in Daemons, Serving(d), DaemonNext(d), NEW ok, Finish(d, ok),
         UNCHANGED <<pending, inflight, open>>, NEW c \in Cmds,
         journal'[c].pre # NoSHA /\ PostDue(c) =>
           journal[c].pre # NoSHA \/ ~Nil(inflight[d][c]),
         journal'[c].post # NoSHA =>
           \/ journal[c].post # NoSHA
           \/ /\ JobOf(d, c, "post") /\ ~Nil(worker[d].rec)
              /\ worker[d].rec.overlapped => journal'[c].overlapped
  PROVE  Right(d, c)' /\ KeepsFlag(c)
<1> USE DEF TypeOK, ShadowTypeOK, DaemonTypeOK
<1>1. TypeOK /\ Right(d, c)
  BY ServingFacts
<1>2. UNCHANGED <<phase, aged, tree, conn>>
  BY DaemonFrame
<1>3. worker'[d] = NoJob /\ \A e \in Daemons \ {d} : worker'[e] = worker[e]
  BY <1>1 DEF Finish
<1>4. ~JobOf(d, c, "pre")' /\ ~JobOf(d, c, "post")'
  BY <1>3 DEF JobOf
<1>5. PreJobRight(d, c)' /\ PostJobRight(d, c)'
  BY <1>4 DEF PreJobRight, PostJobRight
<1>6. RememberedAt(d, c)'
  BY <1>1, <1>2 DEF Right, RememberedAt, PostDue, AskedOf, Nil
<1>7. \A pre : {e \in tree' \ pre : e # c /\ journal'[e].pre # NoSHA} = Strays(c, pre)
  <2>1. \A e \in Cmds : journal[e].pre # NoSHA => journal'[e].pre # NoSHA
    BY <1>1, DaemonLedger DEF Grows
  <2>2. tree \subseteq Cmds
    BY <1>1 DEF Contents
  <2> QED
    BY <1>2, <2>1, <2>2, PresClean, StraysStay
<1>8. MemoryRight(d, c)'
  <2>1. Strays(c, inflight[d][c].pre)' = Strays(c, inflight[d][c].pre)
    BY <1>7 DEF Strays
  <2> QED
    BY <1>1, <1>2, <2>1 DEF Right, MemoryRight, Unfinished, Nil
<1>9. KeepsFlag(c)
  <2>1. \A e \in Daemons : JobOf(e, c, "post")' => JobOf(e, c, "post") /\ e # d
    BY <1>3, <1>4 DEF JobOf
  <2>2. journal[c].overlapped => journal'[c].overlapped
    BY <1>1, FlagsStay
  <2> QED
    BY <1>3, <2>1, <2>2 DEF KeepsFlag, Flagged, Nil
<1> QED
  BY <1>5, <1>6, <1>8, <1>9 DEF Right

\* The rows of a job, of its command only.
LEMMA PreEndsServed ==
  ASSUME NEW d \in Daemons, Serving(d), DaemonNext(d), PreAppend(d) \/ PreFails(d),
         NEW c \in Cmds
  PROVE  Right(d, c)' /\ KeepsFlag(c)
<1> USE DEF TypeOK, ShadowTypeOK, DaemonTypeOK
<1>1. TypeOK /\ Right(d, c)
  BY ServingFacts
<1>2. CASE PreFails(d)
  <2>1. Finish(d, FALSE) /\ UNCHANGED <<pending, inflight, open, journal>>
    BY <1>2 DEF PreFails
  <2> QED
    BY <2>1, JobEnds
<1>3. CASE PreAppend(d)
  <2>1. /\ worker[d] \in Job /\ worker[d].op = "pre" /\ worker[d].at = "marked"
        /\ worker[d] # NoJob
    BY <1>1, <1>3, AtJob DEF PreAppend, At
  <2> DEFINE row == PreRow(worker[d].rec.pre, worker[d].rec.overlapped)
  <2>2. worker[d].cmd \in Cmds /\ row \in Entry /\ row.post = NoSHA
    BY <2>1, JobRows DEF Job
  <2> HIDE DEF row
  <2>3. Finish(d, TRUE) /\ UNCHANGED <<pending, inflight, open>>
        /\ AppendRow(worker[d].cmd, row)
    BY <1>3 DEF PreAppend, row
  <2>4. journal'[c].post # NoSHA => journal[c].post # NoSHA
    BY <1>1, <2>2, <2>3, AppendFacts DEF Later
  <2>5. journal'[c].pre # NoSHA => journal[c].pre # NoSHA \/ ~Nil(inflight[d][c])
    <3>1. CASE c = worker[d].cmd
      BY <1>1, <2>1, <3>1 DEF Right, PreJobRight, JobOf
    <3>2. CASE c # worker[d].cmd
      BY <1>1, <2>2, <2>3, <3>2, AppendFacts
    <3> QED
      BY <3>1, <3>2
  <2> QED
    BY <2>3, <2>4, <2>5, JobEnds
<1> QED
  BY <1>2, <1>3

\* A post finds the record of its pre wherever the journal has one.
LEMMA NeverPairs ==
  ASSUME NEW d \in Daemons, Serving(d), PostPair(d)
  PROVE  FALSE
<1>1. TypeOK
  BY ServingFacts
<1>2. worker[d] \in Job /\ worker[d].op = "post" /\ worker[d] # NoJob
  BY <1>1, AtJob DEF PostPair, At
<1>3. worker[d].cmd \in Cmds /\ JobOf(d, worker[d].cmd, "post")
  BY <1>2 DEF Job, JobOf
<1>4. PostJobRight(d, worker[d].cmd)
  BY <1>3, ServingFacts DEF Right
<1> QED
  BY <1>3, <1>4 DEF PostPair, PostJobRight

\* The server answers a post.
LEMMA PostEndsServed ==
  ASSUME NEW d \in Daemons, Serving(d), DaemonNext(d),
         PostUnpaired(d) \/ PostAppend(d) \/ PostFails(d), NEW c \in Cmds
  PROVE  Right(d, c)' /\ KeepsFlag(c)
<1> USE DEF TypeOK, ShadowTypeOK, DaemonTypeOK
<1> DEFINE k == worker[d].cmd
<1>1. TypeOK /\ Right(d, c) /\ Waits /\ Sole /\ timedOut = {} /\ Jobs
  BY ServingFacts DEF OneServer
<1>2. worker[d] \in Job /\ worker[d].op = "post" /\ worker[d] # NoJob
  BY <1>1, AtJob DEF PostUnpaired, PostAppend, PostFails, At
<1>3. k \in Cmds /\ JobOf(d, k, "post")
  BY <1>2 DEF Job, JobOf
<1>4. ~PostDue(k)
  <2>1. phase[k] = "post" /\ conn[k] # NoConn
    BY <1>1, <1>3, TaskPhase DEF Ops, NoConn
  <2>2. ~\E e \in Daemons : AskedOf(e, k, "post")
    BY <1>1, <1>3, TaskPhase DEF Ops
  <2> QED
    BY <2>1, <2>2 DEF PostDue
<1>5. UNCHANGED <<pending, inflight, open>> /\ \E ok : Finish(d, ok)
  BY DEF PostUnpaired, PostAppend, PostFails
<1>6. CASE UNCHANGED journal
  BY <1>5, <1>6, JobEnds
<1>7. ASSUME NEW row \in Entry, AppendRow(k, row),
             row.post = NoSHA \/ (~Nil(worker[d].rec) /\ row = FullRow(worker[d]))
      PROVE  Right(d, c)' /\ KeepsFlag(c)
  <2>1. CASE c # k
    BY <1>1, <1>3, <1>5, <1>7, <2>1, AppendFacts, JobEnds
  <2>2. CASE c = k
    <3>1. journal'[k].post = Later(NoSHA, journal[k].post, row.post)
      BY <1>1, <1>3, <1>7, AppendFacts
    <3>2. journal'[k].overlapped = (journal[k].overlapped \/ row.overlapped)
      BY <1>1, <1>3, <1>7, AppendFlag
    <3>3. FullRow(worker[d]).overlapped = worker[d].rec.overlapped
      BY <1>2 DEF FullRow, NoEntry
    <3>4. journal'[k].post # NoSHA =>
            \/ journal[k].post # NoSHA
            \/ /\ JobOf(d, k, "post") /\ ~Nil(worker[d].rec)
               /\ worker[d].rec.overlapped => journal'[k].overlapped
      BY <1>3, <1>7, <3>1, <3>2, <3>3 DEF Later
    <3> QED
      BY <1>4, <1>5, <2>2, <3>4, JobEnds
  <2> QED
    BY <2>1, <2>2
<1>8. CASE PostUnpaired(d)
  <2>1. [StatusRow("unprotected_error") EXCEPT !.note = "pre missing"] \in Entry
    BY RowTypes DEF Statuses, Notes
  <2>2. [StatusRow("unprotected_error") EXCEPT !.note = "pre missing"].post = NoSHA
    BY DEF StatusRow, NoEntry
  <2> QED
    BY <1>7, <1>8, <2>1, <2>2 DEF PostUnpaired
<1>9. CASE PostAppend(d)
  <2>1. ~Nil(worker[d].rec)
    BY <1>1, <1>2, <1>9 DEF PostAppend, At, Jobs, Nil
  <2>2. FullRow(worker[d]) \in Entry
    BY <1>2, JobRowTypes
  <2> QED
    BY <1>7, <1>9, <2>1, <2>2 DEF PostAppend
<1>10. CASE PostFails(d)
  <2> DEFINE row == [FullRow(worker[d]) EXCEPT !.status = "unprotected_error"]
  <2>1. row \in Entry
    BY <1>2, JobRowTypes
  <2>2. worker[d].post = NoSHA
    <3>1. worker[d].at = "taken" /\ PostJobRight(d, k)
      BY <1>3, <1>10, ServingFacts DEF PostFails, At, Right
    <3> QED
      BY <1>3, <3>1 DEF PostJobRight
  <2>3. row.post = worker[d].post
    BY DEF FullRow, NoEntry
  <2> QED
    BY <1>6, <1>7, <1>10, <2>1, <2>2, <2>3 DEF PostFails
<1> QED
  BY <1>8, <1>9, <1>10

\* The sweep closes only what is over.
LEMMA SweepServed ==
  ASSUME NEW d \in Daemons, Serving(d), NEW k \in Cmds, Sweep(d, k), DaemonNext(d),
         NEW c \in Cmds
  PROVE  Right(d, c)' /\ KeepsFlag(c)
<1> USE DEF TypeOK, ShadowTypeOK, DaemonTypeOK
<1>1. TypeOK /\ Right(d, c) /\ AgedOver
  BY ServingFacts
<1>2. UNCHANGED <<phase, aged, tree, conn, pending, worker>> /\ k \in aged
      /\ open'[d] = open[d] \ {k}
  BY <1>1 DEF Sweep
<1>3. /\ journal'[c].pre = journal[c].pre /\ journal'[c].post = journal[c].post
      /\ journal[c].overlapped => journal'[c].overlapped
      /\ \A e \in Cmds : journal'[e].pre = journal[e].pre
  <2>1. /\ [NoEntry EXCEPT !.note = "interrupted"] \in Entry
        /\ [NoEntry EXCEPT !.note = "interrupted"].pre = NoSHA
        /\ [NoEntry EXCEPT !.note = "interrupted"].post = NoSHA
    BY RowTypes DEF Notes, NoEntry
  <2>2. CASE UNCHANGED journal
    BY <2>2
  <2>3. CASE AppendRow(k, [NoEntry EXCEPT !.note = "interrupted"])
    BY <1>1, <2>1, <2>3, AppendFacts, FlagsStay DEF Later
  <2> QED
    BY <2>2, <2>3 DEF Sweep
<1>4. /\ inflight'[d][c].pre = inflight[d][c].pre
      /\ inflight'[d][c].overlapped = inflight[d][c].overlapped
      /\ \A e \in Daemons \ {d} : inflight'[e] = inflight[e]
  <2>1. CASE UNCHANGED inflight
    BY <2>1
  <2>2. CASE inflight' = [inflight EXCEPT ![d][k].swept = TRUE]
    <3>1. inflight' = [inflight EXCEPT ![d] =
                         [inflight[d] EXCEPT ![k] = [inflight[d][k] EXCEPT !.swept = TRUE]]]
      BY <2>2
    <3>2. inflight'[d] = [inflight[d] EXCEPT ![k] = [inflight[d][k] EXCEPT !.swept = TRUE]]
      BY <1>1, <3>1
    <3>3. inflight[d] \in [Cmds -> Rec] /\ inflight[d][k] \in Rec
      BY <1>1
    <3>4. \/ inflight'[d][c] = [inflight[d][k] EXCEPT !.swept = TRUE] /\ c = k
          \/ inflight'[d][c] = inflight[d][c]
      BY <3>2, <3>3
    <3> QED
      BY <1>1, <3>1, <3>3, <3>4 DEF Rec
  <2> QED
    BY <2>1, <2>2 DEF Sweep
<1>5. \A pre : {e \in tree' \ pre : e # c /\ journal'[e].pre # NoSHA} = Strays(c, pre)
  BY <1>1, <1>2, <1>3 DEF Strays, Contents
<1>6. RememberedAt(d, c)'
  BY <1>1, <1>2, <1>3, <1>4 DEF Right, RememberedAt, PostDue, AskedOf, Nil
<1>7. MemoryRight(d, c)'
  <2>1. k # c \/ ~Unfinished(c)
    BY <1>1, <1>2 DEF AgedOver
  <2>2. Strays(c, inflight[d][c].pre)' = Strays(c, inflight[d][c].pre)
    BY <1>4, <1>5 DEF Strays
  <2> QED
    BY <1>1, <1>2, <1>4, <2>1, <2>2 DEF Right, MemoryRight, Unfinished, Nil
<1>8. Strays(c, worker[d].rec.pre)' = Strays(c, worker[d].rec.pre)
  BY <1>2, <1>5 DEF Strays
<1>9. PreJobRight(d, c)' /\ PostJobRight(d, c)'
  BY <1>1, <1>2, <1>3, <1>4, <1>8 DEF Right, PreJobRight, PostJobRight, JobOf, Nil
<1>10. KeepsFlag(c)
  <2>1. \A e \in Daemons : /\ inflight'[e][c].pre = inflight[e][c].pre
                           /\ inflight'[e][c].overlapped = inflight[e][c].overlapped
    BY <1>4
  <2> QED
    BY <1>2, <1>3, <2>1 DEF KeepsFlag, Flagged, JobOf, Nil
<1> QED
  BY <1>6, <1>7, <1>9, <1>10 DEF Right
-----------------------------------------------------------------------------
(* The rows, whoever writes them.                                             *)

RowRight(c) ==
  /\ journal[c].post # NoSHA =>
       phase[c] \in {"post", "done"} /\ journal[c].post \subseteq tree
  /\ Protected(c) /\ ~journal[c].overlapped =>
       \A e \in journal[c].post \ journal[c].pre : e = c \/ journal[e].pre = NoSHA

\* RowRight collects what the two invariants say of one row.
LEMMA RowsAreRight ==
  ASSUME TypeOK
  PROVE  PostsOfTree /\ Attribution <=> \A c \in Cmds : RowRight(c)
<1>1. ASSUME NEW c \in Cmds, Protected(c) PROVE journal[c].post \subseteq Cmds
  BY <1>1 DEF Protected, Complete, TypeOK, ShadowTypeOK, Entry, SHA, Contents
<1> QED
  BY <1>1 DEF PostsOfTree, Attribution, RowRight

\* A row stays right where its snapshots stay, or where it is not protected.
LEMMA RowStays ==
  ASSUME TypeOK, NewPresClean, tree \subseteq tree', NEW c \in Cmds, RowRight(c),
         phase[c] \in {"post", "done"} => phase'[c] \in {"post", "done"},
         journal'[c].post = journal[c].post,
         \/ RowKept(c) /\ (journal[c].overlapped => journal'[c].overlapped)
         \/ journal'[c].status # "protected"
  PROVE  RowRight(c)'
<1>1. journal'[c].post # NoSHA =>
        phase'[c] \in {"post", "done"} /\ journal'[c].post \subseteq tree'
  BY DEF RowRight
<1>2. CASE journal'[c].status # "protected"
  BY <1>1, <1>2 DEF RowRight, Protected, Complete
<1>3. CASE RowKept(c) /\ (journal[c].overlapped => journal'[c].overlapped)
  <2>1. ASSUME Protected(c)', ~journal'[c].overlapped,
               NEW e \in journal'[c].post \ journal'[c].pre
        PROVE  e = c \/ journal'[e].pre = NoSHA
    <3>1. Protected(c) /\ ~journal[c].overlapped /\ e \in journal[c].post \ journal[c].pre
      BY <1>3, <2>1 DEF RowKept, Protected, Complete
    <3>2. e \in tree /\ (e = c \/ journal[e].pre = NoSHA)
      BY <3>1 DEF RowRight, Protected, Complete
    <3>3. e \in Cmds
      BY <3>2 DEF TypeOK, ShadowTypeOK, Contents
    <3> QED
      BY <3>2, <3>3 DEF NewPresClean
  <2> QED
    BY <1>1, <2>1 DEF RowRight, Protected, Complete
<1> QED
  BY <1>2, <1>3

\* The post that the server journals makes its row right: this is Attribution.
LEMMA PostAppendRow ==
  ASSUME NEW d \in Daemons, Serving(d), DaemonNext(d), PostAppend(d),
         NEW c \in Cmds, JobOf(d, c, "post")
  PROVE  RowRight(c)'
<1> USE DEF TypeOK, ShadowTypeOK, DaemonTypeOK
<1> DEFINE job == worker[d]
<1>1. TypeOK /\ Right(d, c) /\ Jobs /\ Waits /\ Sole /\ timedOut = {}
  BY ServingFacts DEF OneServer
<1>2. /\ job \in Job /\ job.op = "post" /\ job.at = "snapped" /\ job.cmd = c
      /\ job # NoJob
  BY <1>1, AtJob DEF PostAppend, At, JobOf
<1>3. job.rec.pre # NoSHA /\ job.post # NoSHA
  BY <1>1, <1>2 DEF Jobs
<1>4. /\ FullRow(job) \in Entry /\ FullRow(job).pre = job.rec.pre
      /\ FullRow(job).post = job.post /\ FullRow(job).overlapped = job.rec.overlapped
  BY <1>2, JobRowTypes, JobRows DEF FullRow, NoEntry
<1>5. AppendRow(c, FullRow(job)) /\ UNCHANGED <<phase, tree>>
  BY <1>2 DEF PostAppend
<1>6. journal'[c].pre = job.rec.pre /\ journal'[c].post = job.post
  BY <1>1, <1>3, <1>4, <1>5, AppendFacts DEF Later
<1>7. job.rec.overlapped => journal'[c].overlapped
  BY <1>1, <1>4, <1>5, AppendFlag
<1>8. /\ Strays(c, job.rec.pre) # {} => job.rec.overlapped
      /\ job.post \subseteq tree
  BY <1>1, <1>3 DEF Right, PostJobRight, Nil
<1>9. phase[c] = "post"
  BY <1>1, TaskPhase DEF Ops
<1>10. ASSUME ~journal'[c].overlapped, NEW e \in job.post \ job.rec.pre
       PROVE  e = c \/ journal'[e].pre = NoSHA
  <2>1. e \in tree /\ e \in Cmds
    BY <1>1, <1>8, <1>10 DEF Contents
  <2>2. e \notin Strays(c, job.rec.pre)
    BY <1>7, <1>8, <1>10
  <2>3. e = c \/ journal[e].pre = NoSHA
    BY <1>10, <2>1, <2>2 DEF Strays
  <2> QED
    BY <1>1, <1>4, <1>5, <2>1, <2>3, AppendFacts
<1> QED
  BY <1>5, <1>6, <1>8, <1>9, <1>10 DEF RowRight

\* Every row stays right through a step of the server.
LEMMA ServedRows ==
  ASSUME AlwaysServed, NEW d \in Daemons, Serving(d), DaemonNext(d), NEW c \in Cmds,
         RowRight(c)
  PROVE  RowRight(c)'
<1>1. /\ TypeOK /\ Jobs /\ Waits /\ Sole /\ timedOut = {}
      /\ UNCHANGED <<phase, tree>> /\ NewPresClean
      /\ journal[c].overlapped => journal'[c].overlapped
  BY ServingFacts, DaemonFrame, PresClean, FlagsStay DEF OneServer
<1>2. CASE RowKept(c)
  BY <1>1, <1>2, RowStays DEF RowKept
<1>3. CASE JobOf(d, c, "pre")
  <2>1. phase[c] = "pre"
    BY <1>1, <1>3, TaskPhase DEF Ops
  <2>2. journal'[c].post = journal[c].post
    BY <1>1, <1>3, DaemonRows DEF JobOf
  <2> QED
    BY <1>1, <2>1, <2>2 DEF RowRight, Protected, Complete
<1>4. CASE PostAppend(d) /\ JobOf(d, c, "post")
  BY <1>4, PostAppendRow
<1>5. CASE JobOf(d, c, "post") /\ ~PostAppend(d) /\ ~RowKept(c)
  <2>1. worker[d] \in Job /\ worker[d] # NoJob /\ worker[d].op = "post" /\ worker[d].cmd = c
    BY <1>1, <1>5 DEF JobOf, TypeOK, DaemonTypeOK
  <2>2. \E row \in Entry : AppendRow(c, row) /\ row.post = NoSHA
                           /\ row.status = "unprotected_error"
    <3>1. CASE PostUnpaired(d)
      <4> DEFINE row == [StatusRow("unprotected_error") EXCEPT !.note = "pre missing"]
      <4>1. row \in Entry /\ row.post = NoSHA /\ row.status = "unprotected_error"
        BY RowTypes DEF StatusRow, NoEntry, Statuses, Notes
      <4> HIDE DEF row
      <4>2. AppendRow(c, row)
        BY <2>1, <3>1 DEF PostUnpaired, row
      <4> QED
        BY <4>1, <4>2
    <3>2. CASE PostFails(d)
      <4> DEFINE row == [FullRow(worker[d]) EXCEPT !.status = "unprotected_error"]
      <4>1. row \in Entry
        BY <2>1, JobRowTypes
      <4>2. worker[d].post = NoSHA
        <5>1. worker[d].at = "taken" /\ PostJobRight(d, c)
          BY <3>2, ServingFacts DEF PostFails, At, Right
        <5> QED
          BY <1>5, <5>1 DEF PostJobRight
      <4>3. row.post = NoSHA /\ row.status = "unprotected_error"
        BY <4>2 DEF FullRow, NoEntry
      <4>4. AppendRow(c, row)
        BY <1>5, <2>1, <3>2 DEF PostFails, RowKept
      <4> QED
        BY <4>1, <4>3, <4>4
    <3>3. CASE ~PostUnpaired(d) /\ ~PostFails(d)
      <4>1. \E e \in Cmds : Sweep(d, e) /\ ~UNCHANGED journal
        <5>1. ~UNCHANGED journal
          BY <1>5 DEF RowKept
        <5>2. ~PreAppend(d)
          BY <2>1 DEF PreAppend, At
        <5> QED
          BY <1>5, <3>3, <5>1, <5>2, ServedDaemon, ServingFacts
          DEF ServerStep, WorkerStep, Listen, Take, PreSnap, PreFails, PreMark, PostPair,
              PostSnap, Warm, shadowVars
      <4>2. PICK e \in Cmds : Sweep(d, e) /\ ~UNCHANGED journal
        BY <4>1
      <4>3. /\ [NoEntry EXCEPT !.note = "interrupted"] \in Entry
            /\ [NoEntry EXCEPT !.note = "interrupted"].pre = NoSHA
            /\ [NoEntry EXCEPT !.note = "interrupted"].post = NoSHA
            /\ [NoEntry EXCEPT !.note = "interrupted"].status = ""
        BY RowTypes DEF Notes, NoEntry
      <4>4. AppendRow(e, [NoEntry EXCEPT !.note = "interrupted"])
        BY <4>2 DEF Sweep
      <4>5. RowKept(c)
        BY <1>1, <4>3, <4>4, AppendFacts DEF RowKept, Later, TypeOK, ShadowTypeOK
      <4> QED
        BY <1>5, <4>5
    <3> QED
      BY <3>1, <3>2, <3>3
  <2>3. /\ journal'[c].post = journal[c].post
        /\ journal'[c].status = "unprotected_error"
    BY <1>1, <2>2, AppendFacts DEF Later, TypeOK, ShadowTypeOK
  <2> QED
    BY <1>1, <2>3, RowStays
<1> QED
  BY <1>1, <1>2, <1>3, <1>4, <1>5, DaemonRows
-----------------------------------------------------------------------------
(* The other steps, and the invariant.                                        *)

\* A step that touches neither rows nor memory, and reopens nothing.
LEMMA StillServed ==
  ASSUME TypeOK, Remembered, DaemonRight,
         UNCHANGED <<journal, tree, inflight, open, worker>>,
         aged' = aged \/ \A d \in Daemons : worker[d] = NoJob,
         \A c \in Cmds : /\ Unfinished(c)' => Unfinished(c)
                         /\ PostDue(c)' => PostDue(c)
                         /\ phase[c] \in {"post", "done"} => phase'[c] \in {"post", "done"},
         \A c \in Cmds : RowRight(c)
  PROVE  /\ Remembered' /\ DaemonRight'
         /\ \A c \in Cmds : RowRight(c)' /\ KeepsFlag(c)
<1>1. Remembered'
  BY DEF Remembered, Nil
<1>2. ASSUME NEW d \in Daemons, NEW c \in Cmds
      PROVE  (MemoryRight(d, c) /\ PreJobRight(d, c) /\ PostJobRight(d, c))'
  <2>1. MemoryRight(d, c)' /\ PostJobRight(d, c)'
    BY DEF DaemonRight, MemoryRight, PostJobRight, JobOf, Nil, Strays
  <2>2. PreJobRight(d, c)'
    BY DEF DaemonRight, PreJobRight, JobOf, Nil, Strays
  <2> QED
    BY <2>1, <2>2
<1>3. ASSUME NEW c \in Cmds PROVE RowRight(c)'
  <2>1. NewPresClean
    BY DEF NewPresClean
  <2> QED
    BY <2>1, RowStays DEF RowKept
<1>4. ASSUME NEW c \in Cmds PROVE KeepsFlag(c)
  BY DEF KeepsFlag, Flagged, JobOf, Nil
<1> QED
  BY <1>1, <1>2, <1>3, <1>4 DEF DaemonRight

\* The invariant of the server through a step of a daemon, ...
LEMMA ServedDaemonStep ==
  ASSUME AlwaysServed, SessionInv, SessionInv', Backed, AgedOver, OneServer, OneServer',
         Remembered, DaemonRight, \A c \in Cmds : RowRight(c),
         NEW d \in Daemons, DaemonNext(d)
  PROVE  /\ Remembered' /\ DaemonRight'
         /\ \A c \in Cmds : RowRight(c)' /\ KeepsFlag(c)
<1>1. TypeOK /\ Holders /\ Holders' /\ UNCHANGED <<phase, aged, tree, conn>>
  BY DaemonFrame DEF SessionInv
<1>2. CASE Listen(d)
  <2>1. UNCHANGED <<journal, tree, inflight, open, worker, aged, phase, conn, pending>>
    BY <1>2 DEF Listen
  <2> QED
    BY <1>1, <2>1, StillServed DEF Unfinished, PostDue, AskedOf
<1>3. CASE socket = d /\ ServerStep(d) /\ UNCHANGED socket
  <2>1. Serving(d)
    BY <1>3 DEF Serving
  <2>2. ASSUME NEW c \in Cmds PROVE Right(d, c)' /\ KeepsFlag(c)
    <3>1. CASE Warm(d)
      <4>1. UNCHANGED <<journal, inflight, open, worker, pending>>
        BY <3>1 DEF Warm, daemonVars
      <4> QED
        BY <1>1, <2>1, <4>1, ServingFacts
        DEF Right, RememberedAt, MemoryRight, PreJobRight, PostJobRight, KeepsFlag,
            Flagged, PostDue, AskedOf, JobOf, Unfinished, Strays, Nil
    <3>2. CASE PostPair(d)
      BY <2>1, <3>2, NeverPairs
    <3>3. CASE \E k \in Cmds : Sweep(d, k)
      BY <2>1, <3>3, SweepServed
    <3> QED
      BY <1>3, <2>1, <3>1, <3>2, <3>3, TakeServed, PreSnapServed, PreMarkServed,
         PostSnapServed, PreEndsServed, PostEndsServed DEF ServerStep, WorkerStep
  <2>3. ASSUME NEW c \in Cmds PROVE RowRight(c)'
    BY <2>1, ServedRows
  <2>4. ASSUME NEW e \in Daemons, e # d, NEW c \in Cmds
        PROVE  (MemoryRight(e, c) /\ PreJobRight(e, c) /\ PostJobRight(e, c))'
    <3>1. socket' # e
      BY <1>3, <2>4
    <3>2. dstate'[e] \in {"unspawned", "starting", "dead"} /\ Nil(inflight'[e][c])
      BY <3>1 DEF OneServer, Nil
    <3>3. worker'[e] = NoJob
      BY <1>1, <3>2 DEF Holders
    <3> QED
      BY <3>2, <3>3 DEF MemoryRight, PreJobRight, PostJobRight, JobOf, Nil
  <2>5. Remembered'
    BY <2>2 DEF Remembered, Right, RememberedAt, Nil
  <2>6. DaemonRight'
    BY <2>2, <2>4 DEF DaemonRight, Right
  <2> QED
    BY <2>2, <2>3, <2>5, <2>6
<1> QED
  BY <1>1, <1>2, <1>3, ServedDaemon

\* A hook's step: it goes on waiting, or its answer comes.
LEMMA ServedHookStep ==
  ASSUME AlwaysServed, SessionInv, OneServer, Remembered, DaemonRight,
         \A c \in Cmds : RowRight(c), NEW k \in Cmds, ClientNext(k)
  PROVE  /\ Remembered' /\ DaemonRight'
         /\ \A c \in Cmds : RowRight(c)' /\ KeepsFlag(c)
<1>1. TypeOK /\ HookPhase /\ Waits
  BY DEF SessionInv
<1>2. /\ UNCHANGED <<aged, tree, inflight, open, worker, journal>>
      /\ Dial(k) \/ Receive(k) \/ Spawn(k) \/ SpawnLoses(k)
  BY <1>1, ServedClient, ClientFrame DEF daemonVars
<1>3. /\ \A c \in Cmds \ {k} : phase'[c] = phase[c] /\ conn'[c] = conn[c]
      /\ \/ phase'[k] = phase[k]
         \/ phase'[k] = IF phase[k] = "pre" THEN "run" ELSE "done"
      /\ phase[k] \in Ops
  BY <1>1, HookMoves
<1>4. ASSUME NEW c \in Cmds, NEW d \in Daemons, AskedOf(d, c, "post")'
      PROVE  AskedOf(d, c, "post") \/ (c = k /\ phase[k] = "post" /\ conn[k] = NoConn)
  <2>1. CASE Dial(k)
    BY <1>1, <1>4, <2>1 DEF Dial, AskedOf, Waits
  <2>2. CASE UNCHANGED pending
    BY <1>4, <2>2 DEF AskedOf
  <2> QED
    BY <1>2, <2>1, <2>2 DEF Receive, Spawn, SpawnLoses, shadowVars
<1>5. phase'[k] = "post" /\ conn'[k] = NoConn => phase[k] = "post" /\ conn[k] = NoConn
  <2>1. CASE Dial(k)
    BY <1>1, <1>3, <2>1 DEF Dial, NoConn, Ops, TypeOK, ShadowTypeOK
  <2>2. CASE Receive(k)
    BY <1>1, <2>2 DEF Receive, HookEnds, TypeOK, ShadowTypeOK
  <2>3. CASE Spawn(k) \/ SpawnLoses(k)
    BY <2>3 DEF Spawn, SpawnLoses, shadowVars
  <2> QED
    BY <1>2, <2>1, <2>2, <2>3
<1>6. ASSUME NEW c \in Cmds
      PROVE  /\ Unfinished(c)' => Unfinished(c)
             /\ PostDue(c)' => PostDue(c)
             /\ phase[c] \in {"post", "done"} => phase'[c] \in {"post", "done"}
  <2>1. CASE c = k
    BY <1>3, <1>4, <1>5, <2>1 DEF Unfinished, PostDue, Ops
  <2>2. CASE c # k
    BY <1>3, <1>4, <2>2 DEF Unfinished, PostDue
  <2> QED
    BY <2>1, <2>2
<1> QED
  BY <1>1, <1>2, <1>6, StillServed

\* A command that writes while its pre is on record is open in the server, and so
\* flagged with whatever else is.
LEMMA ServedWrite ==
  ASSUME SessionInv, AgedOver, OneServer, Remembered, DaemonRight,
         \A c \in Cmds : RowRight(c), NEW k \in Cmds, Write(k)
  PROVE  /\ Remembered' /\ DaemonRight'
         /\ \A c \in Cmds : RowRight(c)' /\ KeepsFlag(c)
<1> USE DEF TypeOK, ShadowTypeOK, DaemonTypeOK
<1>1. TypeOK /\ Holders /\ OpenPairFlagged
  BY DEF SessionInv
<1>2. /\ UNCHANGED <<phase, aged, journal, conn, pending, inflight, open, worker>>
      /\ tree' = tree \cup {k} /\ phase[k] = "run"
  BY DEF Write, daemonVars
<1>3. ASSUME NEW d \in Daemons, socket = d, journal[k].pre # NoSHA
      PROVE  k \in open[d] \ aged
  <2>1. PICK e \in Daemons : ~Nil(inflight[e][k])
    BY <1>2, <1>3 DEF Remembered, PostDue
  <2>2. ~Nil(inflight[d][k])
    BY <1>3, <2>1 DEF OneServer
  <2>3. Unfinished(k)
    BY <1>2 DEF Unfinished
  <2> QED
    BY <2>2, <2>3 DEF DaemonRight, MemoryRight, AgedOver
<1>4. ASSUME NEW c \in Cmds, NEW pre
      PROVE  {e \in tree' \ pre : e # c /\ journal'[e].pre # NoSHA} \subseteq
               Strays(c, pre) \cup {e \in {k} : e # c /\ journal[e].pre # NoSHA}
  BY <1>2 DEF Strays
<1>5. ASSUME NEW d \in Daemons, NEW c \in Cmds
      PROVE  (MemoryRight(d, c) /\ PreJobRight(d, c) /\ PostJobRight(d, c))'
  <2>1. CASE socket # d
    <3>1. dstate[d] \in {"unspawned", "starting", "dead"} /\ Nil(inflight[d][c])
      BY <2>1 DEF OneServer
    <3>2. worker[d] = NoJob
      BY <1>1, <3>1 DEF Holders
    <3> QED
      BY <1>2, <3>1, <3>2 DEF MemoryRight, PreJobRight, PostJobRight, JobOf, Nil
  <2>2. CASE socket = d
    <3>1. MemoryRight(d, c) /\ PreJobRight(d, c) /\ PostJobRight(d, c)
      BY DEF DaemonRight
    <3>2. MemoryRight(d, c)'
      <4>1. ASSUME ~Nil(inflight[d][c]), Unfinished(c)
            PROVE  Strays(c, inflight[d][c].pre)' # {} => inflight[d][c].overlapped
        <5>1. c \in open[d]
          BY <3>1, <4>1 DEF MemoryRight
        <5>2. k # c /\ journal[k].pre # NoSHA => inflight[d][c].overlapped
          BY <1>1, <1>3, <2>2, <5>1 DEF OpenPairFlagged
        <5>3. Strays(c, inflight[d][c].pre)' \subseteq
                Strays(c, inflight[d][c].pre) \cup {e \in {k} : e # c /\ journal[e].pre # NoSHA}
          BY <1>2, <1>4 DEF Strays
        <5> QED
          BY <3>1, <4>1, <5>2, <5>3 DEF MemoryRight
      <4> QED
        BY <1>2, <3>1, <4>1 DEF MemoryRight, Unfinished, Nil
    <3>3. Strays(c, worker[d].rec.pre)' \subseteq
            Strays(c, worker[d].rec.pre) \cup {e \in {k} : e # c /\ journal[e].pre # NoSHA}
      BY <1>2, <1>4 DEF Strays
    <3>4. PreJobRight(d, c)'
      BY <1>2, <1>3, <2>2, <3>1, <3>3 DEF PreJobRight, JobOf, Nil
    <3>5. PostJobRight(d, c)'
      BY <1>2, <1>3, <2>2, <3>1, <3>3 DEF PostJobRight, JobOf, Nil
    <3> QED
      BY <3>2, <3>4, <3>5
  <2> QED
    BY <2>1, <2>2
<1>6. Remembered'
  BY <1>2 DEF Remembered, PostDue, AskedOf, Nil
<1>7. ASSUME NEW c \in Cmds PROVE RowRight(c)'
  <2>1. NewPresClean
    BY <1>2 DEF NewPresClean
  <2> QED
    BY <1>1, <1>2, <2>1, RowStays DEF RowKept
<1>8. ASSUME NEW c \in Cmds PROVE KeepsFlag(c)
  BY <1>2 DEF KeepsFlag, Flagged, JobOf, Nil
<1> QED
  BY <1>5, <1>6, <1>7, <1>8 DEF DaemonRight

\* ... and through a step of the agent or of a command.
LEMMA ServedCommandStep ==
  ASSUME SessionInv, AgedOver, OneServer, Remembered, DaemonRight,
         \A c \in Cmds : RowRight(c), NEW k \in Cmds, CommandStep(k)
  PROVE  /\ Remembered' /\ DaemonRight'
         /\ \A c \in Cmds : RowRight(c)' /\ KeepsFlag(c)
<1>1. TypeOK
  BY DEF SessionInv
<1>2. CASE Write(k)
  BY <1>2, ServedWrite
<1>3. CASE ~Write(k)
  <2>1. UNCHANGED <<journal, tree, inflight, open, worker, pending, conn>>
    BY <1>3, CommandFrame DEF CommandStep, PreHook, PostHook, HookStarts, Esc, Ages, daemonVars
  <2>2. aged' = aged \/ \A d \in Daemons : worker[d] = NoJob
    BY <1>3 DEF CommandStep, PreHook, PostHook, HookStarts, Esc, Ages
  <2>3. /\ \A c \in Cmds \ {k} : phase'[c] = phase[c]
        /\ \/ phase'[k] = phase[k]
           \/ phase[k] = "idle" /\ phase'[k] = "pre"
           \/ phase[k] = "run" /\ phase'[k] \in {"post", "aborted"}
    BY <1>1, <1>3 DEF CommandStep, PreHook, PostHook, HookStarts, Esc, Ages, TypeOK,
       ShadowTypeOK
  <2>4. ASSUME NEW c \in Cmds
        PROVE  /\ Unfinished(c)' => Unfinished(c)
               /\ PostDue(c)' => PostDue(c)
               /\ phase[c] \in {"post", "done"} => phase'[c] \in {"post", "done"}
    <3>1. CASE c = k
      BY <2>1, <2>3, <3>1 DEF Unfinished, PostDue, AskedOf
    <3>2. CASE c # k
      BY <2>1, <2>3, <3>2 DEF Unfinished, PostDue, AskedOf
    <3> QED
      BY <3>1, <3>2
  <2> QED
    BY <1>1, <2>1, <2>2, <2>4, StillServed
<1> QED
  BY <1>2, <1>3

\* No command goes back.
LEMMA PhasesGoOn ==
  ASSUME TypeOK, HookPhase, Waits, [Next]_vars, NEW c \in Cmds
  PROVE  /\ phase[c] \notin {"idle", "pre"} => phase'[c] \notin {"idle", "pre"}
         /\ ~Unfinished(c) => ~Unfinished(c)'
<1> USE DEF TypeOK, ShadowTypeOK, Unfinished
<1>1. CASE UNCHANGED vars
  BY <1>1 DEF vars, shadowVars
<1>2. ASSUME NEW k \in Cmds, CommandStep(k)
      PROVE  /\ phase[c] \notin {"idle", "pre"} => phase'[c] \notin {"idle", "pre"}
             /\ ~Unfinished(c) => ~Unfinished(c)'
  BY <1>2 DEF CommandStep, PreHook, PostHook, HookStarts, Write, Esc, Ages
<1>3. ASSUME NEW k \in Cmds, ClientNext(k)
      PROVE  /\ phase[c] \notin {"idle", "pre"} => phase'[c] \notin {"idle", "pre"}
             /\ ~Unfinished(c) => ~Unfinished(c)'
  BY <1>3, HookMoves DEF Ops
<1>4. ASSUME NEW d \in Daemons, DaemonNext(d) PROVE UNCHANGED phase
  BY <1>4, DaemonFrame
<1> QED
  BY <1>1, <1>2, <1>3, <1>4 DEF Next, Over

\* Only a command that is over grows old.
LEMMA AgedStep ==
  ASSUME TypeOK, HookPhase, Waits, AgedOver, [Next]_vars
  PROVE  AgedOver'
<1>1. ASSUME NEW c \in aged' PROVE c \in aged \/ (c \in Cmds /\ ~Unfinished(c))
  <2>1. CASE UNCHANGED aged
    BY <1>1, <2>1
  <2>2. ASSUME NEW k \in Cmds, CommandStep(k) PROVE c \in aged \/ (~Unfinished(k) /\ c = k)
    <3>1. UNCHANGED aged \/ (aged' = aged \cup {k} /\ phase[k] \in {"aborted", "done"})
      BY <2>2 DEF CommandStep, PreHook, PostHook, HookStarts, Write, Esc, Ages
    <3> QED
      BY <1>1, <3>1 DEF Unfinished
  <2>3. CASE UNCHANGED vars
    BY <2>1, <2>3 DEF vars, shadowVars
  <2>4. ASSUME NEW k \in Cmds, ClientNext(k) PROVE UNCHANGED aged
    BY <2>4, ClientFrame
  <2>5. ASSUME NEW d \in Daemons, DaemonNext(d) PROVE UNCHANGED aged
    BY <2>5, DaemonFrame
  <2> QED
    BY <2>1, <2>2, <2>3, <2>4, <2>5 DEF Next, Over
<1>2. aged \subseteq Cmds
  BY DEF TypeOK, ShadowTypeOK
<1> QED
  BY <1>1, <1>2, PhasesGoOn DEF AgedOver

\* Those who have met are the old pairs, and those that run together now.
LEMMA MetMoves ==
  ASSUME [Next]_vars, NEW p \in met'
  PROVE  \/ p \in met
         \/ p \in Cmds \X Cmds /\ p[1] # p[2] /\ phase'[p[1]] = "run" /\ phase'[p[2]] = "run"
  BY DEF Next, Over, Observe, Running, vars

\* MetRan is kept.
LEMMA MetRanStep ==
  ASSUME TypeOK, HookPhase, Waits, MetRan, [Next]_vars
  PROVE  MetRan'
<1> SUFFICES ASSUME NEW p \in met'
             PROVE  /\ p \in Cmds \X Cmds
                    /\ phase'[p[1]] \notin {"idle", "pre"}
                    /\ phase'[p[2]] \notin {"idle", "pre"}
  BY DEF MetRan
<1>1. CASE p \in met
  <2>1. p \in Cmds \X Cmds /\ p[1] \in Cmds /\ p[2] \in Cmds
    BY <1>1 DEF MetRan
  <2> QED
    BY <1>1, <2>1, PhasesGoOn DEF MetRan
<1> QED
  BY <1>1, MetMoves

RowsRight == \A c \in Cmds : RowRight(c)

\* The same without a context, for the temporal steps.
LEMMA RowsRightAre == TypeOK => (RowsRight <=> PostsOfTree /\ Attribution)
BY RowsAreRight DEF RowsRight

\* What the rows say of a state, they say of the next.
LEMMA RowsRightNext == TypeOK' => (RowsRight' <=> PostsOfTree' /\ Attribution')
BY RowsRightAre, PTL

\* Two commands with a pre on record that run together are both flagged in the server.
ServedMeet ==
  \A a, b \in Cmds :
    /\ a # b /\ phase[a] = "run" /\ phase[b] = "run"
    /\ journal[a].pre # NoSHA /\ journal[b].pre # NoSHA
    => Flagged(a)

\* Two commands that run side by side, both with rows, are flagged.
LEMMA ServedMeets ==
  SessionInv /\ OneServer /\ Remembered /\ DaemonRight /\ RowsRight => ServedMeet
<1> SUFFICES ASSUME SessionInv, OneServer, Remembered, DaemonRight,
                    \A c \in Cmds : RowRight(c), NEW a \in Cmds, NEW b \in Cmds,
                    a # b, phase[a] = "run", phase[b] = "run",
                    journal[a].pre # NoSHA, journal[b].pre # NoSHA
             PROVE  Flagged(a)
  BY DEF ServedMeet, RowsRight
<1>1. TypeOK /\ Waits /\ Sole /\ timedOut = {} /\ OpenPairFlagged
  BY DEF SessionInv, OneServer
<1>2. ASSUME NEW c \in {a, b} PROVE \E d \in Daemons : ~Nil(inflight[d][c])
  BY <1>2 DEF Remembered, PostDue
<1>3. PICK d \in Daemons : ~Nil(inflight[d][a])
  BY <1>2
<1>4. socket = d /\ ~Nil(inflight[d][b])
  BY <1>2, <1>3 DEF OneServer
<1>5. a \in open[d] /\ b \in open[d]
  BY <1>3, <1>4 DEF DaemonRight, MemoryRight, Unfinished
<1>6. inflight[d][a].overlapped
  BY <1>1, <1>5 DEF OpenPairFlagged
<1>7. \A e \in Daemons : ~Nil(inflight[e][a]) => inflight[e][a].overlapped
  BY <1>4, <1>6 DEF OneServer
<1>8. ASSUME NEW e \in Daemons PROVE ~JobOf(e, a, "post")
  <2>1. JobOf(e, a, "post") => phase[a] = "post"
    BY <1>1, TaskPhase DEF Ops
  <2> QED
    BY <2>1
<1>9. journal[a].post = NoSHA
  BY DEF RowRight
<1> QED
  BY <1>7, <1>8, <1>9 DEF Flagged

\* The same after the step.
LEMMA ServedMeetsNext ==
  SessionInv' /\ OneServer' /\ Remembered' /\ DaemonRight' /\ RowsRight' => ServedMeet'
BY ServedMeets, PTL

\* The pre of a command that is past its pre hook was journalled before that.
LEMMA ServedPresStay ==
  ASSUME AlwaysServed, SessionInv, Backed, AgedOver, OneServer, Remembered, DaemonRight,
         [Next]_vars, NEW c \in Cmds, phase[c] \notin {"idle", "pre"}, journal'[c].pre # NoSHA
  PROVE  journal[c].pre # NoSHA
<1>1. TypeOK /\ Waits /\ HookPhase /\ Holders
  BY DEF SessionInv
<1>2. CASE UNCHANGED journal
  BY <1>2
<1>3. ASSUME NEW d \in Daemons, DaemonNext(d) PROVE journal[c].pre # NoSHA
  <2>1. CASE Listen(d)
    BY <1>2, <2>1 DEF Listen
  <2>2. CASE socket = d
    <3>1. Serving(d)
      BY <2>2 DEF Serving
    <3> QED
      BY <1>3, <3>1, PresOfPre
  <2> QED
    BY <1>1, <1>3, <2>1, <2>2, ServedDaemon
<1> QED
  BY <1>1, <1>2, <1>3, CommandFrame, ServedClient DEF Next, Over, vars, shadowVars

\* Every step keeps the invariant.
LEMMA ServedStep ==
  ASSUME AlwaysServed
  PROVE  SessionInv /\ SessionInv' /\ Backed /\ ServedInv /\ [Next]_vars => ServedInv'
<1> SUFFICES ASSUME SessionInv, SessionInv', Backed, ServedInv, [Next]_vars
             PROVE  ServedInv'
  OBVIOUS
<1>1. /\ TypeOK /\ TypeOK' /\ HookPhase /\ Waits /\ Holders
      /\ AgedOver /\ MetRan /\ OneServer /\ Remembered /\ DaemonRight /\ MetFlagged
  BY DEF SessionInv, ServedInv
<1>2. OneServer' /\ AgedOver' /\ MetRan'
  BY <1>1, OneServerStep, AgedStep, MetRanStep
<1>3. \A c \in Cmds : RowRight(c)
  BY <1>1, RowsAreRight DEF ServedInv
<1>4. /\ Remembered' /\ DaemonRight'
      /\ \A c \in Cmds : RowRight(c)' /\ KeepsFlag(c)
  <2>1. CASE UNCHANGED vars
    BY <1>1, <1>3, <2>1, StillServed
    DEF vars, shadowVars, daemonVars, Unfinished, PostDue, AskedOf
  <2> QED
    BY <1>1, <1>2, <1>3, <2>1, ServedDaemonStep, ServedHookStep, ServedCommandStep
    DEF Next, Over
<1>5. PostsOfTree' /\ Attribution' /\ RowsRight'
  <2>1. RowsRight'
    BY <1>4 DEF RowsRight
  <2> QED
    BY <1>1, <2>1, RowsRightNext
<1>6. MetFlagged'
  <2> SUFFICES ASSUME NEW p \in met', journal'[p[1]].pre # NoSHA, journal'[p[2]].pre # NoSHA
               PROVE  Flagged(p[1])' /\ Flagged(p[2])'
    BY DEF MetFlagged
  <2>1. CASE p \in met
    <3>1. /\ p[1] \in Cmds /\ p[2] \in Cmds
          /\ phase[p[1]] \notin {"idle", "pre"} /\ phase[p[2]] \notin {"idle", "pre"}
      BY <1>1, <2>1 DEF MetRan
    <3>2. journal[p[1]].pre # NoSHA /\ journal[p[2]].pre # NoSHA
      BY <1>1, <3>1, ServedPresStay
    <3> QED
      BY <1>1, <1>4, <2>1, <3>1, <3>2 DEF MetFlagged, KeepsFlag
  <2>2. CASE p \notin met
    <3>1. /\ p[1] \in Cmds /\ p[2] \in Cmds /\ p[1] # p[2]
          /\ phase'[p[1]] = "run" /\ phase'[p[2]] = "run"
      BY <2>2, MetMoves
    <3>2. ServedMeet'
      BY <1>2, <1>4, <1>5, ServedMeetsNext
    <3> QED
      BY <3>1, <3>2 DEF ServedMeet
  <2> QED
    BY <2>1, <2>2
<1> QED
  BY <1>2, <1>4, <1>5, <1>6 DEF ServedInv

\* And Init makes it true.
LEMMA ServedInit == Init => ServedInv
<1> SUFFICES ASSUME Init PROVE ServedInv
  OBVIOUS
<1> USE DEF Init, ShadowInit, DaemonInit, ClientInit
<1>1. \A c \in Cmds : journal[c].pre = NoSHA /\ journal[c].post = NoSHA
  BY DEF NoEntry
<1>2. \A d \in Daemons, c \in Cmds : Nil(inflight[d][c]) /\ worker[d] = NoJob
  BY DEF Nil, NoRec
<1>3. OneServer
  BY <1>2, SentinelAssumption DEF OneServer, Claimed
<1>4. PostsOfTree /\ AgedOver /\ MetRan /\ Remembered /\ MetFlagged
  BY <1>1 DEF PostsOfTree, AgedOver, MetRan, Remembered, MetFlagged
<1>5. DaemonRight
  <2> SUFFICES ASSUME NEW d \in Daemons, NEW c \in Cmds
               PROVE  MemoryRight(d, c) /\ PreJobRight(d, c) /\ PostJobRight(d, c)
    BY DEF DaemonRight
  <2>1. \A op \in Ops : ~JobOf(d, c, op)
    BY <1>2 DEF JobOf, NoJob, Ops
  <2> QED
    BY <1>2, <2>1 DEF MemoryRight, PreJobRight, PostJobRight, Ops
<1>6. Attribution
  BY <1>1 DEF Attribution, Protected, Complete
<1> QED
  BY <1>3, <1>4, <1>5, <1>6 DEF ServedInv

\* One daemon that is never lost keeps the invariant of the served hooks.
THEOREM ServedHolds ==
  ASSUME AlwaysServed
  PROVE  Spec => []ServedInv
<1>1. SessionInv /\ SessionInv' /\ Backed /\ ServedInv /\ [Next]_vars => ServedInv'
  BY ServedStep
<1> QED
  BY <1>1, ServedInit, InvHolds, BackedHolds, PTL DEF Spec

\* A command that is flagged wherever its pre is has a flagged row at the end.
LEMMA ServedOverlapFlagged == MetFlagged => OverlapFlagged
BY DEF MetFlagged, OverlapFlagged, Protected, Complete, Flagged

\* When one daemon serves every hook, an entry that is not flagged counts no other
\* recorded command's changes among its own.
THEOREM ServedAttribution ==
  ASSUME AlwaysServed
  PROVE  Spec => []Attribution
<1>1. ServedInv => Attribution
  BY DEF ServedInv
<1> QED
  BY <1>1, ServedHolds, PTL

\* When one daemon serves every hook, two commands that ran at once are both flagged.
THEOREM ServedOverlaps ==
  ASSUME AlwaysServed
  PROVE  Spec => []OverlapFlagged
<1>1. ServedInv => OverlapFlagged
  BY ServedOverlapFlagged DEF ServedInv
<1> QED
  BY <1>1, ServedHolds, PTL
-----------------------------------------------------------------------------
(* No daemon: every hook writes directly.                                     *)

\* The last actions of the chain are the only ones left.
LEMMA DirectChain ==
  ASSUME NeverServed, TypeOK, Waits, NEW c \in Cmds, ClientNext(c)
  PROVE  \/ Expire(c) \/ SpawnFails(c) \/ RedialGivesUp(c)
         \/ Acquire(c) \/ LockTimeout(c) \/ DegradedFails(c)
         \/ DegradedPreSnap(c) \/ DegradedMark(c) \/ DegradedPreAppend(c)
         \/ DegradedPair(c) \/ DegradedPostSnap(c) \/ DegradedPostAppend(c)
<1>1. socket = NoDaemon /\ conn[c] = NoConn
  BY DEF NeverServed, TypeOK, ShadowTypeOK
<1>2. ~Dial(c) /\ ~Receive(c) /\ ~ConnFails(c)
  BY <1>1 DEF Waits, Dial, Receive, ConnFails
<1>3. ~Spawn(c) /\ ~SpawnLoses(c)
  BY DEF NeverServed, Spawn, SpawnLoses, Claimed
<1> QED
  BY <1>2, <1>3 DEF ClientNext, ClientStep

\* The flock is held from the stage "locked" to the end of the hook.
LEMMA LockHeldStep ==
  ASSUME NeverServed, TypeOK, HookPhase, Waits, LockHeld, [Next]_vars
  PROVE  LockHeld'
<1> USE DEF TypeOK, ClientTypeOK
<1>1. ASSUME NEW k \in Cmds, CommandStep(k) PROVE LockHeld'
  <2>1. lock' = lock
    BY <1>1, CommandFrame
  <2>2. \A c \in Cmds : stage'[c] = stage[c] \/ stage'[c] = "dial"
    BY <1>1 DEF CommandStep, PreHook, PostHook, HookStarts, Goto, Write, Esc, Ages, clientVars
  <2> QED
    BY <2>1, <2>2 DEF LockHeld, Direct
<1>2. ASSUME NEW k \in Cmds, ClientNext(k) PROVE LockHeld'
  <2>1. \A e \in Cmds \ {k} : stage'[e] = stage[e]
    BY <1>2, HookMoves
  <2>2. \/ stage'[k] = "none" /\ lock' = (IF lock = k THEN NoCmd ELSE lock)
        \/ stage'[k] \notin Direct /\ lock' = lock
        \/ stage'[k] \in Direct /\ stage[k] \in Direct /\ lock' = lock
        \/ stage'[k] \in Direct /\ lock = NoCmd /\ lock' = k
    <3>1. CASE LockTimeout(k) \/ DegradedFails(k) \/ DegradedPreAppend(k) \/ DegradedPostAppend(k)
      BY <3>1 DEF LockTimeout, DegradedFails, DegradedPreAppend, DegradedPostAppend,
         HookEnds, Goto
    <3>2. CASE DegradedPostSnap(k)
      BY <3>2 DEF DegradedPostSnap, HookEnds, Goto, Direct
    <3>3. CASE SpawnFails(k) \/ RedialGivesUp(k) \/ Expire(k)
      BY <3>3 DEF SpawnFails, RedialGivesUp, Expire, Goto, Direct
    <3>4. CASE Acquire(k) \/ DegradedPreSnap(k) \/ DegradedMark(k) \/ DegradedPair(k)
      BY <3>4 DEF Acquire, DegradedPreSnap, DegradedMark, DegradedPair, Goto, Direct
    <3> QED
      BY <1>2, <3>1, <3>2, <3>3, <3>4, DirectChain
  <2>3. ASSUME NEW c \in Cmds, stage'[c] \in Direct PROVE lock' = c
    BY <2>1, <2>2, <2>3, NoCmdAssumption DEF LockHeld, Direct
  <2> QED
    BY <2>3 DEF LockHeld
<1>3. CASE UNCHANGED vars
  BY <1>3 DEF vars, clientVars, LockHeld
<1> QED
  BY <1>1, <1>2, <1>3 DEF Next, Over, NeverServed
-----------------------------------------------------------------------------
\* A flag in the journal stays set through a step of a hook.
LEMMA FlagsStayClient ==
  ASSUME TypeOK, NEW k \in Cmds, ClientNext(k), NEW c \in Cmds
  PROVE  journal[c].overlapped => journal'[c].overlapped
<1> USE DEF TypeOK, ShadowTypeOK, ClientTypeOK
<1>1. CASE UNCHANGED journal
  BY <1>1
<1>2. CASE DegradedMark(k)
  BY <1>2, AppendAllFlags, RowTypes DEF DegradedMark
<1>3. ASSUME NEW row \in Entry, AppendRow(k, row)
      PROVE  journal[c].overlapped => journal'[c].overlapped
  <2>1. journal'[k].overlapped = (journal[k].overlapped \/ row.overlapped)
    BY <1>3, AppendFlag
  <2>2. c # k => journal'[c] = journal[c]
    BY <1>3 DEF AppendRow
  <2> QED
    BY <2>1, <2>2
<1>4. CASE LockTimeout(k)
  <2>1. [StatusRow("unprotected_timeout") EXCEPT !.note = "lock timeout"] \in Entry
    BY RowTypes DEF Statuses, Notes
  <2> QED
    BY <1>3, <1>4, <2>1 DEF LockTimeout
<1>5. CASE DegradedFails(k) \/ DegradedPostSnap(k)
  <2>1. StatusRow("unprotected_error") \in Entry
    BY RowTypes DEF Statuses
  <2> QED
    BY <1>1, <1>3, <1>5, <2>1 DEF DegradedFails, DegradedPostSnap
<1>6. CASE DegradedPreAppend(k)
  <2>1. PreRow(local[k].sha, local[k].overlapped) \in Entry
    BY RowTypes DEF Local
  <2> QED
    BY <1>3, <1>6, <2>1 DEF DegradedPreAppend
<1>7. CASE DegradedPostAppend(k)
  <2>1. [StatusRow("protected") EXCEPT !.post = local[k].sha] \in Entry
    BY RowTypes DEF Local, Statuses
  <2> QED
    BY <1>3, <1>7, <2>1 DEF DegradedPostAppend
<1> QED
  BY <1>1, <1>2, <1>4, <1>5, <1>6, <1>7 DEF ClientNext, ClientStep, Expire, Dial, Receive,
     ConnFails, Spawn, SpawnLoses, SpawnFails, RedialGivesUp, Acquire, DegradedPreSnap,
     DegradedPair, shadowVars

\* What a hook does to the rows: nothing, a row of a failure, the flags, its pre or its
\* post.
LEMMA DirectRows ==
  ASSUME NeverServed, TypeOK, HookPhase, Waits, NEW k \in Cmds, ClientNext(k)
  PROVE  \/ DegradedPreAppend(k)
         \/ DegradedPostAppend(k)
         \/ /\ \A c \in Cmds : /\ journal'[c].pre = journal[c].pre
                               /\ journal'[c].post = journal[c].post
            /\ \/ \A c \in Cmds : RowKept(c)
               \/ /\ \A c \in Cmds \ {k} : RowKept(c)
                  /\ journal'[k].status # "protected"
<1> USE DEF TypeOK, ShadowTypeOK, ClientTypeOK, RowKept
<1>1. CASE UNCHANGED journal
  BY <1>1
<1>2. CASE DegradedMark(k)
  <2>1. [NoEntry EXCEPT !.overlapped = TRUE] \in Entry
    BY RowTypes
  <2>2. /\ [NoEntry EXCEPT !.overlapped = TRUE].pre = NoSHA
        /\ [NoEntry EXCEPT !.overlapped = TRUE].post = NoSHA
        /\ [NoEntry EXCEPT !.overlapped = TRUE].status = ""
    BY DEF NoEntry
  <2> QED
    BY <1>2, <2>1, <2>2, AppendAllFacts DEF DegradedMark
<1>3. ASSUME NEW row \in Entry, AppendRow(k, row), row.pre = NoSHA, row.post = NoSHA,
             row.status \in {"unprotected_error", "unprotected_timeout"}
      PROVE  /\ \A c \in Cmds : /\ journal'[c].pre = journal[c].pre
                                /\ journal'[c].post = journal[c].post
             /\ \A c \in Cmds \ {k} : RowKept(c)
             /\ journal'[k].status # "protected"
  BY <1>3, AppendFacts DEF Later
<1>4. CASE LockTimeout(k)
  <2>1. [StatusRow("unprotected_timeout") EXCEPT !.note = "lock timeout"] \in Entry
    BY RowTypes DEF Statuses, Notes
  <2> QED
    BY <1>3, <1>4, <2>1 DEF LockTimeout, StatusRow, NoEntry
<1>5. CASE DegradedFails(k) \/ DegradedPostSnap(k)
  <2>1. StatusRow("unprotected_error") \in Entry
    BY RowTypes DEF Statuses
  <2>2. /\ StatusRow("unprotected_error").pre = NoSHA
        /\ StatusRow("unprotected_error").post = NoSHA
        /\ StatusRow("unprotected_error").status = "unprotected_error"
    BY DEF StatusRow, NoEntry
  <2> QED
    BY <1>1, <1>3, <1>5, <2>1, <2>2 DEF DegradedFails, DegradedPostSnap
<1> QED
  BY <1>1, <1>2, <1>4, <1>5, DirectChain DEF Expire, SpawnFails, RedialGivesUp, Acquire,
     DegradedPreSnap, DegradedPair, shadowVars
-----------------------------------------------------------------------------
\* A step that adds no pre, takes no flag back and brings no row to life.
RowsStay ==
  /\ \A c \in Cmds : /\ journal'[c].pre = journal[c].pre
                     /\ journal[c].overlapped => journal'[c].overlapped
                     /\ LiveRow(c)' => LiveRow(c)
  /\ UNCHANGED tree

\* LiveRight is kept where the rows stay.
LEMMA LiveStays ==
  ASSUME TypeOK, RowsStay, NEW c \in Cmds, LiveRight(c)
  PROVE  LiveRight(c)'
<1> SUFFICES ASSUME LiveRow(c)'
             PROVE  /\ Strays(c, journal[c].pre)' # {} => journal'[c].overlapped
                    /\ \A e \in Cmds \ {c} : LiveRow(e)' => journal'[c].overlapped
  BY DEF LiveRight
<1>1. LiveRow(c) /\ journal'[c].pre = journal[c].pre
  BY DEF RowsStay
<1>2. tree' \ journal'[c].pre = tree \ journal[c].pre
  BY <1>1 DEF RowsStay
<1>3. Strays(c, journal[c].pre)' \subseteq Strays(c, journal[c].pre)
  <2>1. \A e \in tree : e \in Cmds
    BY DEF TypeOK, ShadowTypeOK, Contents
  <2> QED
    BY <1>2, <2>1 DEF Strays, RowsStay
<1> QED
  BY <1>1, <1>3 DEF LiveRight, RowsStay

\* HookRight is kept of a hook that is not the one that steps.
LEMMA HookStays ==
  ASSUME TypeOK, RowsStay, NEW c \in Cmds, HookRight(c),
         UNCHANGED <<stage[c], phase[c], local[c]>>,
         stage[c] = "snapped" =>
           UNCHANGED aged /\ \A e \in Cmds : OpenRow(e) => OpenRow(e)'
  PROVE  HookRight(c)'
<1>1. Strays(c, local[c].sha)' \subseteq Strays(c, local[c].sha)
  <2>1. \A e \in tree : e \in Cmds
    BY DEF TypeOK, ShadowTypeOK, Contents
  <2> QED
    BY <2>1 DEF Strays, RowsStay
<1>2. CASE stage[c] = "snapped"
  <2>1. local'[c].sha \subseteq tree' <=> local[c].sha \subseteq tree
    BY DEF RowsStay
  <2>2. phase[c] = "pre" =>
          Strays(c, local[c].sha)' \subseteq {e \in Cmds \ aged' : OpenRow(e)'}
    BY <1>1, <1>2 DEF HookRight
  <2> QED
    BY <1>2, <2>1, <2>2 DEF HookRight
<1>3. CASE stage[c] = "marked"
  BY <1>1, <1>3 DEF HookRight, RowsStay
<1> QED
  BY <1>2, <1>3 DEF HookRight

-----------------------------------------------------------------------------
\* The steps of the commands.
LEMMA DirectCommand ==
  ASSUME SessionInv, AgedOver, DirectOrder, DirectRight, NEW k \in Cmds, CommandStep(k)
  PROVE  DirectOrder' /\ DirectRight'
<1> USE DEF TypeOK, ShadowTypeOK
<1>1. /\ TypeOK /\ HookPhase
      /\ UNCHANGED <<journal, local>>
  BY CommandFrame DEF SessionInv
<1>2. /\ \A c \in Cmds \ {k} : phase'[c] = phase[c] /\ stage'[c] = stage[c]
      /\ \/ phase'[k] = phase[k] /\ stage'[k] = stage[k]
         \/ phase[k] = "idle" /\ phase'[k] = "pre" /\ stage'[k] = "dial"
         \/ phase[k] = "run" /\ phase'[k] = "post" /\ stage'[k] = "dial"
         \/ phase[k] = "run" /\ phase'[k] = "aborted" /\ stage'[k] = stage[k]
  BY <1>1 DEF CommandStep, PreHook, PostHook, HookStarts, Write, Esc, Ages, Goto,
     ClientTypeOK, clientVars
<1>3. DirectOrder'
  BY <1>1, <1>2 DEF DirectOrder
<1>4. stage[k] = "none" \/ stage'[k] = stage[k]
  BY <1>1, <1>2 DEF HookPhase, Ops
<1>5. CASE ~Write(k)
  <2>1. UNCHANGED tree
    BY <1>5 DEF CommandStep, PreHook, PostHook, HookStarts, Esc, Ages
  <2>2. RowsStay
    BY <1>1, <1>2, <2>1 DEF RowsStay, LiveRow
  <2>3. UNCHANGED aged \/ \A e \in Cmds : stage[e] = "none"
    BY <1>5 DEF CommandStep, PreHook, PostHook, HookStarts, Esc, Ages
  <2>4. ASSUME NEW c \in Cmds PROVE HookRight(c)'
    <3>1. CASE stage'[c] \in {"none", "dial"}
      BY <3>1 DEF HookRight
    <3>2. CASE stage'[c] \notin {"none", "dial"}
      <4>1. UNCHANGED <<stage[c], phase[c], local[c]>>
        BY <1>1, <1>2, <3>2 DEF HookPhase, Ops
      <4> QED
        BY <1>1, <2>2, <2>3, <4>1, HookStays DEF DirectRight, OpenRow
    <3> QED
      BY <3>1, <3>2
  <2> QED
    BY <1>1, <1>3, <2>2, <2>4, LiveStays DEF DirectRight
<1>6. CASE Write(k)
  <2>1. /\ phase[k] = "run" /\ tree' = tree \cup {k}
        /\ UNCHANGED <<phase, aged, stage, local>>
    BY <1>6 DEF Write, clientVars
  <2>2. journal[k].post = NoSHA /\ k \notin aged
    BY <2>1 DEF DirectOrder, AgedOver, Unfinished
  <2>4. ASSUME NEW c \in Cmds PROVE HookRight(c)'
    <3>1. Strays(c, local[c].sha)' \subseteq
            Strays(c, local[c].sha) \cup {e \in {k} : e # c /\ LiveRow(e)}
      BY <1>1, <2>1 DEF Strays, LiveRow
    <3>2. LiveRow(k) => OpenRow(k)
      BY <2>2 DEF LiveRow, OpenRow
    <3>3. UNCHANGED <<LiveRow(k), stage, phase, local, aged, journal>>
      BY <1>1, <2>1 DEF LiveRow
    <3>4. HookRight(c)
      BY DEF DirectRight
    <3>5. CASE stage[c] = "snapped"
      BY <2>1, <2>2, <3>1, <3>2, <3>3, <3>4, <3>5 DEF HookRight, OpenRow
    <3>6. CASE stage[c] = "marked"
      <4>1. \A e \in Cmds : LiveRow(e)' <=> LiveRow(e)
        BY <3>3 DEF LiveRow
      <4> QED
        BY <3>1, <3>3, <3>4, <3>6, <4>1 DEF HookRight
    <3> QED
      BY <3>3, <3>5, <3>6 DEF HookRight
  <2>5. ASSUME NEW c \in Cmds PROVE LiveRight(c)'
    <3>1. Strays(c, journal[c].pre)' \subseteq
            Strays(c, journal[c].pre) \cup {e \in {k} : e # c /\ LiveRow(e)}
      BY <1>1, <2>1 DEF Strays, LiveRow
    <3>2. \A e \in Cmds : LiveRow(e)' <=> LiveRow(e)
      BY <1>1, <2>1 DEF LiveRow
    <3> QED
      BY <1>1, <3>1, <3>2 DEF DirectRight, LiveRight
  <2> QED
    BY <1>3, <2>4, <2>5 DEF DirectRight
<1> QED
  BY <1>5, <1>6
-----------------------------------------------------------------------------
\* The steps of the hooks.
LEMMA DirectOrderClient ==
  ASSUME NeverServed, SessionInv, DirectOrder, NEW k \in Cmds, ClientNext(k)
  PROVE  DirectOrder'
<1>1. TypeOK /\ HookPhase /\ Waits
  BY DEF SessionInv
<1>2. /\ \A e \in Cmds \ {k} : phase'[e] = phase[e] /\ RowKept(e)
      /\ phase[k] \in Ops
      /\ \/ phase'[k] = phase[k]
         \/ phase'[k] = IF phase[k] = "pre" THEN "run" ELSE "done"
  BY <1>1, HookMoves, ClientLedger
<1>3. CASE DegradedPreAppend(k)
  <2>1. phase[k] = "pre" /\ phase'[k] = "run" /\ journal'[k].post = journal[k].post
    <3>1. PreRow(local[k].sha, local[k].overlapped) \in Entry
      BY <1>1, RowTypes DEF Local, TypeOK, ClientTypeOK
    <3>2. PreRow(local[k].sha, local[k].overlapped).post = NoSHA
      BY DEF PreRow, NoEntry
    <3>3. journal'[k].post = journal[k].post
      BY <1>1, <1>3, <3>1, <3>2, AppendFacts DEF DegradedPreAppend, Later, TypeOK, ShadowTypeOK
    <3>4. phase[k] = "pre"
      BY <1>1, <1>3 DEF DegradedPreAppend, HookPhase
    <3> QED
      BY <1>1, <1>3, <3>3, <3>4 DEF DegradedPreAppend, HookEnds, TypeOK, ShadowTypeOK
  <2> QED
    BY <1>2, <2>1 DEF DirectOrder, RowKept
<1>4. CASE DegradedPostAppend(k)
  <2>1. phase'[k] = "done"
    BY <1>1, <1>4 DEF DegradedPostAppend, HookEnds, TypeOK, ShadowTypeOK
  <2> QED
    BY <1>2, <2>1 DEF DirectOrder, RowKept
<1>5. CASE /\ journal'[k].pre = journal[k].pre
           /\ journal'[k].post = journal[k].post
  BY <1>2, <1>5 DEF DirectOrder, RowKept, Ops
<1> QED
  BY <1>1, <1>3, <1>4, <1>5, DirectRows

\* Where the hook stands after a step that leaves the rows of its phase.
LEMMA DirectHook ==
  ASSUME NeverServed, SessionInv, LockHeld, AgedOver, DirectOrder, DirectRight,
         NEW k \in Cmds, ClientNext(k)
  PROVE  HookRight(k)'
<1> USE DEF TypeOK, ShadowTypeOK, ClientTypeOK
<1>1. /\ TypeOK /\ HookPhase /\ Waits
      /\ UNCHANGED <<aged, tree>>
  BY ClientFrame DEF SessionInv
<1>2. CASE stage'[k] \notin {"snapped", "marked"}
  BY <1>2 DEF HookRight
<1>3. CASE DegradedPreSnap(k) \/ DegradedPostSnap(k)
  <2>1. CASE stage'[k] = "snapped"
    <3>1. local'[k].sha = tree
      BY <1>1, <1>3, <2>1 DEF DegradedPreSnap, DegradedPostSnap, HookEnds, Goto, Local
    <3>2. Strays(k, local[k].sha)' = {}
      BY <1>1, <3>1 DEF Strays
    <3> QED
      BY <1>1, <2>1, <3>1, <3>2 DEF HookRight
  <2> QED
    BY <1>1, <1>2, <1>3, <2>1 DEF DegradedPreSnap, DegradedPostSnap, HookEnds, Goto
<1>4. CASE Expire(k)
  <2>1. UNCHANGED <<journal, phase, stage, local>>
    BY <1>4 DEF Expire, shadowVars
  <2>2. Strays(k, local[k].sha)' = Strays(k, local[k].sha)
    BY <1>1, <2>1 DEF Strays
  <2>3. HookRight(k)
    BY DEF DirectRight
  <2>4. \A e \in Cmds : (LiveRow(e)' <=> LiveRow(e)) /\ (OpenRow(e)' <=> OpenRow(e))
    BY <2>1 DEF LiveRow, OpenRow
  <2> QED
    BY <1>1, <2>1, <2>2, <2>3, <2>4 DEF HookRight
<1>5. CASE DegradedMark(k)
  <2> DEFINE row == [NoEntry EXCEPT !.overlapped = TRUE]
             others == {e \in Cmds \ ({k} \cup aged) : OpenRow(e)}
  <2>1. /\ stage[k] = "snapped" /\ phase[k] = "pre" /\ stage'[k] = "marked"
        /\ AppendRows(others, row)
        /\ local'[k].overlapped = (others # {}) /\ local'[k].sha = local[k].sha
        /\ UNCHANGED phase
    BY <1>1, <1>5 DEF DegradedMark, Goto, OpenRow, Local
  <2>2. row \in Entry /\ row.overlapped
    BY RowTypes DEF NoEntry
  <2>3. /\ row.pre = NoSHA /\ row.post = NoSHA /\ row.status = ""
    BY DEF NoEntry
  <2> HIDE DEF row, others
  <2>4. \A e \in Cmds : /\ journal'[e].pre = journal[e].pre
                        /\ journal'[e].post = journal[e].post
    BY <1>1, <2>1, <2>2, <2>3, AppendAllFacts
  <2>5. \A e \in others : e \in Cmds => journal'[e].overlapped
    BY <1>1, <2>1, <2>2, AppendAllFlags
  <2>6. Strays(k, local[k].sha)' = Strays(k, local[k].sha)
    BY <1>1, <2>1, <2>4 DEF Strays, Contents
  <2>7. Strays(k, local[k].sha) \subseteq others
    <3>1. HookRight(k)
      BY DEF DirectRight
    <3> QED
      BY <2>1, <3>1 DEF HookRight, Strays, others
  <2>8. ASSUME NEW e \in Cmds \ {k}, LiveRow(e)' PROVE e \in others
    <3>1. journal[e].pre # NoSHA /\ phase[e] \in {"run", "post"}
      BY <2>1, <2>4, <2>8 DEF LiveRow
    <3>2. e \notin aged /\ journal[e].post = NoSHA
      BY <3>1 DEF AgedOver, Unfinished, DirectOrder
    <3> QED
      BY <3>1, <3>2 DEF others, OpenRow
  <2> QED
    BY <2>1, <2>5, <2>6, <2>7, <2>8 DEF HookRight
<1> QED
  BY <1>1, <1>2, <1>3, <1>4, <1>5, DirectChain
  DEF SpawnFails, RedialGivesUp, Acquire, LockTimeout, DegradedFails,
      DegradedPreAppend, DegradedPair, DegradedPostAppend, HookEnds, Goto

\* Every step but the one that journals a pre leaves the live rows as they are.
LEMMA DirectRowsStay ==
  ASSUME NeverServed, SessionInv, DirectOrder, NEW k \in Cmds, ClientNext(k),
         ~DegradedPreAppend(k)
  PROVE  RowsStay
<1>1. TypeOK /\ HookPhase /\ Waits /\ UNCHANGED tree
  BY ClientFrame DEF SessionInv
<1>2. \A c \in Cmds : journal'[c].pre = journal[c].pre
  <2>1. CASE DegradedPostAppend(k)
    <3>1. [StatusRow("protected") EXCEPT !.post = local[k].sha] \in Entry
      BY <1>1, RowTypes DEF Local, Statuses, TypeOK, ClientTypeOK
    <3>2. [StatusRow("protected") EXCEPT !.post = local[k].sha].pre = NoSHA
      BY DEF StatusRow, NoEntry
    <3> QED
      BY <1>1, <2>1, <3>1, <3>2, AppendFacts
      DEF DegradedPostAppend, Later, TypeOK, ShadowTypeOK
  <2> QED
    BY <1>1, <2>1, DirectRows
<1>3. ASSUME NEW c \in Cmds, LiveRow(c)' PROVE LiveRow(c)
  <2>1. journal[c].pre # NoSHA /\ phase'[c] \in {"run", "post"}
    BY <1>2, <1>3 DEF LiveRow
  <2>2. c # k => phase'[c] = phase[c]
    BY <1>1, HookMoves
  <2>3. phase'[k] = phase[k] \/ phase[k] = "pre" \/ phase'[k] = "done"
    BY <1>1, HookMoves
  <2> QED
    BY <2>1, <2>2, <2>3 DEF LiveRow, DirectOrder
<1> QED
  BY <1>1, <1>2, <1>3, FlagsStayClient DEF RowsStay

\* The pre that a hook journals is flagged as it was marked, and so are the others.
LEMMA DirectPre ==
  ASSUME NeverServed, SessionInv, LockHeld, DirectOrder, DirectRight,
         NEW k \in Cmds, ClientNext(k), DegradedPreAppend(k)
  PROVE  /\ \A c \in Cmds : HookRight(c)' /\ LiveRight(c)'
         /\ NewPresClean /\ \A c \in Cmds \ {k} : UNCHANGED journal[c]
<1> USE DEF TypeOK, ShadowTypeOK, ClientTypeOK
<1> DEFINE row == PreRow(local[k].sha, local[k].overlapped)
<1>1. /\ TypeOK /\ HookPhase /\ Waits /\ UNCHANGED <<aged, tree>>
      /\ k \notin tree
  <2>1. phase[k] = "pre"
    BY DEF DegradedPreAppend, SessionInv, HookPhase
  <2> QED
    BY <2>1, ClientFrame DEF SessionInv, WritesLater
<1>2. /\ stage[k] = "marked" /\ phase[k] = "pre" /\ phase'[k] = "run"
      /\ stage'[k] = "none"
      /\ \A e \in Cmds \ {k} : phase'[e] = phase[e] /\ stage'[e] = stage[e]
  BY <1>1, HookMoves DEF DegradedPreAppend, HookPhase, HookEnds, Goto
<1>3. journal[k].pre = NoSHA /\ local[k].sha # NoSHA
  BY <1>2 DEF DirectOrder, SessionInv, Locals
<1>4. /\ row \in Entry /\ row.pre = local[k].sha /\ row.overlapped = local[k].overlapped
  BY <1>1, RowTypes DEF PreRow, NoEntry, Local
<1>5. AppendRow(k, row)
  BY DEF DegradedPreAppend
<1> HIDE DEF row
<1>6. /\ \A e \in Cmds \ {k} : journal'[e] = journal[e]
      /\ journal'[k].pre = local[k].sha
      /\ journal'[k].overlapped = (journal[k].overlapped \/ local[k].overlapped)
  BY <1>1, <1>3, <1>4, <1>5, AppendFacts, AppendFlag DEF Later
<1>7. \A pre : \A e \in tree \ pre :
        e \in Cmds /\ e # k /\ journal'[e].pre = journal[e].pre
  BY <1>1, <1>6 DEF Contents
<1>8. ASSUME NEW c \in Cmds \ {k} PROVE HookRight(c)'
  <2>1. stage'[c] \notin {"snapped", "marked"}
    BY <1>2 DEF LockHeld, Direct
  <2> QED
    BY <2>1 DEF HookRight
<1>9. HookRight(k)'
  BY <1>2 DEF HookRight
<1>10. HookRight(k)
  BY DEF DirectRight
<1>11. ASSUME NEW e \in Cmds \ {k} PROVE LiveRow(e)' <=> LiveRow(e)
  BY <1>2, <1>6 DEF LiveRow
<1>12. ASSUME NEW c \in Cmds \ {k} PROVE LiveRight(c)'
  <2>1. Strays(c, journal[c].pre)' \subseteq Strays(c, journal[c].pre)
    BY <1>1, <1>6, <1>7 DEF Strays
  <2>2. LiveRight(c)
    BY DEF DirectRight
  <2>3. LiveRow(c) => journal[c].overlapped
    BY <1>2, <1>10 DEF HookRight
  <2> QED
    BY <1>6, <1>11, <2>1, <2>2, <2>3 DEF LiveRight
<1>13. LiveRight(k)'
  <2>1. Strays(k, journal[k].pre)' \subseteq Strays(k, local[k].sha)
    BY <1>1, <1>6, <1>7 DEF Strays
  <2>2. Strays(k, local[k].sha) # {} => local[k].overlapped
    BY <1>2, <1>10 DEF HookRight
  <2>3. \A e \in Cmds \ {k} : LiveRow(e)' => local[k].overlapped
    BY <1>2, <1>10, <1>11 DEF HookRight
  <2> QED
    BY <1>6, <2>1, <2>2, <2>3 DEF LiveRight
<1> QED
  BY <1>1, <1>6, <1>8, <1>9, <1>12, <1>13 DEF NewPresClean

\* DirectRight is kept by a step of a hook.
LEMMA DirectRightClient ==
  ASSUME NeverServed, SessionInv, LockHeld, AgedOver, DirectOrder, DirectRight,
         NEW k \in Cmds, ClientNext(k)
  PROVE  DirectRight'
<1>1. TypeOK /\ HookPhase /\ Waits /\ UNCHANGED aged
  BY ClientFrame DEF SessionInv
<1>2. CASE DegradedPreAppend(k)
  BY <1>2, DirectPre DEF DirectRight
<1>3. CASE ~DegradedPreAppend(k)
  <2>1. RowsStay
    BY <1>3, DirectRowsStay
  <2>2. ASSUME NEW c \in Cmds \ {k} PROVE HookRight(c)'
    <3>1. UNCHANGED <<stage[c], phase[c], local[c]>>
      BY <1>1, HookMoves
    <3>2. stage[c] = "snapped" => \A e \in Cmds : OpenRow(e) => OpenRow(e)'
      <4>1. CASE DegradedPostAppend(k)
        BY <4>1 DEF DegradedPostAppend, LockHeld, Direct
      <4>2. CASE ~DegradedPostAppend(k)
        BY <1>1, <1>3, <4>2, DirectRows DEF OpenRow
      <4> QED
        BY <4>1, <4>2
    <3> QED
      BY <1>1, <2>1, <3>1, <3>2, HookStays DEF DirectRight
  <2>3. HookRight(k)'
    BY DirectHook
  <2>4. \A c \in Cmds : LiveRight(c)'
    BY <1>1, <2>1, LiveStays DEF DirectRight
  <2> QED
    BY <2>2, <2>3, <2>4 DEF DirectRight
<1> QED
  BY <1>2, <1>3

\* The post that a hook journals makes its row right: this is Attribution.
LEMMA DirectPostRow ==
  ASSUME NeverServed, SessionInv, DirectOrder, DirectRight,
         NEW k \in Cmds, ClientNext(k), DegradedPostAppend(k)
  PROVE  RowRight(k)'
<1> USE DEF TypeOK, ShadowTypeOK, ClientTypeOK
<1> DEFINE row == [StatusRow("protected") EXCEPT !.post = local[k].sha]
<1>1. /\ TypeOK /\ HookPhase /\ Waits /\ UNCHANGED tree
      /\ stage[k] = "snapped" /\ phase[k] = "post" /\ phase'[k] = "done"
  BY ClientFrame DEF SessionInv, DegradedPostAppend, HookEnds
<1>2. /\ local[k].sha # NoSHA /\ journal[k].pre # NoSHA
      /\ local[k].sha \subseteq tree
      /\ LiveRight(k)
  BY <1>1 DEF SessionInv, Locals, DirectRight, HookRight
<1>3. row \in Entry /\ row.pre = NoSHA /\ row.post = local[k].sha /\ ~row.overlapped
  BY <1>1, RowTypes DEF StatusRow, NoEntry, Local, Statuses
<1>4. AppendRow(k, row)
  BY DEF DegradedPostAppend
<1> HIDE DEF row
<1>5. /\ \A e \in Cmds : journal'[e].pre = journal[e].pre
      /\ journal'[k].post = local[k].sha
      /\ journal[k].overlapped => journal'[k].overlapped
  BY <1>1, <1>2, <1>3, <1>4, AppendFacts, AppendFlag DEF Later
<1>6. ASSUME ~journal'[k].overlapped, NEW e \in journal'[k].post \ journal'[k].pre
      PROVE  e = k \/ journal'[e].pre = NoSHA
  <2>1. e \in tree \ journal[k].pre /\ e \in Cmds
    BY <1>1, <1>2, <1>5, <1>6 DEF Contents
  <2>2. Strays(k, journal[k].pre) = {}
    BY <1>1, <1>2, <1>5, <1>6 DEF LiveRight, LiveRow
  <2>3. e = k \/ journal[e].pre = NoSHA
    BY <2>1, <2>2 DEF Strays
  <2> QED
    BY <1>5, <2>1, <2>3
<1> QED
  BY <1>1, <1>2, <1>5, <1>6 DEF RowRight

\* Every row stays right through a step of a hook.
LEMMA DirectRowsRight ==
  ASSUME NeverServed, SessionInv, LockHeld, DirectOrder, DirectRight,
         RowsRight, NEW k \in Cmds, ClientNext(k)
  PROVE  RowsRight'
<1> SUFFICES ASSUME NEW c \in Cmds PROVE RowRight(c)'
  BY DEF RowsRight
<1>1. /\ TypeOK /\ HookPhase /\ Waits /\ UNCHANGED tree
      /\ RowRight(c)
  BY ClientFrame DEF SessionInv, RowsRight
<1>2. /\ phase[c] \in {"post", "done"} => phase'[c] \in {"post", "done"}
      /\ c # k => RowKept(c)
      /\ journal[c].overlapped => journal'[c].overlapped
  BY <1>1, HookMoves, ClientLedger, FlagsStayClient DEF Ops
<1>3. NewPresClean
  BY DirectPre, DirectRowsStay DEF NewPresClean, RowsStay
<1>4. CASE c # k
  BY <1>1, <1>2, <1>3, <1>4, RowStays DEF RowKept
<1>5. CASE c = k /\ DegradedPreAppend(k)
  <2>1. DirectOrder' /\ phase'[c] = "run"
    <3>1. phase[k] = "pre"
      BY <1>1, <1>5 DEF DegradedPreAppend, HookPhase
    <3> QED
      BY <1>1, <1>5, <3>1, DirectOrderClient
      DEF DegradedPreAppend, HookEnds, TypeOK, ShadowTypeOK
  <2> QED
    BY <2>1 DEF DirectOrder, RowRight, Protected, Complete
<1>6. CASE c = k /\ DegradedPostAppend(k)
  BY <1>6, DirectPostRow
<1>7. CASE c = k /\ ~DegradedPreAppend(k) /\ ~DegradedPostAppend(k)
  <2>1. journal'[c].post = journal[c].post
    BY <1>1, <1>7, DirectRows
  <2>2. RowKept(c) \/ journal'[c].status # "protected"
    BY <1>1, <1>7, DirectRows
  <2> QED
    BY <1>1, <1>2, <1>3, <2>1, <2>2, RowStays
<1> QED
  BY <1>4, <1>5, <1>6, <1>7
-----------------------------------------------------------------------------
\* Every step keeps the invariant.
LEMMA DirectStep ==
  ASSUME NeverServed
  PROVE  SessionInv /\ SessionInv' /\ DirectInv /\ [Next]_vars => DirectInv'
<1> SUFFICES ASSUME SessionInv, SessionInv', DirectInv, [Next]_vars
             PROVE  DirectInv'
  OBVIOUS
<1>1. /\ TypeOK /\ TypeOK' /\ HookPhase /\ Waits
      /\ AgedOver /\ MetRan /\ LockHeld /\ DirectOrder /\ DirectRight /\ MetRowsFlagged
  BY DEF SessionInv, DirectInv
<1>2. LockHeld' /\ AgedOver' /\ MetRan'
  BY <1>1, LockHeldStep, AgedStep, MetRanStep
<1>3. RowsRight
  BY <1>1, RowsRightAre DEF DirectInv
<1>4. /\ DirectOrder' /\ DirectRight' /\ RowsRight'
      /\ \A c \in Cmds : journal[c].overlapped => journal'[c].overlapped
      /\ \A c \in Cmds : journal'[c].pre # journal[c].pre => phase[c] = "pre"
  <2>1. CASE UNCHANGED vars
    <3>1. UNCHANGED <<phase, aged, tree, journal, stage, local>>
      BY <2>1 DEF vars, shadowVars, clientVars
    <3> QED
      BY <1>1, <1>3, <3>1 DEF DirectOrder, DirectRight, RowsRight, RowRight, HookRight,
         LiveRight, LiveRow, OpenRow, Strays, Protected, Complete
  <2>2. ASSUME NEW k \in Cmds, CommandStep(k)
        PROVE  /\ DirectOrder' /\ DirectRight' /\ RowsRight'
               /\ UNCHANGED journal
    <3>1. UNCHANGED journal /\ tree \subseteq tree'
      BY <2>2, CommandFrame
      DEF CommandStep, PreHook, PostHook, HookStarts, Write, Esc, Ages
    <3>2. \A c \in Cmds : phase[c] \in {"post", "done"} => phase'[c] \in {"post", "done"}
      BY <1>1, <2>2 DEF CommandStep, PreHook, PostHook, HookStarts, Write, Esc, Ages,
         TypeOK, ShadowTypeOK
    <3>3. RowsRight'
      BY <1>1, <1>3, <3>1, <3>2 DEF RowsRight, RowRight, Protected, Complete
    <3> QED
      BY <1>1, <2>2, <3>1, <3>3, DirectCommand
  <2>3. ASSUME NEW k \in Cmds, ClientNext(k)
        PROVE  /\ DirectOrder' /\ DirectRight' /\ RowsRight'
               /\ \A c \in Cmds : journal[c].overlapped => journal'[c].overlapped
               /\ \A c \in Cmds : journal'[c].pre # journal[c].pre => phase[c] = "pre"
    BY <1>1, <1>3, <2>3, DirectOrderClient, DirectRightClient, DirectRowsRight,
       FlagsStayClient, ClientLedger DEF RowKept
  <2> QED
    BY <2>1, <2>2, <2>3 DEF Next, Over, NeverServed
<1>5. PostsOfTree' /\ Attribution'
  BY <1>1, <1>4, RowsRightNext
<1>6. MetRowsFlagged'
  <2> SUFFICES ASSUME NEW p \in met', journal'[p[1]].pre # NoSHA, journal'[p[2]].pre # NoSHA
               PROVE  journal'[p[1]].overlapped /\ journal'[p[2]].overlapped
    BY DEF MetRowsFlagged
  <2>1. CASE p \in met
    <3>1. /\ p[1] \in Cmds /\ p[2] \in Cmds
          /\ phase[p[1]] \notin {"idle", "pre"} /\ phase[p[2]] \notin {"idle", "pre"}
      BY <1>1, <2>1 DEF MetRan
    <3>2. journal[p[1]].pre # NoSHA /\ journal[p[2]].pre # NoSHA
      BY <1>4, <3>1
    <3> QED
      BY <1>1, <1>4, <2>1, <3>1, <3>2 DEF MetRowsFlagged
  <2>2. CASE p \notin met
    <3>1. /\ p[1] \in Cmds /\ p[2] \in Cmds /\ p[1] # p[2]
          /\ phase'[p[1]] = "run" /\ phase'[p[2]] = "run"
      BY <2>2, MetMoves
    <3>2. LiveRow(p[1])' /\ LiveRow(p[2])'
      BY <3>1 DEF LiveRow
    <3> QED
      BY <1>4, <3>1, <3>2 DEF DirectRight, LiveRight
  <2> QED
    BY <2>1, <2>2
<1> QED
  BY <1>2, <1>4, <1>5, <1>6 DEF DirectInv

\* And Init makes it true.
LEMMA DirectInit == Init => DirectInv
<1> SUFFICES ASSUME Init PROVE DirectInv
  OBVIOUS
<1> USE DEF Init, ShadowInit, ClientInit
<1>1. \A c \in Cmds : journal[c].pre = NoSHA /\ journal[c].post = NoSHA
  BY DEF NoEntry
<1>2. PostsOfTree /\ AgedOver /\ MetRan /\ MetRowsFlagged /\ Attribution
  BY <1>1 DEF PostsOfTree, AgedOver, MetRan, MetRowsFlagged, Attribution, Protected,
     Complete
<1>3. LockHeld /\ DirectOrder /\ DirectRight
  BY <1>1 DEF LockHeld, Direct, DirectOrder, DirectRight, HookRight, LiveRight, LiveRow
<1> QED
  BY <1>2, <1>3 DEF DirectInv

\* The flock and the marks in the journal keep the invariant of the direct hooks.
THEOREM DirectHolds ==
  ASSUME NeverServed
  PROVE  Spec => []DirectInv
<1>1. SessionInv /\ SessionInv' /\ DirectInv /\ [Next]_vars => DirectInv'
  BY DirectStep
<1> QED
  BY <1>1, DirectInit, InvHolds, PTL DEF Spec

\* When every hook writes directly, an entry that is not flagged counts no other recorded
\* command's changes among its own: also under timeouts, failures of git and interrupts.
THEOREM DirectAttribution ==
  ASSUME NeverServed
  PROVE  Spec => []Attribution
<1>1. DirectInv => Attribution
  BY DEF DirectInv
<1> QED
  BY <1>1, DirectHolds, PTL

\* When every hook writes directly, two commands that ran at once are both flagged.
THEOREM DirectOverlaps ==
  ASSUME NeverServed
  PROVE  Spec => []OverlapFlagged
<1>1. DirectInv => OverlapFlagged
  BY DEF DirectInv, MetRowsFlagged, OverlapFlagged, Protected, Complete
<1> QED
  BY <1>1, DirectHolds, PTL
=============================================================================
