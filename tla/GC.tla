--------------------------------- MODULE GC ---------------------------------
(* Garbage collection of one project's session repositories                   *)
(* (internal/snapshot/gc.go): the pass every daemon makes when it exits       *)
(* (daemon.go, runExitGC) and the command `bashback gc`.  Nothing is locked:  *)
(* a collector asks which sockets are alive, then looks at file times and     *)
(* sizes, then removes one directory after another, while sessions go on.     *)
EXTENDS Integers, FiniteSetsExt

CONSTANTS Sessions,     \* session ids, in the order of their names
          CLI,          \* the `bashback gc` of a user, beside the daemons
          None,         \* a session has no repository
          Size,         \* per session: what its repository takes, when there is one
          Retention, SoftCap,            \* the project's configuration
          DefaultRetention, DefaultCap,  \* what GC takes for an unset option
          Grace,        \* recentWriteGrace
          MaxTime       \* bound of the clock

Collectors == Sessions \cup {CLI}   \* a daemon is named by its session
Times == 0..MaxTime

\* The grace time is an hour; the retention a positive number of days (config.go, Resolve),
\* 14 when it is not set.
ASSUME GCAssumption ==
  /\ Sessions \subseteq Nat /\ CLI \notin Sessions /\ MaxTime \in Nat /\ None \notin Times
  /\ {Retention, DefaultRetention, Grace} \subseteq Nat
  /\ Grace <= Retention /\ Grace <= DefaultRetention

VARIABLES now,     \* the clock
          newest,  \* per session: the newest file time of its repository
          live,    \* sessions with a live socket
          gc,      \* per process: a collection under way
          since,   \* history: what it may remove of sessions seen writing, or
                   \* with a new socket, since a collector asked
          raced    \* history: one of those has been removed all the same

gcVars == <<now, newest, live, gc, since, raced>>

Pass == [at : {"idle", "asked", "removing"}, active : SUBSET Sessions,
         aged : SUBSET Sessions, over : SUBSET Sessions]
NoPass == [at |-> "idle", active |-> {}, aged |-> {}, over |-> {}]

GCTypeOK ==
  /\ now \in Times
  /\ newest \in [Sessions -> Times \cup {None}]
  /\ live \subseteq Sessions
  /\ gc \in [Collectors -> Pass]
  /\ since \in [Collectors -> SUBSET Sessions]
  /\ raced \in BOOLEAN

Kept == {s \in Sessions : newest[s] # None}

GCInit ==
  /\ now = 0
  /\ newest = [s \in Sessions |-> None]
  /\ live = {}
  /\ gc = [p \in Collectors |-> NoPass]
  /\ since = [p \in Collectors |-> {}]
  /\ raced = FALSE
-----------------------------------------------------------------------------
(* The sessions.                                                              *)

Tick == now < MaxTime /\ now' = now + 1 /\ UNCHANGED <<newest, live, gc, since, raced>>

Noted(s) ==
  since' = [p \in Collectors |->
    IF gc[p].at = "asked" \/ s \in gc[p].aged \cup gc[p].over
    THEN since[p] \cup {s} ELSE since[p]]

\* A snapshot with something to commit, the first one of a repository included
\* (EnsureRepo makes the directory anew).  It is taken by the session's daemon,
\* or directly by its hook.
SessionWrites(s) ==
  /\ newest' = [newest EXCEPT ![s] = now]
  /\ \/ live' = live \cup {s}
     \/ UNCHANGED live
  /\ Noted(s)
  /\ UNCHANGED <<now, gc, raced>>

\* A snapshot that finds nothing to commit writes no file; a daemon may come up
\* for it all the same.
Skip(s) ==
  /\ newest[s] # None
  /\ s \notin live
  /\ live' = live \cup {s}
  /\ Noted(s)
  /\ UNCHANGED <<now, newest, gc, raced>>
-----------------------------------------------------------------------------
(* The collectors.                                                            *)

Begin(p, active) ==
  /\ gc[p].at = "idle"
  /\ gc' = [gc EXCEPT ![p] = [NoPass EXCEPT !.at = "asked", !.active = active]]
  /\ since' = [since EXCEPT ![p] = {}]

\* Serve ends: the listener is closed, then runExitGC asks for live sockets other
\* than its own.
ExitGC(s) ==
  /\ s \in live
  /\ live' = live \ {s}
  /\ Begin(s, live \ {s})
  /\ UNCHANGED <<now, newest, raced>>

\* bashback gc.
CommandGC ==
  /\ Begin(CLI, live)
  /\ UNCHANGED <<now, newest, live, raced>>

\* runExitGC passes neither age nor cap, so gcRepo takes its defaults; the command
\* passes the project's settings.  (`gc --all` passes neither, `--older-than` any.)
OlderThan(p) == IF p = CLI THEN Retention ELSE DefaultRetention
CapOf(p) == IF p = CLI THEN SoftCap ELSE DefaultCap

\* Mutant of Aged: live sockets are not heeded.
AgedLive(p) == {s \in Kept : newest[s] < now - OlderThan(p)}

Aged(p) ==
  {s \in Kept \ gc[p].active : newest[s] < now - OlderThan(p)}

\* sort.Slice by last write; of equal times, the order of the directory's names.
Older(s, t) == newest[s] < newest[t] \/ (newest[s] = newest[t] /\ s < t)

\* Mutant of Evictable: fresh writes are no reason to keep a repository.
EvictableFresh(p, left) == {s \in left \ gc[p].active : \E t \in left : Older(s, t)}

\* Mutant of Evictable: the project's newest repository may go too.
EvictableNewest(p, left) == {s \in left \ gc[p].active : now - newest[s] > Grace}

\* Of the survivors of the age pass the soft cap spares the active ones, those with a
\* write within the grace time, and the last in the order of writes.
Evictable(p, left) ==
  {s \in left \ gc[p].active : now - newest[s] > Grace /\ \E t \in left : Older(s, t)}

SizeOf(ss) == MapThenSumSet(LAMBDA s : Size[s], ss)

\* The soft-cap pass, oldest first until what is left is under the cap: one goes when
\* the removal of all that could go before it has not been enough.
Evicted(p, left) ==
  {s \in Evictable(p, left) :
     SizeOf(left \ {t \in Evictable(p, left) : Older(t, s)}) > CapOf(p)}

\* The collector goes on with what is left to remove; with nothing left it is done.
Left(p, aged, over) ==
  IF aged \cup over = {} THEN NoPass
  ELSE [at |-> "removing", active |-> {}, aged |-> aged, over |-> over]

\* gcRepo's look: the directories with their times and sizes, and from them what
\* both passes are going to remove.
GcLook(p) ==
  /\ gc[p].at = "asked"
  /\ LET over == Evicted(p, Kept \ Aged(p))
     IN  /\ gc' = [gc EXCEPT ![p] = Left(p, Aged(p), over)]
         /\ since' = [since EXCEPT ![p] = @ \cap (Aged(p) \cup over)]
  /\ UNCHANGED <<now, newest, live, raced>>

\* os.RemoveAll of one directory: first those of the age pass.
Reclaim(p, s) ==
  /\ gc[p].at = "removing"
  /\ s \in gc[p].aged \/ (gc[p].aged = {} /\ s \in gc[p].over)
  /\ newest' = [newest EXCEPT ![s] = None]
  /\ gc' = [gc EXCEPT ![p] = Left(p, gc[p].aged \ {s}, gc[p].over \ {s})]
  /\ since' = [since EXCEPT ![p] = @ \ {s}]
  /\ raced' = (raced \/ (s \in since[p] /\ newest[s] # None))
  /\ UNCHANGED <<now, live>>

GCNext ==
  \/ Tick
  \/ \E s \in Sessions : SessionWrites(s) \/ Skip(s) \/ ExitGC(s)
  \/ CommandGC
  \/ \E p \in Collectors : GcLook(p) \/ \E s \in Sessions : Reclaim(p, s)

GCSpec == GCInit /\ [][GCNext]_gcVars
-----------------------------------------------------------------------------
(* Properties.                                                                *)

Removes(p, s) == Reclaim(p, s) /\ newest[s] # None

\* A session whose socket was alive when the collector asked keeps its repository
\* (gc.go: "Active sessions (live socket) are never touched"): one that is removed
\* while alive came up later, or is the exiting daemon's own session, which a
\* successor of it may serve by now (daemon.go, liveSessions).
ActiveStays ==
  \A p \in Collectors, s \in Sessions :
    Removes(p, s) => s \notin live \/ s \in since[p]

\* What was written within the grace time is not removed (gc.go, recentWriteGrace),
\* neither by age nor for the cap, whatever several collectors do at once, unless
\* it was written after the collector's look.
RecentStays ==
  \A p \in Collectors, s \in Sessions :
    Removes(p, s) => now - newest[s] > Grace \/ s \in since[p]

\* The soft cap spares the project's newest repository (gc.go: "Never evict the
\* project's newest session"), so that only age empties a project, whoever
\* collects beside whom, as long as no collector took what was written after its
\* look.
LastStays ==
  \A p \in Collectors, s \in Sessions :
    Removes(p, s) /\ Kept = {s} /\ ~raced' =>
      \E q \in Collectors : now - newest[s] > OlderThan(q)

\* No step of a behaviour breaks one of them.
ActiveKept == [][ActiveStays]_gcVars
RecentKept == [][RecentStays]_gcVars
LastKept   == [][LastStays]_gcVars
=============================================================================
