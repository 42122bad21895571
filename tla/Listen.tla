------------------------------- MODULE Listen -------------------------------
(* How daemon processes of one session claim its unix socket                  *)
(* (internal/daemon/listen.go and run.go): CleanStaleSockets, then Listen's   *)
(* alive -> remove -> bind sequence under the bindlock, and the listener's    *)
(* Close.  A process is one run of `bashback daemon run`; its identity is     *)
(* used again once it is gone.                                                *)

CONSTANTS Procs,   \* daemon processes
          Absent,  \* no file at the socket's path
          Stale,   \* the socket file of a process that crashed
          NoProc   \* the bindlock is free

ASSUME ProcsAssumption ==
  /\ Absent \notin Procs /\ Stale \notin Procs /\ NoProc \notin Procs
  /\ Absent # Stale

VARIABLES stage,     \* where each process is
          file,      \* whose socket the path names
          bindlock,  \* holder of the flock on path.bindlock
          clobbered  \* CleanStaleSockets has unlinked a socket in use

vars == <<stage, file, bindlock, clobbered>>

Critical == {"check", "remove", "bind", "listen"}  \* under the bindlock
Stages   == {"gone", "clean", "unlink", "lock", "serving", "closing"} \cup Critical

\* The process has bound the path and not yet given it up.
Bound(p) == stage[p] \in {"listen", "serving"}

\* socketAlive: a dial succeeds once the bound socket listens.
SocketAlive == file \in Procs /\ stage[file] = "serving"

Init ==
  /\ stage = [p \in Procs |-> "gone"]
  /\ file = Absent
  /\ bindlock = NoProc
  /\ clobbered = FALSE

Goto(p, s) == stage' = [stage EXCEPT ![p] = s]

\* The path is unlinked, whoever's socket it names.
Unlink == file' = Absent

\* The process ends; the kernel drops its flock.
Leave(p) ==
  /\ Goto(p, "gone")
  /\ bindlock' = IF bindlock = p THEN NoProc ELSE bindlock

Start(p) ==
  /\ stage[p] = "gone"
  /\ Goto(p, "clean")
  /\ UNCHANGED <<file, bindlock, clobbered>>

\* CleanStaleSockets looks at the socket ...
CleanLooks(p) ==
  /\ stage[p] = "clean"
  /\ Goto(p, IF file # Absent /\ ~SocketAlive THEN "unlink" ELSE "lock")
  /\ UNCHANGED <<file, bindlock, clobbered>>

\* ... and then removes what it took for dead.
CleanRemoves(p) ==
  /\ stage[p] = "unlink"
  /\ Unlink
  /\ clobbered' = (clobbered \/ (file \in Procs /\ Bound(file)))
  /\ Goto(p, "lock")
  /\ UNCHANGED bindlock

\* Mutant of Acquire: the flock does not exclude.
AcquireShared(p) ==
  /\ stage[p] = "lock"
  /\ bindlock' = p
  /\ Goto(p, "check")
  /\ UNCHANGED <<file, clobbered>>

Acquire(p) ==
  /\ stage[p] = "lock"
  /\ bindlock = NoProc
  /\ bindlock' = p
  /\ Goto(p, "check")
  /\ UNCHANGED <<file, clobbered>>

\* One second without the lock: ErrAlreadyRunning.
AcquireTimesOut(p) ==
  /\ stage[p] = "lock"
  /\ bindlock # NoProc
  /\ Leave(p)
  /\ UNCHANGED <<file, clobbered>>

Check(p) ==
  /\ stage[p] = "check"
  /\ IF SocketAlive THEN Leave(p) ELSE Goto(p, "remove") /\ UNCHANGED bindlock
  /\ UNCHANGED <<file, clobbered>>

RemoveStale(p) ==
  /\ stage[p] = "remove"
  /\ Unlink
  /\ Goto(p, "bind")
  /\ UNCHANGED <<bindlock, clobbered>>

\* net.Listen binds (EADDRINUSE if the path exists) and then listens; only a
\* listening socket answers a dial.
Bind(p) ==
  /\ stage[p] = "bind"
  /\ IF file = Absent
     THEN file' = p /\ Goto(p, "listen") /\ UNCHANGED bindlock
     ELSE Leave(p) /\ UNCHANGED file
  /\ UNCHANGED clobbered

Listening(p) ==
  /\ stage[p] = "listen"
  /\ Goto(p, "serving")
  /\ bindlock' = NoProc
  /\ UNCHANGED <<file, clobbered>>

\* Serve's ln.Close: the net package unlinks the path, then closes the socket.
Close(p) ==
  /\ stage[p] = "serving"
  /\ Unlink
  /\ Goto(p, "closing")
  /\ UNCHANGED <<bindlock, clobbered>>

Exit(p) ==
  /\ stage[p] = "closing"
  /\ Leave(p)
  /\ UNCHANGED <<file, clobbered>>

Crash(p) ==
  /\ stage[p] # "gone"
  /\ Leave(p)
  /\ file' = IF file = p THEN Stale ELSE file
  /\ UNCHANGED clobbered

Next ==
  \E p \in Procs :
    \/ Start(p) \/ CleanLooks(p) \/ CleanRemoves(p)
    \/ Acquire(p) \/ AcquireTimesOut(p)
    \/ Check(p) \/ RemoveStale(p) \/ Bind(p) \/ Listening(p)
    \/ Close(p) \/ Exit(p) \/ Crash(p)

Spec == Init /\ [][Next]_vars
-----------------------------------------------------------------------------
\* Every variable holds a value of its kind.
TypeOK ==
  /\ stage \in [Procs -> Stages]
  /\ file \in Procs \cup {Absent, Stale}
  /\ bindlock \in Procs \cup {NoProc}
  /\ clobbered \in BOOLEAN

\* Two processes never serve the same session (listen.go: "two daemons racing to
\* claim one session must not both see the socket as free and bind in turn").
OneServer ==
  \A p, q \in Procs : stage[p] = "serving" /\ stage[q] = "serving" => p = q

\* Listen keeps that promise, and every client reaches the daemon that serves,
\* unless CleanStaleSockets, which takes no lock, has unlinked a socket in use.
ServerOwnsPath ==
  ~clobbered => \A p \in Procs : stage[p] = "serving" => file = p

\* Why it does: the lock holder is the only process in the sequence, a bound
\* process owns the path, and past the check nobody is bound.
LockHeld == \A p \in Procs : stage[p] \in Critical <=> bindlock = p
BoundOwnsPath == ~clobbered => \A p \in Procs : Bound(p) => file = p
CheckedIsFree ==
  ~clobbered => \A p, q \in Procs : stage[p] \in {"remove", "bind"} => ~Bound(q)

\* The three, with the types, are inductive.
ClaimInv == TypeOK /\ LockHeld /\ BoundOwnsPath /\ CheckedIsFree
=============================================================================
