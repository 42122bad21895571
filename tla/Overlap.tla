------------------------------ MODULE Overlap ------------------------------
(* Cross-session overlap (internal/journal/overlap.go, MarkOverlaps): which   *)
(* entries of different sessions ran at the same time is computed from what   *)
(* the journal recorded of them, a timestamp in whole seconds (RFC3339), read *)
(* before the post's snapshot, and a duration, read after it.  Time is        *)
(* counted in ticks, Second to the second.                                    *)
EXTENDS Entries, Sequences

CONSTANTS Sessions,   \* agent sessions on one project
          Second,     \* ticks in a second
          MaxTime,    \* bound on the clock
          MaxEntries, \* bound on the journal
          Idle        \* the time of what has not happened

ASSUME TimeAssumption ==
  Second \in Nat \ {0} /\ MaxTime \in Nat /\ MaxEntries \in Nat /\ Idle \notin Nat

VARIABLES now,      \* the clock
          began,    \* when each session's command began, or Idle
          returned, \* when it did: its post waits for a worker, or for the flock
          stamped,  \* when its post took its timestamp: the snapshot is under way
          entries   \* the merged journal, with the real times beside the recorded

vars == <<now, began, returned, stamped, entries>>

Init ==
  /\ now = 0
  /\ began = [s \in Sessions |-> Idle] /\ returned = began /\ stamped = began
  /\ entries = <<>>

Tick ==
  /\ now < MaxTime /\ Len(entries) < MaxEntries
  /\ now' = now + 1
  /\ UNCHANGED <<began, returned, stamped, entries>>

\* handlePre takes the start of the record when its snapshot is done.
Begin(s) ==
  /\ began[s] = Idle /\ Len(entries) < MaxEntries
  /\ began' = [began EXCEPT ![s] = now]
  /\ UNCHANGED <<now, returned, stamped, entries>>

\* The command returns, and its post hook asks for a snapshot.
End(s) ==
  /\ began[s] # Idle /\ returned[s] = Idle
  /\ returned' = [returned EXCEPT ![s] = now]
  /\ UNCHANGED <<now, began, stamped, entries>>

\* The post is served: TS is read before Engine.Post, in the daemon and in degraded.
Stamp(s) ==
  /\ returned[s] # Idle /\ stamped[s] = Idle
  /\ stamped' = [stamped EXCEPT ![s] = now]
  /\ UNCHANGED <<now, began, returned, entries>>

\* Time.Format(RFC3339) drops the fraction of the second.
Formatted(t) == t - (t % Second)

\* The snapshot is done and the row is written.  DurationMS is read now, from the
\* start of a pre held in "memory"; one paired from the "journal" had its clock
\* started with the timestamp; a hook that wrote "directly" records no duration.
Finish(s, pre) ==
  /\ stamped[s] # Idle
  /\ Len(entries) < MaxEntries
  /\ entries' = Append(entries,
       [session |-> s, from |-> began[s], to |-> returned[s], stamp |-> stamped[s],
        ts |-> Formatted(stamped[s]), timed |-> pre = "memory", took |-> now - stamped[s],
        dur |-> CASE pre = "memory"   -> now - began[s]
                  [] pre = "journal"  -> now - stamped[s]
                  [] pre = "directly" -> 0])
  /\ began'   = [began EXCEPT ![s] = Idle]
  /\ returned'   = [returned EXCEPT ![s] = Idle]
  /\ stamped' = [stamped EXCEPT ![s] = Idle]
  /\ UNCHANGED now

Next ==
  \/ Tick
  \/ \E s \in Sessions :
       \/ Begin(s)
       \/ End(s)
       \/ Stamp(s)
       \/ \E pre \in {"memory", "journal", "directly"} : Finish(s, pre)

Spec == Init /\ [][Next]_vars
-----------------------------------------------------------------------------
MarkOverlaps(es) ==
  {i \in DOMAIN es : \E j \in DOMAIN es :
     es[i].session # es[j].session /\ Intersect(es[i], es[j])}
-----------------------------------------------------------------------------
\* How long two commands really ran at the same time (negative: the gap between).
Least(a, b)    == IF a < b THEN a ELSE b
Greatest(a, b) == IF a > b THEN a ELSE b
Common(e, f)   == Least(e.to, f.to) - Greatest(e.from, f.from)

Pairs == {p \in (DOMAIN entries) \X (DOMAIN entries) :
            entries[p[1]].session # entries[p[2]].session}
Timed(p) == entries[p[1]].timed /\ entries[p[2]].timed

\* Two sessions' commands that ran together for a second or more are flagged,
\* whatever the timestamps lost, if the journal has both durations.
LongOverlapMarked ==
  \A p \in Pairs :
    Timed(p) /\ Common(entries[p[1]], entries[p[2]]) >= Second =>
      p[1] \in MarkOverlaps(entries)

\* How far apart two flagged commands may have been.  The start the journal gives of
\* one is early by the time its post's snapshot took, and the end it gives of the
\* other late by the time its post waited to be served.
Reach(e, f) == Second + Greatest(e.took + (f.stamp - f.to), f.took + (e.stamp - e.to))

\* A flagged entry has one of another session that it met, or missed by less than a
\* second and what the one's snapshot and the other's wait for its own took; nothing
\* bounds those but the budgets, so a flag is no proof that the two ran together.
MarkedWasNear ==
  \A i \in MarkOverlaps(entries) : \E p \in Pairs :
    p[1] = i /\ Common(entries[i], entries[p[2]]) > -Reach(entries[i], entries[p[2]])
=============================================================================
