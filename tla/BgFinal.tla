------------------------------- MODULE BgFinal -------------------------------
(* The final state of background commands (snapshot/bgfinal.go).  The agent's *)
(* call ends at once and is recorded with the task's id; when the agent polls *)
(* or stops the task, a hook asks for the final capture (hook.go, dispatchBg),*)
(* which the session's daemon makes, or the hook itself.  Those two are not   *)
(* serialised with each other.  The work-tree is the set of the writes it     *)
(* holds, and a snapshot the tree it was taken of.                            *)
EXTENDS Naturals, FiniteSets

CONSTANTS Bgs,        \* background commands of a session, with distinct task ids
          Fgs,        \* its commands in the foreground
          Capturers,  \* processes that capture: the daemon, hooks that write directly
          NoSHA,      \* no snapshot
          MaxWrites   \* bound on the writes of one command

Runs  == Bgs \cup Fgs
Trees == SUBSET (Runs \X (1..MaxWrites))

ASSUME BgFinalAssumption ==
  Bgs \cap Fgs = {} /\ MaxWrites \in Nat /\ \A t \in Trees : t # NoSHA

Notes == {"", "completed", "not captured", "captured"}

VARIABLES tree,    \* the writes in the work-tree
          running, \* commands that run
          post,    \* per background command: post_sha of its entry
          final,   \* per background command: post_sha of its bgfinal entry
          note,    \* per background command: the note on its entry
          exists,  \* the repository has not been reclaimed
          cap      \* per capturer: what it is doing

bgVars == <<tree, running, post, final, note, exists, cap>>

Cap(at, b, sha) == [at |-> at, b |-> b, sha |-> sha]
NoCap == [at |-> "idle"]
Caps  == {NoCap} \cup {Cap(at, b, sha) : at \in {"snap", "entry", "note"}, b \in Bgs,
                                         sha \in Trees \cup {NoSHA}}

BgTypeOK ==
  /\ tree \in Trees
  /\ running \subseteq Runs
  /\ post \in [Bgs -> Trees \cup {NoSHA}]
  /\ final \in [Bgs -> Trees \cup {NoSHA}]
  /\ note \in [Bgs -> Notes]
  /\ exists \in BOOLEAN
  /\ cap \in [Capturers -> Caps]

BgInit ==
  /\ tree = {}
  /\ running = {}
  /\ post = [b \in Bgs |-> NoSHA]
  /\ final = [b \in Bgs |-> NoSHA]
  /\ note = [b \in Bgs |-> ""]
  /\ exists = TRUE
  /\ cap = [p \in Capturers |-> NoCap]
-----------------------------------------------------------------------------
(* The commands.                                                              *)

Wrote(c) == {w \in tree : w[1] = c}

Starts(c) ==
  /\ c \notin running
  /\ Wrote(c) = {}
  /\ c \in Bgs => post[c] = NoSHA
  /\ running' = running \cup {c}
  /\ UNCHANGED <<tree, post, final, note, exists, cap>>

Write(c) ==
  /\ c \in running
  /\ Cardinality(Wrote(c)) < MaxWrites
  /\ tree' = tree \cup {<<c, Cardinality(Wrote(c)) + 1>>}
  /\ UNCHANGED <<running, post, final, note, exists, cap>>

\* The post of a call put in the background: its entry has the task's id.  The command
\* may be over by then.
Posted(b) ==
  /\ b \in running \/ Wrote(b) # {}
  /\ post[b] = NoSHA
  /\ post' = [post EXCEPT ![b] = tree]
  /\ UNCHANGED <<tree, running, final, note, exists, cap>>

\* The command ends, or TaskStop kills it.
End(c) ==
  /\ c \in running
  /\ running' = running \ {c}
  /\ UNCHANGED <<tree, post, final, note, exists, cap>>

\* Garbage collection takes the session's repository.
Reclaimed ==
  /\ exists
  /\ exists' = FALSE
  /\ UNCHANGED <<tree, running, post, final, note, cap>>
-----------------------------------------------------------------------------
(* The capture.                                                               *)

Does(p, c) == cap' = [cap EXCEPT ![p] = c]
At(p, at) == cap[p].at = at

\* Mutant of Trigger: a poll of a task that still runs counts.
TriggerAny(b) == post[b] # NoSHA

\* bgFinalTrigger: TaskOutput counts once its status is completed, TaskStop ends the
\* task.  An entry without a post is no baseline.
Trigger(b) == post[b] # NoSHA /\ b \notin running

\* A prior capture: the bgfinal entry, or a note.
Captured(b) == final[b] # NoSHA \/ note[b] \in {"completed", "not captured"}

\* The journal is read.  What is captured already is left alone; without the post's
\* commit only a note is left.
Look(p, b) ==
  /\ At(p, "idle")
  /\ Trigger(b)
  /\ ~Captured(b)
  /\ IF exists
     THEN Does(p, Cap("snap", b, NoSHA)) /\ UNCHANGED note
     ELSE note' = [note EXCEPT ![b] = "not captured"] /\ UNCHANGED cap
  /\ UNCHANGED <<tree, running, post, final, exists>>

\* The tree is snapshotted against the post, which must still be there for the diff;
\* without a change, a note completes the entry.
Snapshot(p) ==
  /\ At(p, "snap")
  /\ exists
  /\ LET b == cap[p].b
     IN  IF tree = post[b]
         THEN note' = [note EXCEPT ![b] = "completed"] /\ Does(p, NoCap)
         ELSE Does(p, Cap("entry", b, tree)) /\ UNCHANGED note
  /\ UNCHANGED <<tree, running, post, final, exists>>

\* The bgfinal entry; of two with the same key, the later one's post_sha is kept.
Entry(p) ==
  /\ At(p, "entry")
  /\ final' = [final EXCEPT ![cap[p].b] = cap[p].sha]
  /\ Does(p, [cap[p] EXCEPT !.at = "note"])
  /\ UNCHANGED <<tree, running, post, note, exists>>

\* The flag of that entry: it is not set, and MarkOverlaps compares sessions.
Overlapped(b) == FALSE

\* The original entry points at it.
Note(p) ==
  /\ At(p, "note")
  /\ note' = [note EXCEPT ![cap[p].b] = "captured"]
  /\ Does(p, NoCap)
  /\ UNCHANGED <<tree, running, post, final, exists>>

\* Git fails, the budget is over, or the process dies: the next poll tries again.
Fails(p) ==
  /\ cap[p] # NoCap
  /\ Does(p, NoCap)
  /\ UNCHANGED <<tree, running, post, final, note, exists>>

BgNext ==
  \/ \E c \in Runs : Starts(c) \/ Write(c) \/ End(c)
  \/ \E b \in Bgs : Posted(b)
  \/ Reclaimed
  \/ \E p \in Capturers :
       Snapshot(p) \/ Entry(p) \/ Note(p) \/ Fails(p) \/ \E b \in Bgs : Look(p, b)

BgSpec == BgInit /\ [][BgNext]_bgVars
-----------------------------------------------------------------------------
(* Properties.                                                                *)

\* An entry that says its background command is captured or complete has all the
\* command wrote, in its own post or in the bgfinal's, whoever captured it, however
\* often, and wherever an attempt was cut off.
FinalHoldsAll ==
  \A b \in Bgs : note[b] \in {"captured", "completed"} \/ final[b] # NoSHA =>
    Wrote(b) \subseteq post[b] \cup (IF final[b] = NoSHA THEN {} ELSE final[b])

\* A bgfinal entry that holds other commands' writes says so (bgfinal.go: "plus any
\* overlap, which the interval check below flags honestly").  The entry is written
\* without the flag, and readers flag entries of different sessions only.
BgOverlapFlagged ==
  \A b \in Bgs : final[b] # NoSHA /\ ~Overlapped(b) =>
    \A w \in final[b] \ post[b] : w[1] = b
=============================================================================
