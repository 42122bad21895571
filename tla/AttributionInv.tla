--------------------------- MODULE AttributionInv ---------------------------
(* The inductive invariants behind Attribution and OverlapFlagged: how one    *)
(* daemon, or the flock of hooks that write directly, keeps apart whose       *)
(* changes lie between a pre and its post.                                    *)
EXTENDS SessionInv

\* Recorded commands other than c that have written since the snapshot pre.
Strays(c, pre) == {e \in tree \ pre : e # c /\ journal[e].pre # NoSHA}

\* A command whose post may still come.
Unfinished(c) == phase[c] \notin {"aborted", "done"}

\* What both ways have in common: only a post hook journals a post, of what is in
\* the work-tree by then, and only commands that are over grow old.
PostsOfTree ==
  \A c \in Cmds : journal[c].post # NoSHA =>
    phase[c] \in {"post", "done"} /\ journal[c].post \subseteq tree

AgedOver == \A c \in aged : ~Unfinished(c)

MetRan ==
  \A p \in met : /\ p \in Cmds \X Cmds
                 /\ phase[p[1]] \notin {"idle", "pre"}
                 /\ phase[p[2]] \notin {"idle", "pre"}
-----------------------------------------------------------------------------
(* One daemon that is never lost serves every hook.                           *)

AlwaysServed == Daemons # {} /\ Faults \subseteq {"esc", "resume", "git"}

\* The daemon that has the socket keeps it, the others have never served.
OneServer ==
  /\ timedOut = {}
  /\ (\E d \in Daemons : dstate[d] # "unspawned") => Claimed
  /\ \A d \in Daemons :
       /\ dstate[d] \in {"unspawned", "starting", "serving", "dead"}
       /\ dstate[d] = "serving" <=> socket = d
       /\ socket # d => open[d] = {} /\ \A c \in Cmds : Nil(inflight[d][c])
  /\ \A c \in Cmds :
       /\ stage[c] \in {"none", "dial", "wait", "redial", "rewait"}
       /\ stage[c] = "redial" => Claimed
       /\ conn[c] # NoConn => conn[c].to = socket

\* The request of its post has not been taken yet.
PostDue(c) ==
  \/ phase[c] \in {"idle", "pre", "run"}
  \/ phase[c] = "post" /\ conn[c] = NoConn
  \/ \E d \in Daemons : AskedOf(d, c, "post")

\* Every journalled pre is in the daemon's memory until its post takes it out.
Remembered ==
  \A c \in Cmds : journal[c].pre # NoSHA /\ PostDue(c) =>
    \E d \in Daemons : ~Nil(inflight[d][c])

\* There it is open until its command is over, and flagged if others have written
\* since.
MemoryRight(d, c) ==
  ~Nil(inflight[d][c]) /\ Unfinished(c) =>
    /\ c \in open[d]
    /\ Strays(c, inflight[d][c].pre) # {} => inflight[d][c].overlapped

\* A pre that is not marked yet has those others open beside it.
PreJobRight(d, c) ==
  JobOf(d, c, "pre") =>
    /\ worker[d].at = "snapped" => Strays(c, worker[d].rec.pre) \subseteq open[d] \ aged
    /\ worker[d].at = "marked" => ~Nil(inflight[d][c])

\* The record that a post took is flagged too, and for any pre left open.
PostJobRight(d, c) ==
  JobOf(d, c, "post") =>
    /\ Nil(worker[d].rec) => journal[c].pre = NoSHA
    /\ ~Nil(worker[d].rec) /\ (Strays(c, worker[d].rec.pre) # {} \/ open[d] # {}) =>
         worker[d].rec.overlapped
    /\ worker[d].post # NoSHA => worker[d].at = "snapped" /\ worker[d].post \subseteq tree

DaemonRight ==
  \A d \in Daemons, c \in Cmds :
    MemoryRight(d, c) /\ PreJobRight(d, c) /\ PostJobRight(d, c)

\* Wherever the pre of the command is by now, it is flagged there.
Flagged(c) ==
  /\ \A d \in Daemons :
       /\ ~Nil(inflight[d][c]) => inflight[d][c].overlapped
       /\ JobOf(d, c, "post") /\ ~Nil(worker[d].rec) => worker[d].rec.overlapped
  /\ journal[c].post # NoSHA => journal[c].overlapped

MetFlagged ==
  \A p \in met : journal[p[1]].pre # NoSHA /\ journal[p[2]].pre # NoSHA =>
                   Flagged(p[1]) /\ Flagged(p[2])

ServedInv ==
  /\ PostsOfTree /\ AgedOver /\ MetRan
  /\ OneServer /\ Remembered /\ DaemonRight /\ MetFlagged /\ Attribution
-----------------------------------------------------------------------------
(* No daemon at all: every hook writes directly, one at a time.               *)

NeverServed == Daemons = {}

Direct == {"locked", "paired", "snapped", "marked"}

LockHeld == \A c \in Cmds : stage[c] \in Direct => lock = c

\* A post is the last that a command journals, a pre comes with the end of its hook.
DirectOrder ==
  \A c \in Cmds :
    /\ journal[c].post # NoSHA => phase[c] = "done"
    /\ phase[c] \in {"idle", "pre"} => journal[c].pre = NoSHA

\* An open row: what the next pre flags, and is flagged for.
OpenRow(c) == journal[c].pre # NoSHA /\ journal[c].post = NoSHA

\* A row whose command may still write, or journal its post.
LiveRow(c) == journal[c].pre # NoSHA /\ phase[c] \in {"run", "post"}

\* A pre not marked yet has those who wrote since as open rows; a marked one is
\* flagged, and so is every live row beside it.
HookRight(c) ==
  /\ stage[c] = "snapped" => local[c].sha \subseteq tree
  /\ stage[c] = "snapped" /\ phase[c] = "pre" =>
       Strays(c, local[c].sha) \subseteq {e \in Cmds \ aged : OpenRow(e)}
  /\ stage[c] = "marked" =>
       /\ Strays(c, local[c].sha) # {} => local[c].overlapped
       /\ \A e \in Cmds \ {c} :
            LiveRow(e) => local[c].overlapped /\ journal[e].overlapped

\* A live row is flagged when another command with a row has written since, or has
\* a live row.
LiveRight(c) ==
  LiveRow(c) =>
    /\ Strays(c, journal[c].pre) # {} => journal[c].overlapped
    /\ \A e \in Cmds \ {c} : LiveRow(e) => journal[c].overlapped

DirectRight == \A c \in Cmds : HookRight(c) /\ LiveRight(c)

MetRowsFlagged ==
  \A p \in met : journal[p[1]].pre # NoSHA /\ journal[p[2]].pre # NoSHA =>
                   journal[p[1]].overlapped /\ journal[p[2]].overlapped

DirectInv ==
  /\ PostsOfTree /\ AgedOver /\ MetRan
  /\ LockHeld /\ DirectOrder /\ DirectRight /\ MetRowsFlagged /\ Attribution
=============================================================================
