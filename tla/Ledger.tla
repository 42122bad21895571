------------------------------- MODULE Ledger -------------------------------
(* What bashback promises the agent of each of its commands, without hooks,   *)
(* daemons, snapshots or rows: a hook is asked to record the state before a   *)
(* command, and another the state after it; each ends with a promise or       *)
(* without one, and never blocks the agent for good.  Session implements it.  *)
CONSTANT Cmds

VARIABLES agent,    \* where the agent is with each command
          record,   \* what the journal has of it: "none", a "pre", or a "whole" entry
          promised  \* the hooks that were told their part is recorded

ledgerVars == <<agent, record, promised>>

\* What a hook's promise is about.
Holds(r, op) == IF op = "pre" THEN r # "none" ELSE r = "whole"

LedgerInit ==
  /\ agent = [c \in Cmds |-> "idle"]
  /\ record = [c \in Cmds |-> "none"]
  /\ promised = {}

\* The agent calls a hook.
Asks(c) ==
  /\ \/ agent[c] = "idle" /\ agent' = [agent EXCEPT ![c] = "pre"]
     \/ agent[c] = "run" /\ agent' = [agent EXCEPT ![c] = "post"]
  /\ UNCHANGED <<record, promised>>

\* The user interrupts the command, which then has no post hook.
Aborts(c) ==
  /\ agent[c] = "run"
  /\ agent' = [agent EXCEPT ![c] = "aborted"]
  /\ UNCHANGED <<record, promised>>

\* A record grows by one part at a time.  What no hook was promised may be spoilt by
\* a late failure, but a pre is never lost.
Changes(c) ==
  /\ \/ record[c] = "none" /\ record' = [record EXCEPT ![c] = "pre"]
     \/ record[c] = "pre" /\ record' = [record EXCEPT ![c] = "whole"]
     \/ /\ record[c] = "whole" /\ <<c, "post">> \notin promised
        /\ record' = [record EXCEPT ![c] = "pre"]

\* The journal is written beside the agent's commands, also for one that is over ...
Writes(c) == Changes(c) /\ UNCHANGED <<agent, promised>>

Returns(c) ==
  /\ agent[c] \in {"pre", "post"}
  /\ agent' = [agent EXCEPT ![c] = IF @ = "pre" THEN "run" ELSE "done"]

\* ... or by the hook as it ends.  A hook promises what the record then holds, ...
Promises(c) ==
  /\ Returns(c)
  /\ Changes(c) \/ UNCHANGED record
  /\ Holds(record'[c], agent[c])
  /\ promised' = promised \cup {<<c, agent[c]>>}

\* ... or gives up, and the agent goes on all the same.
GivesUp(c) ==
  /\ Returns(c)
  /\ Changes(c) \/ UNCHANGED record
  /\ UNCHANGED promised

LedgerNext ==
  \E c \in Cmds : Asks(c) \/ Aborts(c) \/ Writes(c) \/ Promises(c) \/ GivesUp(c)

LedgerSpec == LedgerInit /\ [][LedgerNext]_ledgerVars
=============================================================================
