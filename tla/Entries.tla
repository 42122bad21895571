------------------------------ MODULE Entries ------------------------------
(* Journal entries (internal/journal/journal.go).  An entry is a record;      *)
(* every field has a zero value, collected in a zero record of the same       *)
(* fields (Go's zero Entry).                                                  *)
EXTENDS Integers

\* Mutant of Later: the first half-row wins.
FirstWins(zero, dst, src) == IF dst = zero THEN src ELSE dst

\* A field of two half-rows: the later one's, unless it is zero.
Later(zero, dst, src) == IF src = zero THEN dst ELSE src

\* mergeEntry: src, written later, is folded into dst.  "overlapped" has the
\* zero FALSE, so for it this is the code's OR.
MergeEntry(zero, dst, src) ==
  [f \in DOMAIN zero |-> Later(zero[f], dst[f], src[f])]
-----------------------------------------------------------------------------
(* What an entry tells of the time its command took (overlap.go).             *)

\* Mutant of Start: the duration is not subtracted.
StartAtPost(e) == e.ts

Start(e) == e.ts - e.dur

\* Mutant of Intersect: half of the test.
IntersectOneSided(e, f) == Start(e) < f.ts

\* Strict: exactly touching intervals do not count.
Intersect(e, f) == Start(e) < f.ts /\ Start(f) < e.ts
=============================================================================
