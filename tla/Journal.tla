------------------------------ MODULE Journal ------------------------------
(* The journal's read side (internal/journal/journal.go): an append-only      *)
(* ledger of half-rows, folded by key when it is read.                        *)
EXTENDS Entries, Naturals, Sequences, SequencesExt

\* Mutant of FoldRow: only neighbouring rows of a key are merged.
FoldNeighbour(zero, out, row) ==
  IF out = <<>> \/ row.key = zero.key \/ Last(out).key # row.key
  THEN Append(out, row)
  ELSE Append(Front(out), MergeEntry(zero, Last(out), row))

\* ReadMerged: rows of one key become one entry at the place the key was first
\* seen; a row with the empty key (zero.key) never merges with another.
FoldRow(zero, out, row) ==
  LET same == {i \in DOMAIN out : out[i].key = row.key}
  IN  IF row.key = zero.key \/ same = {}
      THEN Append(out, row)
      ELSE LET pos == CHOOSE i \in same : TRUE
           IN  [out EXCEPT ![pos] = MergeEntry(zero, @, row)]

ReadMerged(zero, rows) ==
  LET out[n \in 0..Len(rows)] ==
        IF n = 0 THEN <<>> ELSE FoldRow(zero, out[n - 1], rows[n])
  IN  out[Len(rows)]

\* The first entry of a key.
FirstOf(zero, entries, key) ==
  LET hits == {i \in DOMAIN entries : entries[i].key = key}
  IN  IF hits = {} THEN zero ELSE entries[CHOOSE i \in hits : \A j \in hits : i <= j]

\* Mutant of PreSHAFor: the first row of the key is taken.
PreSHAForFirst(zero, rows, key) == FirstOf(zero, rows, key).pre

\* PreSHAFor: the pre snapshot recorded for a key, or the zero sha.
PreSHAFor(zero, rows, key) == FirstOf(zero, ReadMerged(zero, rows), key).pre
=============================================================================
