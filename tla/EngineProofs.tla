---------------------------- MODULE EngineProofs ----------------------------
(* Engine's snapshots, for any files, patterns and writers: what an answered  *)
(* one holds, what is left out of it, and what alone makes one fail.  Between *)
(* a writer's steps the others stage files in the same index, append lines to *)
(* info/exclude and set HEAD; each of that only brings them nearer to what    *)
(* stands in the work-tree, for the files nobody has touched.                 *)
EXTENDS Engine, FiniteSetTheorems, FunctionTheorems, SequenceTheorems, WellFoundedInduction,
        TLAPS

Lines == Seq(Files \cup {Sparse})

\* No line hides f.
Plain(q, f) == ~Lined(q, f) /\ Visible(q, f)

\* Of the files nobody has touched since w began: what is to be snapshotted is in the
\* tree t, and what is in it stands so.
Right(w, t) ==
  \A f \in Files \ snaps[w].touched :
    /\ f \notin Ignored /\ Plain(exclude, f) => t[f] = work[f]
    /\ t[f] # "absent" => t[f] = work[f]

\* And the forced ones, too.
ForcedIn(w, t) == \A f \in Forced \ snaps[w].touched : t[f] = work[f]

\* Who compares with HEAD, or sets it anew, found one.
HasHead(w) == snaps[w].at \in {"probe", "head", "same", "ref"} => head # NoHead

\* After the scan no new file over the size cap is without a line, unless it lay in a new
\* directory.
Scanned(w) ==
  SnapAt(w, "add") =>
    \A f \in Files \ (snaps[w].touched \cup snaps[w].unlisted) :
      work[f] = "big" /\ index[f] = "absent" /\ f \notin Ignored => ~Plain(exclude, f)

\* What is staged, committed or found in HEAD is right.
Staged(w) ==
  /\ SnapAt(w, "force")  => Right(w, index)
  /\ SnapAt(w, "commit") => Right(w, index) /\ ForcedIn(w, index)
  /\ SnapAt(w, "ref")    => /\ snaps[w].sha \in IndexTrees
                        /\ Right(w, snaps[w].sha) /\ ForcedIn(w, snaps[w].sha)
  /\ SnapAt(w, "same") /\ ~snaps[w].moved => Right(w, head) /\ ForcedIn(w, head)
  /\ SnapAt(w, "head") /\ ~snaps[w].moved => Right(w, head)

\* Who has staged its files removed the stale lock, or there was none.
Unlocked(w) == SnapAt(w, "force") => lock # "stale"

WriterOK(w) == HasHead(w) /\ Scanned(w) /\ Staged(w)

EngineInv ==
  /\ EngineTypeOK
  /\ \A w \in Writers : WriterOK(w) /\ Unlocked(w)
-----------------------------------------------------------------------------
\* A sequence of a finite set's elements has each of them once.
LEMMA SetToSeqIs ==
  ASSUME NEW S, IsFiniteSet(S)
  PROVE  SetToSeq(S) \in Seq(S) /\ IsInjective(SetToSeq(S)) /\ Range(SetToSeq(S)) = S
<1>. DEFINE n == Cardinality(S)
            s == SetToSeq(S)
<1>1. n \in Nat /\ Bijection(1..n, S) # {}
  BY FS_CardinalityType, Fun_ExistsBij
<1>2. \E f \in [1..n -> S] : IsInjective(f)
  BY <1>1, Fun_BijectionProperties DEF Injection
<1>3. s \in [1..n -> S] /\ IsInjective(s)
  BY <1>2 DEF SetToSeq
<1>4. s \in Injection(1..n, S)  BY <1>3 DEF Injection
<1>5. Cardinality(1..n) = n  BY <1>1, FS_Interval
<1>6. s \in Surjection(1..n, S)  BY <1>4, <1>5, FS_Injection
<1>7. Range(s) = S  BY <1>3, <1>6 DEF Surjection, Range
<1>8. QED  BY <1>1, <1>3, <1>7

\* Lines of which none is there yet are appended: all are there, once.
LEMMA AppendedLines ==
  ASSUME NEW L, NEW q \in Seq(L), IsInjective(q), NEW s \in Seq(L), IsInjective(s),
         Range(q) \cap Range(s) = {}
  PROVE  /\ q \o s \in Seq(L) /\ IsInjective(q \o s)
         /\ Range(q \o s) = Range(q) \cup Range(s)
<1>. DEFINE r == q \o s
<1>1. /\ r \in Seq(L) /\ Len(r) = Len(q) + Len(s)
      /\ \A i \in 1..(Len(q) + Len(s)) : r[i] = IF i <= Len(q) THEN q[i] ELSE s[i - Len(q)]
      /\ DOMAIN r = 1..(Len(q) + Len(s))
  BY ConcatProperties, LenProperties
<1>2. DOMAIN q = 1..Len(q) /\ DOMAIN s = 1..Len(s) /\ Len(q) \in Nat /\ Len(s) \in Nat
  BY LenProperties
<1>. HIDE DEF r
<1>3. ASSUME NEW a \in DOMAIN r, NEW b \in DOMAIN r, r[a] = r[b] PROVE a = b
  <2>1. CASE a <= Len(q) /\ b <= Len(q)
    <3>1. a \in DOMAIN q /\ b \in DOMAIN q /\ q[a] = q[b]  BY <1>1, <1>2, <1>3, <2>1
    <3>2. QED  BY <3>1 DEF IsInjective
  <2>2. CASE a > Len(q) /\ b > Len(q)
    <3>1. a - Len(q) \in DOMAIN s /\ b - Len(q) \in DOMAIN s /\ s[a - Len(q)] = s[b - Len(q)]
      BY <1>1, <1>2, <1>3, <2>2
    <3>2. a - Len(q) = b - Len(q)  BY <3>1 DEF IsInjective
    <3>3. QED  BY <1>1, <1>2, <3>2
  <2>3. CASE a <= Len(q) /\ b > Len(q)
    <3>1. a \in DOMAIN q /\ b - Len(q) \in DOMAIN s /\ q[a] = s[b - Len(q)]
      BY <1>1, <1>2, <1>3, <2>3
    <3>2. QED  BY <3>1 DEF Range
  <2>4. CASE a > Len(q) /\ b <= Len(q)
    <3>1. b \in DOMAIN q /\ a - Len(q) \in DOMAIN s /\ q[b] = s[a - Len(q)]
      BY <1>1, <1>2, <1>3, <2>4
    <3>2. QED  BY <3>1 DEF Range
  <2>5. QED  BY <1>1, <1>2, <2>1, <2>2, <2>3, <2>4
<1>4. ASSUME NEW x PROVE x \in Range(r) <=> x \in Range(q) \/ x \in Range(s)
  <2>1. ASSUME NEW a \in DOMAIN r, x = r[a] PROVE x \in Range(q) \/ x \in Range(s)
    <3>1. (a \in DOMAIN q /\ x = q[a]) \/ (a - Len(q) \in DOMAIN s /\ x = s[a - Len(q)])
      BY <1>1, <1>2, <2>1
    <3>2. QED  BY <3>1 DEF Range
  <2>2. ASSUME NEW a \in DOMAIN q, x = q[a] PROVE x \in Range(r)
    <3>1. a \in DOMAIN r /\ r[a] = x  BY <1>1, <1>2, <2>2
    <3>2. QED  BY <3>1 DEF Range
  <2>3. ASSUME NEW a \in DOMAIN s, x = s[a] PROVE x \in Range(r)
    <3>1. a + Len(q) \in DOMAIN r /\ (a + Len(q)) - Len(q) = a /\ ~(a + Len(q) <= Len(q))
      BY <1>1, <1>2
    <3>2. r[a + Len(q)] = x  BY <1>1, <2>3, <3>1
    <3>3. QED  BY <3>1, <3>2 DEF Range
  <2>4. QED  BY <2>1, <2>2, <2>3 DEF Range
<1>5. IsInjective(r)  BY <1>3 DEF IsInjective
<1>6. Range(r) = Range(q) \cup Range(s)  BY <1>4
<1>7. QED  BY <1>1, <1>5, <1>6 DEF r

\* excludeOversized appends each line that is not there yet.
LEMMA WithLinesIs ==
  ASSUME NEW q \in Lines, IsInjective(q), NEW lines \in SUBSET Files
  PROVE  /\ WithLines(q, lines) \in Lines /\ IsInjective(WithLines(q, lines))
         /\ Range(WithLines(q, lines)) = Range(q) \cup lines
<1>. DEFINE new == lines \ Range(q)
            s == SetToSeq(new)
<1>1. IsFiniteSet(new)  BY FS_Subset, EngineAssumption
<1>. HIDE DEF new
<1>2. s \in Seq(new) /\ IsInjective(s) /\ Range(s) = new  BY <1>1, SetToSeqIs
<1>3. new \subseteq Files \cup {Sparse} /\ Range(q) \cap new = {}  BY DEF new
<1>. HIDE DEF s
<1>4. s \in Lines  BY <1>2, <1>3, SeqMonotonic DEF Lines
<1>5. /\ q \o s \in Lines /\ IsInjective(q \o s)
      /\ Range(q \o s) = Range(q) \cup Range(s)
  BY <1>2, <1>3, <1>4, AppendedLines DEF Lines
<1>6. Range(q) \cup new = Range(q) \cup lines  BY DEF new
<1>7. QED  BY <1>2, <1>5, <1>6 DEF WithLines, s, new

\* A line is appended, and no other is changed.
LEMMA WithLineIs ==
  ASSUME NEW q \in Lines, IsInjective(q), NEW line \in Files \cup {Sparse}
  PROVE  /\ WithLine(q, line) \in Lines /\ IsInjective(WithLine(q, line))
         /\ Range(WithLine(q, line)) = Range(q) \cup {line}
         /\ line \notin Range(q) =>
              /\ DOMAIN WithLine(q, line) = DOMAIN q \cup {Len(q) + 1}
              /\ Len(q) \in Nat /\ DOMAIN q = 1..Len(q)
              /\ WithLine(q, line)[Len(q) + 1] = line
              /\ \A k \in DOMAIN q : WithLine(q, line)[k] = q[k]
<1>1. CASE line \in Range(q)  BY <1>1 DEF WithLine
<1>2. CASE line \notin Range(q)
  <2>. DEFINE r == Append(q, line)
  <2>1. /\ r \in Lines /\ DOMAIN r = 1..(Len(q) + 1) /\ r[Len(q) + 1] = line
        /\ DOMAIN q = 1..Len(q) /\ Len(q) \in Nat
        /\ \A k \in 1..Len(q) : r[k] = q[k]
    BY DEF Lines
  <2>2. r = WithLine(q, line)  BY <1>2 DEF WithLine
  <2>. HIDE DEF r
  <2>3. ASSUME NEW a \in DOMAIN r, NEW b \in DOMAIN r, r[a] = r[b] PROVE a = b
    <3>1. \A k \in DOMAIN q : q[k] # line  BY <1>2 DEF Range
    <3>2. QED  BY <2>1, <2>3, <3>1 DEF IsInjective
  <2>4. ASSUME NEW x PROVE x \in Range(r) <=> x \in Range(q) \/ x = line
    BY <2>1 DEF Range
  <2>5. Range(r) = Range(q) \cup {line}  BY <2>4
  <2>6. IsInjective(r)  BY <2>3 DEF IsInjective
  <2>7. DOMAIN r = DOMAIN q \cup {Len(q) + 1}  BY <2>1
  <2>8. QED  BY <2>1, <2>2, <2>5, <2>6, <2>7
<1>3. QED  BY <1>1, <1>2
-----------------------------------------------------------------------------
\* A set of numbers with a bound has a last.
LEMMA HasLast ==
  ASSUME NEW n \in Nat, NEW M \in SUBSET (1..n), M # {}
  PROVE  \E k \in M : \A l \in M : l <= k
<1>. DEFINE Back == {n - k : k \in M}
<1>1. Back \in SUBSET Nat /\ Back # {}
  <2>1. \A k \in M : k \in 1..n /\ n - k \in Nat  OBVIOUS
  <2>2. QED  BY <2>1
<1>. HIDE DEF Back
<1>2. PICK b \in Back : \A c \in Back : <<c, b>> \notin OpToRel(<, Nat)
  <2>1. IsWellFoundedOn(OpToRel(<, Nat), Nat)  BY NatLessThanWellFounded
  <2>. DEFINE Less == OpToRel(<, Nat)
  <2>. HIDE DEF Less
  <2>2. IsWellFoundedOn(Less, Nat)  BY <2>1 DEF Less
  <2>3. \E b \in Back : \A c \in Back : <<c, b>> \notin Less  BY <1>1, <2>2, WFMin
  <2>4. QED  BY <2>3 DEF Less
<1>3. \A c \in Back : ~(c < b)  BY <1>1, <1>2 DEF OpToRel
<1>4. QED  BY <1>3 DEF Back

\* Whether a file is plain depends on which lines there are, not on their order.
LEMMA PlainIs ==
  ASSUME NEW q \in Lines, IsInjective(q), NEW f \in Files
  PROVE  Plain(q, f) <=> ~Lined(q, f) /\ (Sparse \notin Range(q) \/ f \in Inside)
<1>1. CASE Lined(q, f)  BY <1>1 DEF Plain
<1>2. ASSUME ~Lined(q, f), NEW k \in Matching(q, f) PROVE q[k] = Sparse
  BY <1>2 DEF Matching, Lined, Range
<1>3. CASE ~Lined(q, f) /\ Sparse \notin Range(q)
  <2>1. Matching(q, f) = {}  BY <1>2, <1>3 DEF Matching, Range
  <2>2. QED  BY <1>3, <2>1 DEF Plain, Visible
<1>4. CASE ~Lined(q, f) /\ Sparse \in Range(q)
  <2>1. PICK k \in DOMAIN q : q[k] = Sparse  BY <1>4 DEF Range
  <2>2. \A l \in Matching(q, f) : q[l] = Sparse  BY <1>2, <1>4
  <2>3. \A l \in Matching(q, f) : l = k
    BY <2>1, <2>2 DEF IsInjective, Matching
  <2>4. k \in Matching(q, f) /\ k \in Int
    BY <2>1 DEF Matching, Lines
  <2>5. (CHOOSE l \in Matching(q, f) : \A m \in Matching(q, f) : m <= l) = k
    BY <2>3, <2>4
  <2>6. QED  BY <1>4, <2>1, <2>4, <2>5 DEF Plain, Visible
<1>5. QED  BY <1>1, <1>3, <1>4

\* More lines make no file plain.
LEMMA PlainShrinks ==
  ASSUME NEW q \in Lines, IsInjective(q), NEW r \in Lines, IsInjective(r),
         Range(q) \subseteq Range(r), NEW f \in Files, Plain(r, f)
  PROVE  Plain(q, f)
<1>1. Lined(q, f) => Lined(r, f)  BY DEF Lined
<1>2. QED  BY <1>1, PlainIs

\* A new line hides what it matches, and makes no file visible.
LEMMA LineHides ==
  ASSUME NEW q \in Lines, IsInjective(q), NEW g \in Files
  PROVE  \A f \in Files :
           /\ Visible(WithLine(q, g), f) => Visible(q, f)
           /\ g \notin Range(q) /\ f \in Matched[g] => ~Visible(WithLine(q, g), f)
<1>. DEFINE r == WithLine(q, g)
            Newest(M) == CHOOSE k \in M : \A l \in M : l <= k
<1>1. CASE g \in Range(q)  BY <1>1 DEF WithLine
<1>2. CASE g \notin Range(q)
  <2>1. /\ DOMAIN r = DOMAIN q \cup {Len(q) + 1} /\ r[Len(q) + 1] = g
        /\ Len(q) \in Nat /\ DOMAIN q = 1..Len(q)
        /\ \A k \in DOMAIN q : r[k] = q[k]
    <3>1. q \in Lines /\ IsInjective(q) /\ g \in Files \cup {Sparse}  OBVIOUS
    <3>. HIDE DEF r
    <3>2. r = WithLine(q, g)  BY DEF r
    <3>3. QED  BY ONLY <1>2, <3>1, <3>2, WithLineIs
  <2>2. g # Sparse  BY EngineAssumption
  <2>. HIDE DEF r
  <2>3. ASSUME NEW f \in Files, f \notin Matched[g] PROVE Visible(r, f) <=> Visible(q, f)
    <3>1. \A k : k \in Matching(r, f) <=> k \in Matching(q, f)
      BY <2>1, <2>2, <2>3 DEF Matching
    <3>2. Matching(r, f) = Matching(q, f)  BY <3>1
    <3>3. CASE Matching(q, f) = {}  BY <3>2, <3>3 DEF Visible
    <3>4. CASE Matching(q, f) # {}
      <4>1. \A k \in Matching(q, f) : r[k] = q[k]  BY <2>1 DEF Matching
      <4>2. PICK k \in Matching(q, f) : \A l \in Matching(q, f) : l <= k
        <5>1. Matching(q, f) \subseteq 1..Len(q)  BY <2>1 DEF Matching
        <5>2. QED  BY <2>1, <3>4, <5>1, HasLast
      <4>3. Newest(Matching(q, f)) \in Matching(q, f)  BY <4>2
      <4>4. r[Newest(Matching(q, f))] = q[Newest(Matching(q, f))]  BY <4>1, <4>3
      <4>5. QED  BY <3>2, <4>4 DEF Visible
    <3>5. QED  BY <3>3, <3>4
  <2>4. ASSUME NEW f \in Files, f \in Matched[g] PROVE ~Visible(r, f)
    <3>1. Len(q) + 1 \in Matching(r, f) /\ \A l \in Matching(r, f) : l <= Len(q) + 1
      BY <2>1, <2>4 DEF Matching
    <3>2. Newest(Matching(r, f)) = Len(q) + 1
      <4>1. Matching(r, f) \subseteq Int  BY <2>1 DEF Matching
      <4>2. \A k \in Matching(r, f) : (\A l \in Matching(r, f) : l <= k) => k = Len(q) + 1
        BY <2>1, <3>1, <4>1
      <4>3. QED  BY <3>1, <4>2
    <3>3. QED  BY <2>1, <2>2, <3>1, <3>2 DEF Visible
  <2>5. QED  BY <2>3, <2>4 DEF r
<1>3. QED  BY <1>1, <1>2
-----------------------------------------------------------------------------
\* A snapshot by its fields.
LEMMA SnapFields ==
  /\ NoSnap \in Snaps /\ NoSnap.at = "idle" /\ NoSnap.touched = {} /\ ~NoSnap.moved
  /\ \A s \in Snaps :
       /\ s.at \in Steps /\ s.sha \in IndexTrees \cup {NoHead}
       /\ s.touched \in SUBSET Files /\ s.unlisted \in SUBSET Files /\ s.moved \in BOOLEAN
  /\ \A s \in Snaps, at \in Steps :
       /\ [s EXCEPT !.at = at] \in Snaps
       /\ [s EXCEPT !.at = at].at = at /\ [s EXCEPT !.at = at].sha = s.sha
       /\ [s EXCEPT !.at = at].touched = s.touched /\ [s EXCEPT !.at = at].moved = s.moved
       /\ [s EXCEPT !.at = at].unlisted = s.unlisted
<1>1. NoSnap \in Snaps /\ NoSnap.at = "idle" /\ NoSnap.touched = {} /\ ~NoSnap.moved
  BY DEF NoSnap, Snaps, Steps
<1>2. ASSUME NEW s \in Snaps
      PROVE  /\ s.at \in Steps /\ s.sha \in IndexTrees \cup {NoHead}
             /\ s.touched \in SUBSET Files /\ s.unlisted \in SUBSET Files
             /\ s.moved \in BOOLEAN
  BY DEF Snaps
<1>3. ASSUME NEW s \in Snaps, NEW at \in Steps
      PROVE  /\ [s EXCEPT !.at = at] \in Snaps
             /\ [s EXCEPT !.at = at].at = at /\ [s EXCEPT !.at = at].sha = s.sha
             /\ [s EXCEPT !.at = at].touched = s.touched
             /\ [s EXCEPT !.at = at].moved = s.moved
             /\ [s EXCEPT !.at = at].unlisted = s.unlisted
  BY DEF Snaps
<1>4. QED  BY <1>1, <1>2, <1>3

\* The two ends of a snapshot.
LEMMA EndFields ==
  ASSUME NEW sha \in IndexTrees \cup {NoHead}
  PROVE  /\ [NoSnap EXCEPT !.at = "failed"] \in Snaps
         /\ [NoSnap EXCEPT !.at = "failed"].at = "failed"
         /\ [NoSnap EXCEPT !.at = "answered", !.sha = sha] \in Snaps
         /\ [NoSnap EXCEPT !.at = "answered", !.sha = sha].at = "answered"
         /\ [NoSnap EXCEPT !.at = "answered", !.sha = sha].sha = sha
  BY DEF NoSnap, Snaps, Steps

\* A writer that does nothing, or is only about to look, promises nothing.
LEMMA BlankIsOK ==
  ASSUME NEW w \in Writers, snaps[w].at \in {"idle", "answered", "failed", "scan"}
  PROVE  WriterOK(w) /\ Unlocked(w)
  BY DEF WriterOK, HasHead, Scanned, Staged, Unlocked, SnapAt

LEMMA BlankStays ==
  ASSUME NEW w \in Writers, snaps'[w].at \in {"idle", "answered", "failed", "scan"}
  PROVE  WriterOK(w)' /\ Unlocked(w)'
  BY DEF WriterOK, HasHead, Scanned, Staged, Unlocked, SnapAt

\* What a step of another leaves right of an untouched file: its work-tree content, lines
\* that grow in number, and an index that at most gets nearer to the work-tree.
LEMMA RightStays ==
  ASSUME NEW w \in Writers, NEW t, NEW u, Right(w, t),
         exclude \in Lines, IsInjective(exclude), exclude' \in Lines, IsInjective(exclude)',
         Range(exclude) \subseteq Range(exclude'),
         snaps[w].touched \subseteq snaps'[w].touched,
         \A f \in Files \ snaps'[w].touched :
           work'[f] = work[f] /\ (u[f] = t[f] \/ u[f] = work[f])
  PROVE  \A f \in Files \ snaps'[w].touched :
           /\ f \notin Ignored /\ Plain(exclude', f) => u[f] = work'[f]
           /\ u[f] # "absent" => u[f] = work'[f]
<1>1. ASSUME NEW f \in Files \ snaps'[w].touched
      PROVE  /\ f \notin Ignored /\ Plain(exclude', f) => u[f] = work'[f]
             /\ u[f] # "absent" => u[f] = work'[f]
  <2>1. f \in Files \ snaps[w].touched /\ work'[f] = work[f]
        /\ (u[f] = t[f] \/ u[f] = work[f])
    BY <1>1
  <2>2. Plain(exclude', f) => Plain(exclude, f)
    BY <2>1, PlainShrinks DEF Lines
  <2>3. QED  BY <2>1, <2>2 DEF Right
<1>2. QED  BY <1>1

\* The steps of the others.
LEMMA OthersKeep ==
  ASSUME EngineTypeOK, EngineTypeOK', NEW w \in Writers, WriterOK(w),
         snaps'[w].at = snaps[w].at, snaps'[w].sha = snaps[w].sha,
         snaps[w].touched \subseteq snaps'[w].touched,
         snaps'[w].unlisted = snaps[w].unlisted,
         snaps[w].moved => snaps'[w].moved,
         Range(exclude) \subseteq Range(exclude'),
         \A f \in Files \ snaps'[w].touched :
           work'[f] = work[f] /\ (index'[f] = index[f] \/ index'[f] = work[f]),
         \/ head' = head
         \/ head = NoHead
         \/ head' \in IndexTrees /\ (snaps[w].at \in {"head", "same"} => snaps'[w].moved)
  PROVE  WriterOK(w)'
<1>. DEFINE sha == snaps[w].sha
            T == Files \ snaps'[w].touched
<1>1. /\ exclude \in Lines /\ IsInjective(exclude) /\ exclude' \in Lines /\ IsInjective(exclude)'
      /\ \A f \in T : f \in Files \ snaps[w].touched
  BY DEF EngineTypeOK, Lines
<1>2. ASSUME NEW t, NEW u, Right(w, t), \A f \in T : u[f] = t[f] \/ u[f] = work[f]
      PROVE  \A f \in T : /\ f \notin Ignored /\ Plain(exclude', f) => u[f] = work'[f]
                          /\ u[f] # "absent" => u[f] = work'[f]
  BY <1>1, <1>2, RightStays
<1>3. ASSUME NEW t, NEW u, ForcedIn(w, t), \A f \in T : u[f] = t[f] \/ u[f] = work[f]
      PROVE  \A f \in Forced \ snaps'[w].touched : f \in Files => u[f] = work'[f]
  BY <1>1, <1>3 DEF ForcedIn
<1>4. Right(w, index) => Right(w, index)'  BY <1>2 DEF Right
<1>5. Right(w, sha) => Right(w, sha)'  BY <1>2 DEF Right
<1>6. Right(w, head) /\ head' = head => Right(w, head)'  BY <1>2 DEF Right
<1>7. /\ ForcedIn(w, index) => ForcedIn(w, index)'
      /\ ForcedIn(w, sha) => ForcedIn(w, sha)'
      /\ ForcedIn(w, head) /\ head' = head => ForcedIn(w, head)'
  BY <1>3, EngineAssumption DEF ForcedIn
<1>8. HasHead(w)'
  BY EngineAssumption DEF WriterOK, HasHead, EngineTypeOK
<1>9. Scanned(w)'
  <2>1. ASSUME SnapAt(w, "add")', NEW f \in T \ snaps'[w].unlisted,
               work'[f] = "big", index'[f] = "absent", f \notin Ignored, Plain(exclude, f)'
        PROVE  FALSE
    <3>1. /\ f \in Files \ (snaps[w].touched \cup snaps[w].unlisted)
          /\ work[f] = "big" /\ index[f] = "absent" /\ SnapAt(w, "add")
      BY <1>1, <2>1 DEF SnapAt
    <3>2. Plain(exclude, f)  BY <1>1, <2>1, PlainShrinks DEF Plain, Lined
    <3>3. QED  BY <2>1, <3>1, <3>2 DEF WriterOK, Scanned
  <2>2. QED  BY <2>1 DEF Scanned
<1>10. Staged(w)'
  <2>1. Staged(w) /\ HasHead(w) /\ snaps[w].moved \in BOOLEAN /\ snaps'[w].moved \in BOOLEAN
    BY SnapFields DEF WriterOK, EngineTypeOK
  <2>2. snaps[w].at \in {"head", "same"} /\ ~snaps'[w].moved => head' = head /\ ~snaps[w].moved
    BY <2>1 DEF HasHead
  <2>3. QED  BY <1>4, <1>5, <1>6, <1>7, <2>1, <2>2 DEF Staged, SnapAt
<1>11. QED  BY <1>8, <1>9, <1>10 DEF WriterOK

\* A step of one writer, that leaves the work-tree alone.
LEMMA StepKeeps ==
  ASSUME EngineInv, EngineTypeOK', NEW w \in Writers,
         WriterOK(w)', Unlocked(w)', work' = work,
         Range(exclude) \subseteq Range(exclude'),
         \A f \in Files : index'[f] = index[f] \/ index'[f] = work[f],
         lock' = "stale" => lock = "stale",
         \A v \in Writers \ {w} :
           /\ snaps'[v].at = snaps[v].at /\ snaps'[v].sha = snaps[v].sha
           /\ snaps[v].touched \subseteq snaps'[v].touched
           /\ snaps'[v].unlisted = snaps[v].unlisted
           /\ snaps[v].moved => snaps'[v].moved
           /\ \/ head' = head
              \/ head = NoHead
              \/ head' \in IndexTrees /\ (snaps[v].at \in {"head", "same"} => snaps'[v].moved)
  PROVE  EngineInv'
<1>1. ASSUME NEW v \in Writers \ {w} PROVE WriterOK(v)' /\ Unlocked(v)'
  <2>1. WriterOK(v)'
    <3>1. EngineTypeOK /\ WriterOK(v)  BY DEF EngineInv
    <3>2. QED  BY <3>1, OthersKeep
  <2>2. Unlocked(v)'  BY DEF EngineInv, Unlocked, SnapAt
  <2>3. QED  BY <2>1, <2>2
<1>2. QED  BY <1>1 DEF EngineInv

\* The same, when the other writers' records stay as they are.
LEMMA OwnStepKeeps ==
  ASSUME EngineInv, EngineTypeOK', NEW w \in Writers,
         WriterOK(w)', Unlocked(w)', work' = work,
         Range(exclude) \subseteq Range(exclude'),
         \A f \in Files : index'[f] = index[f] \/ index'[f] = work[f],
         lock' = "stale" => lock = "stale",
         \A v \in Writers \ {w} : snaps'[v] = snaps[v],
         head' = head \/ head = NoHead
  PROVE  EngineInv'
  BY StepKeeps

\* One writer's record is set, and all others stay.
LEMMA SetSnap ==
  ASSUME snaps \in [Writers -> Snaps], NEW w \in Writers, NEW s \in Snaps,
         snaps' = [snaps EXCEPT ![w] = s]
  PROVE  /\ snaps' \in [Writers -> Snaps] /\ snaps'[w] = s
         /\ \A v \in Writers \ {w} : snaps'[v] = snaps[v]
  OBVIOUS

\* A step to another stage.
LEMMA MovesTo ==
  ASSUME EngineTypeOK, NEW w \in Writers, NEW at \in Steps, SnapMoves(w, at)
  PROVE  /\ snaps' \in [Writers -> Snaps] /\ snaps'[w].at = at
         /\ snaps'[w].sha = snaps[w].sha /\ snaps'[w].touched = snaps[w].touched
         /\ snaps'[w].moved = snaps[w].moved /\ snaps'[w].unlisted = snaps[w].unlisted
         /\ \A v \in Writers \ {w} : snaps'[v] = snaps[v]
<1>. DEFINE s == [snaps[w] EXCEPT !.at = at]
<1>1. snaps \in [Writers -> Snaps] /\ snaps[w] \in Snaps  BY DEF EngineTypeOK
<1>2. /\ s \in Snaps /\ s.at = at /\ s.sha = snaps[w].sha /\ s.touched = snaps[w].touched
      /\ s.moved = snaps[w].moved /\ s.unlisted = snaps[w].unlisted
  BY <1>1, SnapFields
<1>3. snaps' = [snaps EXCEPT ![w] = s]  BY <1>1 DEF SnapMoves
<1>. HIDE DEF s
<1>4. /\ snaps' \in [Writers -> Snaps] /\ snaps'[w] = s
      /\ \A v \in Writers \ {w} : snaps'[v] = snaps[v]
  BY <1>1, <1>2, <1>3, SetSnap
<1>5. QED  BY <1>2, <1>4

\* A failure.
LEMMA FailsTo ==
  ASSUME EngineTypeOK, NEW w \in Writers, Fail(w)
  PROVE  /\ snaps' \in [Writers -> Snaps] /\ snaps'[w].at = "failed"
         /\ \A v \in Writers \ {w} : snaps'[v] = snaps[v]
<1>. DEFINE s == [NoSnap EXCEPT !.at = "failed"]
<1>1. s \in Snaps /\ s.at = "failed"  BY EndFields
<1>2. snaps \in [Writers -> Snaps] /\ snaps' = [snaps EXCEPT ![w] = s]
  BY DEF EngineTypeOK, Fail
<1>. HIDE DEF s
<1>3. QED  BY <1>1, <1>2, SetSnap

\* An answer.
LEMMA AnswersTo ==
  ASSUME EngineTypeOK, NEW w \in Writers, NEW sha \in IndexTrees \cup {NoHead}, Answer(w, sha)
  PROVE  /\ snaps' \in [Writers -> Snaps] /\ snaps'[w].at = "answered" /\ snaps'[w].sha = sha
         /\ \A v \in Writers \ {w} : snaps'[v] = snaps[v]
<1>. DEFINE s == [NoSnap EXCEPT !.at = "answered", !.sha = sha]
<1>1. s \in Snaps /\ s.at = "answered" /\ s.sha = sha  BY EndFields
<1>2. snaps \in [Writers -> Snaps] /\ snaps' = [snaps EXCEPT ![w] = s]
  BY DEF EngineTypeOK, Answer
<1>. HIDE DEF s
<1>3. QED  BY <1>1, <1>2, SetSnap

\* The records of the snapshots under way.
LEMMA CurrentIs ==
  ASSUME EngineTypeOK
  PROVE  /\ Current \in [Writers -> Snaps]
         /\ \A v \in Writers : Current[v] = snaps[v] \/ (~Busy(v) /\ Current[v] = NoSnap)
  BY SnapFields DEF EngineTypeOK, Current

\* Who was not busy and is forgotten, or goes on, is as before, if nothing else changes.
LEMMA BeginsKeeps ==
  ASSUME EngineInv, NEW w \in Writers, NEW pre \in BOOLEAN, SnapBegins(w, pre)
  PROVE  EngineInv'
<1>. DEFINE at == IF pre /\ head # NoHead THEN "probe" ELSE "scan"
            s  == [NoSnap EXCEPT !.at = at]
<1>1. EngineTypeOK  BY DEF EngineInv
<1>2. /\ taken < MaxSnaps /\ taken' = taken + 1 /\ snaps' = [Current EXCEPT ![w] = s]
      /\ exclude' = IF protect /\ w \in Direct THEN WithLine(exclude, Sparse) ELSE exclude
      /\ UNCHANGED <<work, index, head, lock, protect, writes>>
  BY DEF SnapBegins
<1>3. at \in Steps /\ at \in {"probe", "scan"} /\ (at = "probe" => head # NoHead)
  BY DEF Steps
<1>. HIDE DEF at
<1>4. s \in Snaps /\ s.at = at  BY <1>3, SnapFields
<1>5. /\ Current \in [Writers -> Snaps]
      /\ \A v \in Writers : Current[v] = snaps[v] \/ (~Busy(v) /\ Current[v] = NoSnap)
  BY <1>1, CurrentIs
<1>. HIDE DEF s
<1>6. /\ snaps' \in [Writers -> Snaps] /\ snaps'[w] = s
      /\ \A v \in Writers \ {w} : snaps'[v] = Current[v]
  BY <1>2, <1>4, <1>5
<1>7. exclude \in Lines /\ IsInjective(exclude)  BY <1>1 DEF EngineTypeOK, Lines
<1>8. exclude' \in Lines /\ IsInjective(exclude') /\ Range(exclude) \subseteq Range(exclude')
  <2>1. CASE protect /\ w \in Direct
    <3>1. exclude' = WithLine(exclude, Sparse)  BY <1>2, <2>1
    <3>2. Sparse \in Files \cup {Sparse}  OBVIOUS
    <3>3. QED  BY ONLY <1>7, <3>1, <3>2, WithLineIs
  <2>2. CASE ~(protect /\ w \in Direct)  BY <1>2, <1>7, <2>2
  <2>3. QED  BY <2>1, <2>2
<1>9. taken' \in 0..MaxSnaps  BY <1>1, <1>2, EngineAssumption DEF EngineTypeOK
<1>10. EngineTypeOK'
  BY <1>1, <1>2, <1>6, <1>8, <1>9 DEF EngineTypeOK, Lines, IsInjective
<1>11. WriterOK(w)' /\ Unlocked(w)'
  BY <1>2, <1>3, <1>4, <1>6 DEF WriterOK, HasHead, Scanned, Staged, Unlocked, SnapAt
<1>12. ASSUME NEW v \in Writers \ {w} PROVE WriterOK(v)' /\ Unlocked(v)'
  <2>1. CASE snaps'[v] = snaps[v]
    <3>1. WriterOK(v)  BY DEF EngineInv
    <3>2. WriterOK(v)'  BY <1>1, <1>2, <1>8, <1>10, <2>1, <3>1, OthersKeep
    <3>3. Unlocked(v)'  BY <1>2, <2>1 DEF EngineInv, Unlocked, SnapAt
    <3>4. QED  BY <3>2, <3>3
  <2>2. CASE snaps'[v] = NoSnap
    <3>1. snaps'[v].at = "idle"  BY <2>2, SnapFields
    <3>2. QED  BY <3>1, BlankStays
  <2>3. QED  BY <1>5, <1>6, <2>1, <2>2
<1>13. QED  BY <1>10, <1>11, <1>12 DEF EngineInv

\* A clean work-tree: HEAD is right.
LEMMA ProbeKeeps ==
  ASSUME EngineInv, NEW w \in Writers, Probe(w) PROVE EngineInv'
<1>. DEFINE at == IF Changed = {} THEN "head" ELSE "scan"
<1>1. EngineTypeOK /\ WriterOK(w)  BY DEF EngineInv
<1>2. SnapAt(w, "probe") /\ SnapMoves(w, at)
      /\ UNCHANGED <<work, index, head, exclude, lock, protect, writes, taken>>
  BY DEF Probe
<1>3. at \in Steps  BY DEF Steps
<1>4. /\ snaps' \in [Writers -> Snaps] /\ snaps'[w].at = at
      /\ snaps'[w].touched = snaps[w].touched
      /\ \A v \in Writers \ {w} : snaps'[v] = snaps[v]
  BY <1>1, <1>2, <1>3, MovesTo
<1>5. EngineTypeOK'  BY <1>1, <1>2, <1>4 DEF EngineTypeOK
<1>6. WriterOK(w)' /\ Unlocked(w)'
  <2>1. CASE Changed = {}
    <3>1. snaps'[w].at = "head" /\ head # NoHead
      BY <1>1, <1>2, <1>4, <2>1 DEF WriterOK, HasHead, SnapAt
    <3>2. ASSUME NEW f \in Files
          PROVE  /\ f \notin Ignored /\ Plain(exclude, f) => head[f] = work[f]
                 /\ head[f] # "absent" => head[f] = work[f]
      <4>1. index[f] = head[f]  BY <2>1, <3>1, <3>2 DEF Changed, HeadTree
      <4>2. f \in Seen(exclude) => work[f] = index[f]  BY <2>1, <3>2 DEF Changed
      <4>3. f \in Seen(exclude) <=> index[f] # "absent" \/ (Visible(exclude, f) /\ f \notin Ignored)
        BY <3>2 DEF Seen, Tracked
      <4>4. QED  BY <4>1, <4>2, <4>3 DEF Plain
    <3>3. Right(w, head)'  BY <1>2, <1>4, <3>2 DEF Right
    <3>4. QED  BY <1>2, <3>1, <3>3 DEF WriterOK, HasHead, Scanned, Staged, Unlocked, SnapAt
  <2>2. CASE Changed # {}  BY <1>4, <2>2, BlankStays
  <2>3. QED  BY <2>1, <2>2
<1>7. QED  BY <1>2, <1>4, <1>5, <1>6, OwnStepKeeps

\* An answer ends a snapshot.
LEMMA ReuseKeeps ==
  ASSUME EngineInv, NEW w \in Writers, Reuse(w) PROVE EngineInv'
<1>1. EngineTypeOK /\ Answer(w, head) /\ head \in IndexTrees \cup {NoHead}
      /\ UNCHANGED <<work, index, head, exclude, lock, protect, writes, taken>>
  BY DEF EngineInv, EngineTypeOK, Reuse
<1>2. /\ snaps' \in [Writers -> Snaps] /\ snaps'[w].at = "answered"
      /\ \A v \in Writers \ {w} : snaps'[v] = snaps[v]
  BY <1>1, AnswersTo
<1>3. EngineTypeOK'  BY <1>1, <1>2 DEF EngineTypeOK
<1>4. WriterOK(w)' /\ Unlocked(w)'  BY <1>2, BlankStays
<1>5. QED  BY <1>1, <1>2, <1>3, <1>4, OwnStepKeeps

\* What is over the cap is in status, unless a line hides it or its directory is new; then
\* it has a line of its own.
LEMMA ScanKeeps ==
  ASSUME EngineInv, NEW w \in Writers, Scan(w) PROVE EngineInv'
<1>. DEFINE new == {f \in Files : InNewDir(f)}
            s   == [snaps[w] EXCEPT !.at = "add", !.unlisted = new]
<1>1. EngineTypeOK /\ exclude \in Lines /\ IsInjective(exclude) /\ snaps[w] \in Snaps
  BY DEF EngineInv, EngineTypeOK, Lines
<1>2. /\ exclude' = WithLines(exclude, Oversized) /\ snaps' = [snaps EXCEPT ![w] = s]
      /\ UNCHANGED <<work, index, head, lock, protect, writes, taken>>
  BY <1>1 DEF Scan, EngineTypeOK
<1>3. Oversized \in SUBSET Files  BY DEF Oversized, Reported, Changed, Seen
<1>4. /\ exclude' \in Lines /\ IsInjective(exclude')
      /\ Range(exclude') = Range(exclude) \cup Oversized
  <2>. DEFINE r == WithLines(exclude, Oversized)
  <2>1. r \in Lines /\ IsInjective(r) /\ Range(r) = Range(exclude) \cup Oversized
    BY <1>1, <1>3, WithLinesIs
  <2>. HIDE DEF r
  <2>2. exclude' = r  BY <1>2 DEF r
  <2>3. QED  BY <2>1, <2>2
<1>5. /\ s \in Snaps /\ s.at = "add" /\ s.unlisted = new /\ s.touched = snaps[w].touched
  BY <1>1 DEF Snaps, Steps
<1>. HIDE DEF s
<1>6. /\ snaps' \in [Writers -> Snaps] /\ snaps'[w] = s
      /\ \A v \in Writers \ {w} : snaps'[v] = snaps[v]
  BY <1>1, <1>2, <1>5 DEF EngineTypeOK
<1>7. EngineTypeOK'
  BY <1>1, <1>2, <1>4, <1>6 DEF EngineTypeOK, Lines, IsInjective
<1>8. ASSUME NEW f \in Files \ new, work[f] = "big", index[f] = "absent", f \notin Ignored
      PROVE  ~Plain(exclude', f)
  <2>1. CASE Visible(exclude, f)
    <3>1. f \in Oversized  BY <1>8, <2>1 DEF Oversized, Reported, Changed, Seen
    <3>2. f \in Range(exclude') \ {Sparse}  BY <1>4, <3>1, EngineAssumption
    <3>3. QED  BY <3>2 DEF Plain, Lined
  <2>2. CASE ~Visible(exclude, f)
    <3>1. ~Plain(exclude, f)  BY <2>2 DEF Plain
    <3>2. QED  BY <1>1, <1>4, <3>1, PlainShrinks
  <2>3. QED  BY <2>1, <2>2
<1>. HIDE DEF new
<1>9. Scanned(w)'
  <2>1. ASSUME NEW f \in Files \ (s.touched \cup s.unlisted),
               work[f] = "big", index[f] = "absent", f \notin Ignored
        PROVE  ~Plain(exclude', f)
    BY <1>5, <1>8, <2>1
  <2>2. QED  BY <1>2, <1>6, <2>1 DEF Scanned, Plain, Lined
<1>10. WriterOK(w)' /\ Unlocked(w)'
  BY <1>2, <1>5, <1>6, <1>9 DEF WriterOK, HasHead, Staged, Unlocked, SnapAt
<1>11. QED  BY <1>2, <1>4, <1>6, <1>7, <1>10, OwnStepKeeps

\* `git add -A`, of readable files: a tree, in which what is seen stands as it does in the
\* work-tree and the rest as it did in the index.
LEMMA AddedIs ==
  ASSUME EngineTypeOK, NEW q, Locked(q) = {}
  PROVE  /\ Added(q) \in IndexTrees
         /\ \A f \in Files :
              /\ Added(q)[f] = index[f] \/ Added(q)[f] = work[f]
              /\ f \in Seen(q) => Added(q)[f] = work[f]
              /\ f \notin Seen(q) => index[f] = "absent" /\ Added(q)[f] = "absent"
<1>1. index \in IndexTrees /\ work \in [Files -> Contents]  BY DEF EngineTypeOK
<1>2. ASSUME NEW f \in Files
      PROVE  /\ f \in Seen(q) => work[f] \in Contents \ {"locked"}
             /\ index[f] \in Contents \ {"locked"}
             /\ f \notin Seen(q) => index[f] = "absent"
  BY <1>1 DEF Locked, Seen, Tracked, IndexTrees
<1>3. Added(q) \in IndexTrees  BY <1>2 DEF Added, IndexTrees
<1>4. QED  BY <1>2, <1>3 DEF Added

\* The same, of an add that comes through: after it the index is right.
LEMMA AddedKeeps ==
  ASSUME EngineInv, NEW w \in Writers, NEW q \in Lines, IsInjective(q),
         Range(exclude) \subseteq Range(q), Locked(q) = {},
         index' = Added(q), exclude' = q, SnapMoves(w, "force"), lock' = "none",
         UNCHANGED <<work, head, protect, writes, taken>>
  PROVE  EngineInv'
<1>1. EngineTypeOK  BY DEF EngineInv
<1>2. "force" \in Steps  BY DEF Steps
<1>3. /\ snaps' \in [Writers -> Snaps] /\ snaps'[w].at = "force"
      /\ snaps'[w].touched = snaps[w].touched
      /\ \A v \in Writers \ {w} : snaps'[v] = snaps[v]
  BY <1>1, <1>2, MovesTo
<1>4. /\ index' \in IndexTrees
      /\ \A f \in Files :
           /\ index'[f] = index[f] \/ index'[f] = work[f]
           /\ f \in Seen(q) => index'[f] = work[f]
           /\ f \notin Seen(q) => index[f] = "absent" /\ index'[f] = "absent"
  BY <1>1, AddedIs
<1>5. EngineTypeOK'
  BY <1>1, <1>3, <1>4 DEF EngineTypeOK, Lines
<1>6. Right(w, index)'
  <2>1. ASSUME NEW f \in Files
        PROVE  /\ f \notin Ignored /\ Plain(q, f) => index'[f] = work[f]
               /\ index'[f] # "absent" => index'[f] = work[f]
    BY <1>4 DEF Seen, Plain
  <2>2. QED  BY <2>1 DEF Right, Plain
<1>7. WriterOK(w)' /\ Unlocked(w)'
  BY <1>3, <1>6 DEF WriterOK, HasHead, Scanned, Staged, Unlocked, SnapAt
<1>8. QED  BY <1>3, <1>4, <1>5, <1>7, OwnStepKeeps

\* A failure, after which at most lines and a lock are left.
LEMMA FailureKeeps ==
  ASSUME EngineInv, NEW w \in Writers, Fail(w),
         exclude' \in Lines, IsInjective(exclude)', Range(exclude) \subseteq Range(exclude'),
         lock' \in {"none", "fresh", lock},
         UNCHANGED <<work, index, head, protect, writes, taken>>
  PROVE  EngineInv'
<1>1. EngineTypeOK  BY DEF EngineInv
<1>2. /\ snaps' \in [Writers -> Snaps] /\ snaps'[w].at = "failed"
      /\ \A v \in Writers \ {w} : snaps'[v] = snaps[v]
  BY <1>1, FailsTo
<1>3. EngineTypeOK'  BY <1>1, <1>2 DEF EngineTypeOK, Lines
<1>4. WriterOK(w)' /\ Unlocked(w)'  BY <1>2, BlankStays
<1>5. QED  BY <1>2, <1>3, <1>4, OwnStepKeeps

LEMMA AddKeeps ==
  ASSUME EngineInv, NEW w \in Writers, Add(w) PROVE EngineInv'
<1>1. EngineTypeOK /\ exclude \in Lines /\ IsInjective(exclude)
      /\ lock \in {"none", "fresh", "stale"}
      /\ UNCHANGED <<work, head, protect, writes, taken>>
      /\ lock' = IF lock = "stale" THEN "none" ELSE lock
  BY DEF EngineInv, EngineTypeOK, Lines, Add
<1>2. CASE lock = "fresh"
  <2>1. Fail(w) /\ UNCHANGED <<index, exclude>>  BY <1>2 DEF Add
  <2>2. QED  BY <1>1, <2>1, FailureKeeps DEF IsInjective
<1>3. CASE lock # "fresh" /\ Locked(exclude) = {}
  <2>1. index' = Added(exclude) /\ SnapMoves(w, "force") /\ UNCHANGED exclude
    BY <1>3 DEF Add
  <2>2. lock' = "none"  BY <1>1, <1>3
  <2>3. QED  BY <1>1, <1>3, <2>1, <2>2, AddedKeeps
<1>4. CASE lock # "fresh" /\ Locked(exclude) # {}
  <2>1. PICK f \in Locked(exclude) : Retry(w, f)  BY <1>4 DEF Add
  <2>2. f \in Files  BY DEF Locked, Seen
  <2>. DEFINE q == WithLine(exclude, f)
  <2>3. q \in Lines /\ IsInjective(q) /\ Range(exclude) \subseteq Range(q)
    <3>1. exclude \in Lines /\ IsInjective(exclude) /\ f \in Files \cup {Sparse}
      BY <1>1, <2>2
    <3>2. q = WithLine(exclude, f)  OBVIOUS
    <3>. HIDE DEF q
    <3>3. q \in Lines /\ IsInjective(q) /\ Range(q) = Range(exclude) \cup {f}
      BY ONLY <3>1, <3>2, WithLineIs
    <3>4. QED  BY ONLY <3>3
  <2>4. exclude' = q /\ IF Locked(q) = {} THEN index' = Added(q) /\ SnapMoves(w, "force")
                        ELSE Fail(w) /\ UNCHANGED index
    BY <2>1 DEF Retry
  <2>5. lock' = "none"  BY <1>1, <1>4
  <2>. HIDE DEF q
  <2>6. CASE Locked(q) = {}  BY <1>1, <2>3, <2>4, <2>5, <2>6, AddedKeeps
  <2>7. CASE Locked(q) # {}
    BY <1>1, <2>3, <2>4, <2>5, <2>7, FailureKeeps DEF IsInjective
  <2>8. QED  BY <2>6, <2>7
<1>5. QED  BY <1>2, <1>3, <1>4

\* The forced files that exist are staged: of those that do not, the index holds nothing.
LEMMA ForceAddKeeps ==
  ASSUME EngineInv, NEW w \in Writers, ForceAdd(w) PROVE EngineInv'
<1>. DEFINE paths == {f \in Forced : work[f] # "absent"}
            fails == paths # {} /\ (lock # "none" \/ \E f \in paths : work[f] = "locked")
<1>1. EngineTypeOK /\ SnapAt(w, "force") /\ Right(w, index)
      /\ UNCHANGED <<work, head, exclude, lock, protect, writes, taken>>
  BY DEF EngineInv, WriterOK, Staged, ForceAdd
<1>2. exclude' \in Lines /\ IsInjective(exclude)' /\ Range(exclude) \subseteq Range(exclude')
  BY <1>1 DEF EngineTypeOK, Lines, IsInjective
<1>3. CASE fails
  <2>1. Fail(w) /\ UNCHANGED index  BY <1>3 DEF ForceAdd
  <2>2. QED  BY <1>1, <1>2, <2>1, FailureKeeps
<1>4. CASE ~fails
  <2>1. /\ index' = [f \in Files |-> IF f \in paths THEN work[f] ELSE index[f]]
        /\ SnapMoves(w, "commit")
    BY <1>4 DEF ForceAdd
  <2>2. \A f \in paths : f \in Files /\ work[f] \in Contents \ {"locked"}
    BY <1>1, <1>4, EngineAssumption DEF EngineTypeOK
  <2>. HIDE DEF fails
  <2>3. index' \in IndexTrees  BY <1>1, <2>1, <2>2 DEF EngineTypeOK, IndexTrees
  <2>4. \A f \in Files : index'[f] = index[f] \/ index'[f] = work[f]
    BY <2>1
  <2>5. "commit" \in Steps  BY DEF Steps
  <2>6. /\ snaps' \in [Writers -> Snaps] /\ snaps'[w].at = "commit"
        /\ snaps'[w].touched = snaps[w].touched
        /\ \A v \in Writers \ {w} : snaps'[v] = snaps[v]
    BY <1>1, <2>1, <2>5, MovesTo
  <2>7. EngineTypeOK'  BY <1>1, <1>2, <2>3, <2>6 DEF EngineTypeOK, Lines
  <2>8. Right(w, index)'
    <3>1. ASSUME NEW f \in Files \ snaps[w].touched
          PROVE  /\ f \notin Ignored /\ Plain(exclude, f) => index'[f] = work[f]
                 /\ index'[f] # "absent" => index'[f] = work[f]
      BY <1>1, <2>4 DEF Right
    <3>2. QED  BY <1>1, <2>6, <3>1 DEF Right
  <2>9. ForcedIn(w, index)'
    <3>1. ASSUME NEW f \in Forced \ snaps[w].touched PROVE index'[f] = work[f]
      <4>1. f \in Files \ snaps[w].touched  BY EngineAssumption
      <4>2. CASE work[f] # "absent"  BY <2>1, <4>1, <4>2
      <4>3. CASE work[f] = "absent"
        <5>1. index'[f] = index[f]  BY <2>1, <4>1, <4>3
        <5>2. index[f] # "absent" => index[f] = work[f]  BY <1>1, <4>1 DEF Right
        <5>3. QED  BY <4>3, <5>1, <5>2
      <4>4. QED  BY <4>2, <4>3
    <3>2. QED  BY <1>1, <2>6, <3>1 DEF ForcedIn
  <2>10. WriterOK(w)' /\ Unlocked(w)'
    BY <2>6, <2>8, <2>9 DEF WriterOK, HasHead, Scanned, Staged, Unlocked, SnapAt
  <2>11. QED  BY <1>1, <1>2, <2>4, <2>6, <2>7, <2>10, OwnStepKeeps
<1>5. QED  BY <1>3, <1>4

\* The tree that is committed, or found in HEAD already, is the index.
LEMMA CommitKeeps ==
  ASSUME EngineInv, NEW w \in Writers, Commit(w) PROVE EngineInv'
<1>1. /\ EngineTypeOK /\ SnapAt(w, "commit") /\ Right(w, index) /\ ForcedIn(w, index)
      /\ index \in IndexTrees /\ head \in IndexTrees \cup {NoHead}
      /\ UNCHANGED <<work, index, exclude, lock, protect, writes, taken>>
  BY DEF EngineInv, EngineTypeOK, WriterOK, Staged, Commit
<1>2. CASE head = NoHead
  <2>1. head' = index /\ Answer(w, index)  BY <1>2 DEF Commit
  <2>2. /\ snaps' \in [Writers -> Snaps] /\ snaps'[w].at = "answered"
        /\ \A v \in Writers \ {w} : snaps'[v] = snaps[v]
    BY <1>1, <2>1, AnswersTo
  <2>3. EngineTypeOK'  BY <1>1, <2>1, <2>2 DEF EngineTypeOK
  <2>4. WriterOK(w)' /\ Unlocked(w)'  BY <2>2, BlankStays
  <2>5. QED  BY <1>1, <1>2, <2>2, <2>3, <2>4, OwnStepKeeps
<1>3. CASE head # NoHead /\ index = head
  <2>1. head' = head /\ SnapMoves(w, "same")  BY <1>3 DEF Commit
  <2>2. "same" \in Steps  BY DEF Steps
  <2>3. /\ snaps' \in [Writers -> Snaps] /\ snaps'[w].at = "same"
        /\ snaps'[w].touched = snaps[w].touched
        /\ \A v \in Writers \ {w} : snaps'[v] = snaps[v]
    BY <1>1, <2>1, <2>2, MovesTo
  <2>4. EngineTypeOK'  BY <1>1, <2>1, <2>3 DEF EngineTypeOK
  <2>5. Right(w, head)' /\ ForcedIn(w, head)'
    BY <1>1, <1>3, <2>1, <2>3 DEF Right, ForcedIn
  <2>6. WriterOK(w)' /\ Unlocked(w)'
    BY <1>3, <2>1, <2>3, <2>5 DEF WriterOK, HasHead, Scanned, Staged, Unlocked, SnapAt
  <2>7. QED  BY <1>1, <2>1, <2>3, <2>4, <2>6, OwnStepKeeps
<1>4. CASE head # NoHead /\ index # head
  <2>. DEFINE s == [snaps[w] EXCEPT !.at = "ref", !.sha = index]
  <2>1. head' = head /\ snaps' = [snaps EXCEPT ![w] = s]
    BY <1>1, <1>4 DEF Commit, EngineTypeOK
  <2>2. /\ s \in Snaps /\ s.at = "ref" /\ s.sha = index /\ s.touched = snaps[w].touched
    BY <1>1 DEF EngineTypeOK, Snaps, Steps
  <2>. HIDE DEF s
  <2>3. /\ snaps' \in [Writers -> Snaps] /\ snaps'[w] = s
        /\ \A v \in Writers \ {w} : snaps'[v] = snaps[v]
    BY <1>1, <2>1, <2>2 DEF EngineTypeOK
  <2>4. EngineTypeOK'  BY <1>1, <2>1, <2>3 DEF EngineTypeOK
  <2>5. Right(w, index)' /\ ForcedIn(w, index)'
    BY <1>1, <2>2, <2>3 DEF Right, ForcedIn
  <2>6. snaps'[w].sha = index' /\ snaps'[w].at = "ref"  BY <1>1, <2>2, <2>3
  <2>7. Right(w, snaps[w].sha)' /\ ForcedIn(w, snaps[w].sha)'
    BY <2>5, <2>6 DEF Right, ForcedIn
  <2>8. WriterOK(w)' /\ Unlocked(w)'
    BY <1>1, <1>4, <2>1, <2>6, <2>7 DEF WriterOK, HasHead, Scanned, Staged, Unlocked, SnapAt
  <2>9. QED  BY <1>1, <2>1, <2>3, <2>4, <2>8, OwnStepKeeps
<1>5. QED  BY <1>2, <1>3, <1>4

\* HEAD is set: who looked at the one before is told, by `moved`.
LEMMA UpdateRefKeeps ==
  ASSUME EngineInv, NEW w \in Writers, UpdateRef(w) PROVE EngineInv'
<1>. DEFINE sha == snaps[w].sha
            Answered == [NoSnap EXCEPT !.at = "answered", !.sha = sha]
            Warned(v) == snaps[v].at \in {"head", "same"} /\ head # sha
<1>1. /\ EngineTypeOK /\ sha \in IndexTrees /\ head' = sha
      /\ UNCHANGED <<work, index, exclude, lock, protect, writes, taken>>
  BY DEF EngineInv, WriterOK, Staged, UpdateRef
<1>2. snaps' = [v \in Writers |-> IF v = w THEN Answered
                  ELSE IF Warned(v) THEN [snaps[v] EXCEPT !.moved = TRUE] ELSE snaps[v]]
  BY DEF UpdateRef
<1>3. Answered \in Snaps /\ Answered.at = "answered"  BY <1>1, EndFields
<1>. HIDE DEF Answered, Warned
<1>4. ASSUME NEW v \in Writers
      PROVE  /\ [snaps[v] EXCEPT !.moved = TRUE] \in Snaps
             /\ [snaps[v] EXCEPT !.moved = TRUE].at = snaps[v].at
             /\ [snaps[v] EXCEPT !.moved = TRUE].sha = snaps[v].sha
             /\ [snaps[v] EXCEPT !.moved = TRUE].touched = snaps[v].touched
             /\ [snaps[v] EXCEPT !.moved = TRUE].unlisted = snaps[v].unlisted
             /\ [snaps[v] EXCEPT !.moved = TRUE].moved
  BY <1>1 DEF EngineTypeOK, Snaps
<1>5. snaps' \in [Writers -> Snaps]  BY <1>1, <1>2, <1>3, <1>4 DEF EngineTypeOK
<1>6. EngineTypeOK'  BY <1>1, <1>5 DEF EngineTypeOK
<1>7. snaps'[w].at = "answered"  BY <1>2, <1>3
<1>8. WriterOK(w)' /\ Unlocked(w)'  BY <1>7, BlankStays
<1>9. ASSUME NEW v \in Writers \ {w}
      PROVE  /\ snaps'[v].at = snaps[v].at /\ snaps'[v].sha = snaps[v].sha
             /\ snaps[v].touched \subseteq snaps'[v].touched
             /\ snaps'[v].unlisted = snaps[v].unlisted
             /\ snaps[v].moved => snaps'[v].moved
             /\ \/ head' = head
                \/ head' \in IndexTrees /\ (snaps[v].at \in {"head", "same"} => snaps'[v].moved)
  BY <1>1, <1>2, <1>4 DEF Warned
<1>10. QED  BY <1>1, <1>6, <1>8, <1>9, StepKeeps

\* What happens around the snapshots.
LEMMA KilledKeeps ==
  ASSUME EngineInv, NEW w \in Writers, GitKilled(w) PROVE EngineInv'
<1>1. exclude \in Lines /\ IsInjective(exclude)
  BY DEF EngineInv, EngineTypeOK, Lines
<1>2. /\ Fail(w) /\ lock' \in {"none", "fresh", lock}
      /\ UNCHANGED <<work, index, head, exclude, protect, writes, taken>>
  BY DEF GitKilled
<1>3. QED  BY <1>1, <1>2, FailureKeeps DEF IsInjective

LEMMA AgesKeeps == ASSUME EngineInv, Ages PROVE EngineInv'
<1>1. /\ EngineTypeOK /\ lock' = "stale" /\ \A w \in Writers : snaps[w].at # "force"
      /\ UNCHANGED <<work, index, head, exclude, protect, snaps, writes, taken>>
  BY DEF EngineInv, Ages
<1>2. EngineTypeOK'  BY <1>1 DEF EngineTypeOK, IsInjective
<1>3. ASSUME NEW w \in Writers PROVE WriterOK(w)' /\ Unlocked(w)'
  <2>1. WriterOK(w)  BY DEF EngineInv
  <2>2. WriterOK(w)'  BY <1>1, <1>2, <2>1, OthersKeep
  <2>3. QED  BY <1>1, <2>2 DEF Unlocked, SnapAt
<1>4. QED  BY <1>2, <1>3 DEF EngineInv

LEMMA ProtectKeeps == ASSUME EngineInv, Protect PROVE EngineInv'
<1>1. /\ EngineTypeOK /\ protect' = TRUE /\ snaps' = Current
      /\ UNCHANGED <<work, index, head, exclude, lock, writes, taken>>
  BY DEF EngineInv, Protect
<1>2. /\ snaps' \in [Writers -> Snaps]
      /\ \A v \in Writers : snaps'[v] = snaps[v] \/ snaps'[v] = NoSnap
  BY <1>1, CurrentIs
<1>3. EngineTypeOK'  BY <1>1, <1>2 DEF EngineTypeOK, IsInjective
<1>4. ASSUME NEW w \in Writers PROVE WriterOK(w)' /\ Unlocked(w)'
  <2>1. CASE snaps'[w] = snaps[w]
    <3>1. WriterOK(w)  BY DEF EngineInv
    <3>2. WriterOK(w)'  BY <1>1, <1>3, <2>1, <3>1, OthersKeep
    <3>3. Unlocked(w)'  BY <1>1, <2>1 DEF EngineInv, Unlocked, SnapAt
    <3>4. QED  BY <3>2, <3>3
  <2>2. CASE snaps'[w] = NoSnap
    <3>1. snaps'[w].at = "idle"  BY <2>2, SnapFields
    <3>2. QED  BY <3>1, BlankStays
  <2>3. QED  BY <1>2, <2>1, <2>2
<1>5. QED  BY <1>3, <1>4 DEF EngineInv

\* A file changes: it is touched for every snapshot under way.
LEMMA ChangesKeeps ==
  ASSUME EngineInv, NEW f \in Files, NEW c \in Contents, Changes(f, c)
  PROVE  EngineInv'
<1>. DEFINE Touched(w) == [snaps[w] EXCEPT !.touched = snaps[w].touched \cup {f}]
<1>1. /\ EngineTypeOK /\ writes < MaxChanges /\ writes' = writes + 1
      /\ work' = [work EXCEPT ![f] = c]
      /\ snaps' = [w \in Writers |-> IF Busy(w) THEN Touched(w) ELSE NoSnap]
      /\ UNCHANGED <<index, head, exclude, lock, protect, taken>>
  BY DEF EngineInv, Changes
<1>2. ASSUME NEW w \in Writers
      PROVE  /\ Touched(w) \in Snaps /\ Touched(w).at = snaps[w].at
             /\ Touched(w).sha = snaps[w].sha /\ Touched(w).moved = snaps[w].moved
             /\ Touched(w).unlisted = snaps[w].unlisted
             /\ Touched(w).touched = snaps[w].touched \cup {f}
  BY <1>1 DEF EngineTypeOK, Snaps
<1>. HIDE DEF Touched
<1>3. snaps' \in [Writers -> Snaps]  BY <1>1, <1>2, SnapFields
<1>4. /\ work' \in [Files -> Contents] /\ \A g \in Files \ {f} : work'[g] = work[g]
      /\ writes' \in 0..MaxChanges
  BY <1>1, EngineAssumption DEF EngineTypeOK
<1>5. EngineTypeOK'  BY <1>1, <1>3, <1>4 DEF EngineTypeOK, IsInjective
<1>6. ASSUME NEW w \in Writers PROVE WriterOK(w)' /\ Unlocked(w)'
  <2>1. CASE Busy(w)
    <3>1. snaps'[w] = Touched(w)  BY <1>1, <2>1
    <3>2. WriterOK(w)  BY DEF EngineInv
    <3>3. \A g \in Files \ snaps'[w].touched : work'[g] = work[g] /\ index'[g] = index[g]
      BY <1>1, <1>2, <1>4, <3>1
    <3>4. WriterOK(w)'  BY <1>1, <1>2, <1>5, <3>1, <3>2, <3>3, OthersKeep
    <3>5. Unlocked(w)'  BY <1>1, <1>2, <3>1 DEF EngineInv, Unlocked, SnapAt
    <3>6. QED  BY <3>4, <3>5
  <2>2. CASE ~Busy(w)
    <3>1. snaps'[w].at = "idle"  BY <1>1, <2>2, SnapFields
    <3>2. QED  BY <3>1, BlankStays
  <2>3. QED  BY <2>1, <2>2
<1>7. QED  BY <1>5, <1>6 DEF EngineInv
-----------------------------------------------------------------------------
\* However writers and what happens around them interleave, what they are to commit is
\* right at every step.
THEOREM EngineInvHolds == EngineSpec => []EngineInv
<1>1. ASSUME EngineInit PROVE EngineInv
  <2>1. /\ work \in [Files -> Contents] /\ index \in IndexTrees /\ exclude \in Lines
        /\ exclude = <<>> /\ IsInjective(exclude)
    BY <1>1 DEF EngineInit, Contents, Nothing, IndexTrees, Lines, IsInjective
  <2>2. snaps \in [Writers -> Snaps] /\ \A w \in Writers : snaps[w].at = "idle"
    BY <1>1, SnapFields DEF EngineInit
  <2>3. EngineTypeOK
    BY <1>1, <2>1, <2>2, EngineAssumption DEF EngineInit, EngineTypeOK, Lines
  <2>4. QED  BY <2>2, <2>3, BlankIsOK DEF EngineInv
<1>2. EngineInv /\ [EngineNext]_engineVars => EngineInv'
  <2>. SUFFICES ASSUME EngineInv, [EngineNext]_engineVars PROVE EngineInv'
    OBVIOUS
  <2>1. ASSUME NEW w \in Writers, NEW pre \in BOOLEAN, SnapBegins(w, pre) PROVE EngineInv'
    BY <2>1, BeginsKeeps
  <2>2. ASSUME NEW w \in Writers,
               Probe(w) \/ Reuse(w) \/ Scan(w) \/ Add(w) \/ ForceAdd(w) \/ Commit(w)
                 \/ UpdateRef(w) \/ GitKilled(w)
        PROVE  EngineInv'
    BY <2>2, ProbeKeeps, ReuseKeeps, ScanKeeps, AddKeeps, ForceAddKeeps, CommitKeeps,
       UpdateRefKeeps, KilledKeeps
  <2>3. CASE Ages \/ Protect  BY <2>3, AgesKeeps, ProtectKeeps
  <2>4. ASSUME NEW f \in Files, NEW c \in Contents, Changes(f, c) PROVE EngineInv'
    BY <2>4, ChangesKeeps
  <2>5. CASE UNCHANGED engineVars
    <3>1. UNCHANGED <<work, index, head, exclude, lock, protect, snaps, writes, taken>>
      BY <2>5 DEF engineVars
    <3>2. EngineTypeOK /\ EngineTypeOK'  BY <3>1 DEF EngineInv, EngineTypeOK, IsInjective
    <3>3. ASSUME NEW w \in Writers PROVE WriterOK(w)' /\ Unlocked(w)'
      <4>1. WriterOK(w)  BY DEF EngineInv
      <4>2. WriterOK(w)'  BY <3>1, <3>2, <4>1, OthersKeep
      <4>3. QED  BY <3>1, <4>2 DEF EngineInv, Unlocked, SnapAt
    <3>4. QED  BY <3>2, <3>3 DEF EngineInv
  <2>6. QED  BY <2>1, <2>2, <2>3, <2>4, <2>5 DEF EngineNext
<1>3. QED  BY <1>1, <1>2, PTL DEF EngineSpec

\* Who gives an answer: one that found nothing to commit, the first commit, or one that
\* has set HEAD.
LEMMA AnswersAre ==
  ASSUME EngineInv, [EngineNext]_engineVars, NEW w \in Writers, Answers(w)
  PROVE  Reuse(w) \/ (Commit(w) /\ head = NoHead) \/ UpdateRef(w)
<1>1. EngineTypeOK /\ snaps \in [Writers -> Snaps]
  BY DEF EngineInv, EngineTypeOK
<1>2. Busy(w) /\ snaps[w].at # "answered" /\ snaps'[w].at = "answered"
  BY DEF Answers, Busy
<1>3. ASSUME NEW v \in Writers, NEW at \in Steps \ {"answered"}, SnapMoves(v, at) PROVE FALSE
  BY <1>1, <1>2, <1>3, MovesTo
<1>4. ASSUME NEW v \in Writers, Fail(v) PROVE FALSE
  BY <1>1, <1>2, <1>4, FailsTo
<1>5. ASSUME NEW v \in Writers, NEW pre \in BOOLEAN, SnapBegins(v, pre) PROVE FALSE
  <2>. DEFINE at == IF pre /\ head # NoHead THEN "probe" ELSE "scan"
  <2>1. snaps' = [Current EXCEPT ![v] = [NoSnap EXCEPT !.at = at]] /\ ~Busy(v)
    BY <1>5 DEF SnapBegins
  <2>2. snaps'[w] = Current[w]  BY <1>1, <1>2, <2>1, CurrentIs
  <2>3. QED  BY <1>1, <1>2, <2>2, CurrentIs
<1>6. ASSUME Protect PROVE FALSE
  BY <1>1, <1>2, <1>6, CurrentIs DEF Protect
<1>7. ASSUME NEW f \in Files, NEW c \in Contents, Changes(f, c) PROVE FALSE
  <2>1. snaps'[w] = [snaps[w] EXCEPT !.touched = @ \cup {f}]  BY <1>2, <1>7 DEF Changes
  <2>2. snaps'[w].at = snaps[w].at  BY <1>1, <2>1 DEF Snaps
  <2>3. QED  BY <1>2, <2>2
<1>8. ASSUME UNCHANGED engineVars \/ Ages PROVE FALSE
  BY <1>2, <1>8 DEF engineVars, Ages
<1>9. ASSUME NEW v \in Writers, Probe(v) \/ ForceAdd(v) \/ GitKilled(v) PROVE FALSE
  <2>1. (\E at \in Steps \ {"answered"} : SnapMoves(v, at)) \/ Fail(v)
    BY <1>9 DEF Probe, ForceAdd, GitKilled, Steps
  <2>2. QED  BY <1>3, <1>4, <2>1
<1>10. ASSUME NEW v \in Writers, Add(v) PROVE FALSE
  <2>1. SnapMoves(v, "force") \/ Fail(v)  BY <1>10 DEF Add, Retry
  <2>2. "force" \in Steps \ {"answered"}  BY DEF Steps
  <2>3. QED  BY <1>3, <1>4, <2>1, <2>2
<1>11. ASSUME NEW v \in Writers, Reuse(v) PROVE v = w
  <2>1. Answer(v, head) /\ head \in IndexTrees \cup {NoHead}
    BY <1>1, <1>11 DEF Reuse, EngineTypeOK
  <2>2. QED  BY <1>1, <1>2, <2>1, AnswersTo
<1>12. ASSUME NEW v \in Writers, Commit(v) PROVE v = w /\ head = NoHead
  <2>1. CASE head = NoHead
    <3>1. Answer(v, index) /\ index \in IndexTrees \cup {NoHead}
      BY <1>1, <1>12, <2>1 DEF Commit, EngineTypeOK
    <3>2. QED  BY <1>1, <1>2, <2>1, <3>1, AnswersTo
  <2>2. CASE head # NoHead /\ index = head
    <3>1. SnapMoves(v, "same") /\ "same" \in Steps \ {"answered"}
      BY <1>12, <2>2 DEF Commit, Steps
    <3>2. QED  BY <1>3, <3>1
  <2>3. CASE head # NoHead /\ index # head
    <3>1. snaps' = [snaps EXCEPT ![v] = [snaps[v] EXCEPT !.at = "ref", !.sha = index]]
      BY <1>1, <1>12, <2>3 DEF Commit
    <3>2. [snaps[v] EXCEPT !.at = "ref", !.sha = index].at = "ref"
      BY <1>1 DEF Snaps
    <3>3. QED  BY <1>1, <1>2, <3>1, <3>2
  <2>4. QED  BY <2>1, <2>2, <2>3
<1>13. ASSUME NEW v \in Writers, UpdateRef(v) PROVE v = w
  <2>1. CASE w # v
    <3>1. snaps'[w] = snaps[w] \/ snaps'[w] = [snaps[w] EXCEPT !.moved = TRUE]
      BY <1>13, <2>1 DEF UpdateRef
    <3>2. [snaps[w] EXCEPT !.moved = TRUE].at = snaps[w].at  BY <1>1 DEF Snaps
    <3>3. QED  BY <1>2, <3>1, <3>2
  <2>2. QED  BY <2>1
<1>14. ASSUME NEW v \in Writers, Scan(v) PROVE FALSE
  <2>. DEFINE new == {f \in Files : InNewDir(f)}
  <2>1. snaps' = [snaps EXCEPT ![v] = [snaps[v] EXCEPT !.at = "add", !.unlisted = new]]
    BY <1>1, <1>14 DEF Scan
  <2>. HIDE DEF new
  <2>2. [snaps[v] EXCEPT !.at = "add", !.unlisted = new].at = "add"  BY <1>1 DEF Snaps
  <2>3. QED  BY <1>1, <1>2, <2>1, <2>2
<1>15. QED
  BY <1>5, <1>6, <1>7, <1>8, <1>9, <1>10, <1>11, <1>12, <1>13, <1>14 DEF EngineNext

\* HoldsWhatStood for any files, patterns and writers: what an answered snapshot holds of
\* an untouched file is what stood in the work-tree, and it holds each that it should,
\* however other writers stage, exclude and commit between its commands.
THEOREM HeldIsWhatStood == EngineSpec => HoldsWhatStood
<1>1. ASSUME EngineInv, [EngineNext]_engineVars PROVE HoldsWhatStands
  <2>1. ASSUME NEW w \in Writers, Answers(w), ~snaps[w].moved
        PROVE  Right(w, snaps'[w].sha) /\ (~SnapAt(w, "head") => ForcedIn(w, snaps'[w].sha))
    <3>1. EngineTypeOK /\ WriterOK(w) /\ HasHead(w) /\ Staged(w)
          /\ index \in IndexTrees /\ head \in IndexTrees \cup {NoHead}
      BY <1>1 DEF EngineInv, WriterOK, EngineTypeOK
    <3>2. CASE Reuse(w)
      <4>1. snaps'[w].sha = head  BY <3>1, <3>2, AnswersTo DEF Reuse
      <4>2. QED  BY <2>1, <3>1, <3>2, <4>1 DEF Reuse, Staged, SnapAt
    <3>3. CASE Commit(w) /\ head = NoHead
      <4>1. snaps'[w].sha = index  BY <3>1, <3>3, AnswersTo DEF Commit
      <4>2. QED  BY <3>1, <3>3, <4>1 DEF Commit, Staged
    <3>4. CASE UpdateRef(w)
      <4>1. snaps'[w] = [NoSnap EXCEPT !.at = "answered", !.sha = snaps[w].sha]
        BY <3>1, <3>4 DEF UpdateRef
      <4>2. snaps[w].sha \in IndexTrees  BY <3>1, <3>4 DEF UpdateRef, Staged
      <4>3. snaps'[w].sha = snaps[w].sha  BY <4>1, <4>2, EndFields
      <4>4. QED  BY <3>1, <3>4, <4>3 DEF UpdateRef, Staged
    <3>5. QED  BY <1>1, <2>1, <3>2, <3>3, <3>4, AnswersAre
  <2>2. Forced \subseteq Files  BY EngineAssumption
  <2>3. QED  BY <2>1, <2>2 DEF HoldsWhatStands, Right, ForcedIn, Plain
<1>2. QED  BY <1>1, EngineInvHolds, PTL DEF EngineSpec, HoldsWhatStood

\* BigStaysOut for any files, patterns and writers (README: "files over the size cap -
\* skipped"): `git add -A` takes none it did not know already, but for one that grew since
\* the scan, lay in a new directory at it, or whose line is undone.
THEOREM BigIsLeftOut == EngineSpec => BigStaysOut
<1>1. ASSUME EngineInv PROVE BigStays
  <2>1. ASSUME NEW w \in Writers, NEW f \in Files, Add(w), index[f] = "absent",
               index'[f] = "big", f \notin snaps[w].touched \cup snaps[w].unlisted
        PROVE  Undone(f)
    <3>1. EngineTypeOK /\ exclude \in Lines /\ IsInjective(exclude) /\ Scanned(w)
      BY <1>1 DEF EngineInv, EngineTypeOK, WriterOK, Lines
    <3>2. PICK q : /\ index' = Added(q) /\ Locked(q) = {}
                   /\ \/ q = exclude
                      \/ \E g \in Files : q = WithLine(exclude, g) /\ work[g] = "locked"
      BY <2>1 DEF Add, Retry, Locked, Seen
    <3>3. f \in Seen(q) /\ work[f] = "big"
      BY <2>1, <3>1, <3>2, AddedIs
    <3>4. Visible(q, f) /\ f \notin Ignored  BY <2>1, <3>3 DEF Seen, Tracked
    <3>5. Visible(exclude, f)
      <4>1. CASE q = exclude  BY <3>4, <4>1
      <4>2. ASSUME NEW g \in Files, q = WithLine(exclude, g), work[g] = "locked"
            PROVE  Visible(exclude, f)
        BY <3>1, <3>3, <3>4, <4>2, LineHides
      <4>3. QED  BY <3>2, <4>1, <4>2
    <3>6. ~Plain(exclude, f)
      BY <2>1, <3>1, <3>3, <3>4 DEF Scanned, Add
    <3>7. QED  BY <3>5, <3>6 DEF Plain, Undone
  <2>2. QED  BY <2>1 DEF BigStays
<1>2. QED  BY <1>1, EngineInvHolds, PTL DEF EngineSpec, BigStaysOut

\* FailsOnlyFor for any files, patterns and writers (engine.go: "retrying once around an
\* unreadable file"): one new file that cannot be read fails no snapshot, if its
\* line matches it, and no lock does that is old enough to be removed.
THEOREM FailuresHaveCause == EngineSpec => FailsOnlyFor
<1>. DEFINE Bad == {f \in Files : work[f] = "locked"}
<1>1. ASSUME EngineInv PROVE FailsFor
  <2>0. /\ EngineTypeOK /\ exclude \in Lines /\ IsInjective(exclude)
        /\ lock \in {"none", "fresh", "stale"}
    BY <1>1 DEF EngineInv, EngineTypeOK, Lines
  <2>1. ASSUME NEW f \in Bad, NEW g \in Bad, f # g PROVE Cardinality(Bad) > 1
    <3>1. IsFiniteSet(Bad)  BY FS_Subset, EngineAssumption
    <3>2. IsFiniteSet({f}) /\ Cardinality({f}) = 1  BY FS_Singleton
    <3>3. Cardinality({f} \cup {g}) = 2  BY <2>1, <3>2, FS_AddElement
    <3>4. {f} \cup {g} \in SUBSET Bad  OBVIOUS
    <3>5. Cardinality({f} \cup {g}) <= Cardinality(Bad)  BY <3>1, <3>4, FS_Subset
    <3>6. Cardinality(Bad) \in Nat  BY <3>1, FS_CardinalityType
    <3>7. QED  BY <3>3, <3>5, <3>6
  <2>2. ASSUME NEW w \in Writers, Add(w), snaps'[w].at = "failed", lock # "fresh"
        PROVE  \/ \E f \in Files :
                    /\ work[f] = "locked"
                    /\ Tracked(f) \/ Undone(f) \/ f \notin Matched[f]
               \/ Cardinality(Bad) > 1
    <3>1. Locked(exclude) # {}
      <4>1. "force" \in Steps  BY DEF Steps
      <4>2. Locked(exclude) = {} => SnapMoves(w, "force")  BY <2>2 DEF Add
      <4>3. QED  BY <2>0, <2>2, <4>1, <4>2, MovesTo
    <3>2. PICK f \in Locked(exclude) : Retry(w, f)  BY <2>2, <3>1 DEF Add
    <3>3. f \in Files /\ work[f] = "locked" /\ f \in Seen(exclude)
      BY DEF Locked, Seen
    <3>. DEFINE q == WithLine(exclude, f)
    <3>4. Locked(q) # {}
      <4>1. "force" \in Steps  BY DEF Steps
      <4>2. Locked(q) = {} => SnapMoves(w, "force")  BY <3>2 DEF Retry
      <4>3. QED  BY <2>0, <2>2, <4>1, <4>2, MovesTo
    <3>5. PICK g \in Locked(q) : TRUE  BY <3>4
    <3>6. g \in Files /\ work[g] = "locked" /\ g \in Seen(q)
      BY <3>5 DEF Locked, Seen
    <3>7. CASE g # f  BY <2>1, <3>3, <3>6, <3>7
    <3>8. CASE g = f
      <4>1. Tracked(f) \/ Visible(q, f)  BY <3>6, <3>8 DEF Seen
      <4>2. CASE f \in Range(exclude)
        <5>1. q = exclude  BY <4>2 DEF WithLine
        <5>2. Lined(exclude, f)  BY <3>3, <4>2, EngineAssumption DEF Lined
        <5>3. QED  BY <3>3, <4>1, <5>1, <5>2 DEF Undone
      <4>3. CASE f \notin Range(exclude) /\ f \in Matched[f]
        <5>1. ~Visible(q, f)  BY <2>0, <3>3, <4>3, LineHides
        <5>2. QED  BY <3>3, <4>1, <5>1
      <4>4. QED  BY <3>3, <4>2, <4>3
    <3>9. QED  BY <3>7, <3>8
  <2>3. ASSUME NEW w \in Writers, ForceAdd(w), snaps'[w].at = "failed", lock # "fresh"
        PROVE  \E f \in Files : work[f] = "locked" /\ f \in Forced
    <3>. DEFINE paths == {f \in Forced : work[f] # "absent"}
    <3>1. lock = "none"
      BY <1>1, <2>0, <2>3 DEF EngineInv, Unlocked, ForceAdd
    <3>2. "commit" \in Steps  BY DEF Steps
    <3>3. SnapMoves(w, "commit") => snaps'[w].at # "failed"  BY <2>0, <3>2, MovesTo
    <3>4. \E f \in paths : work[f] = "locked"  BY <2>3, <3>1, <3>3 DEF ForceAdd
    <3>5. QED  BY <3>4, EngineAssumption
  <2>4. QED  BY <2>2, <2>3 DEF FailsFor
<1>2. QED  BY <1>1, EngineInvHolds, PTL DEF EngineSpec, FailsOnlyFor
=============================================================================
