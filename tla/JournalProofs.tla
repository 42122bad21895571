---------------------------- MODULE JournalProofs ----------------------------
(* What the run over the journal checks, proved for any sessions and clock,   *)
(* any writers and ledger, and any rows.                                      *)
EXTENDS MCJournal, WellFoundedInduction, FiniteSetTheorems, TLAPS
-----------------------------------------------------------------------------
(* Overlap: timestamps that lost up to a second.                              *)

\* What an entry records of its real times.
Timestamped(e) ==
  /\ e.from \in Nat /\ e.to \in Nat /\ e.stamp \in Nat /\ e.took \in Nat
  /\ e.from <= e.to /\ e.to <= e.stamp
  /\ e.ts = Formatted(e.stamp)
  /\ e.timed \in BOOLEAN
  /\ e.dur \in Nat /\ e.dur <= (e.stamp - e.from) + e.took
  /\ e.timed => e.dur = (e.stamp - e.from) + e.took

Entry == [session : Sessions, from : Nat, to : Nat, stamp : Nat, ts : Int, timed : BOOLEAN,
          took : Nat, dur : Nat]

\* The times of a session's command come in their order.
InOrder(s) ==
  /\ began[s] # Idle => began[s] \in Nat /\ began[s] <= now
  /\ returned[s] # Idle =>
       began[s] # Idle /\ returned[s] \in Nat /\ began[s] <= returned[s] /\ returned[s] <= now
  /\ stamped[s] # Idle =>
       returned[s] # Idle /\ stamped[s] \in Nat /\ returned[s] <= stamped[s] /\ stamped[s] <= now

OverlapInv ==
  /\ now \in Nat
  /\ \A s \in Sessions : InOrder(s)
  /\ began \in [Sessions -> Nat \cup {Idle}]
  /\ returned \in [Sessions -> Nat \cup {Idle}]
  /\ stamped \in [Sessions -> Nat \cup {Idle}]
  /\ entries \in Seq(Entry)
  /\ \A i \in DOMAIN entries : Timestamped(entries[i])

\* Formatting loses less than a second.
LEMMA LostInFormat ==
  ASSUME NEW t \in Nat
  PROVE  Formatted(t) \in Int /\ Formatted(t) <= t /\ t < Formatted(t) + Second
<1>1. t % Second \in 0..(Second - 1)
  BY TimeAssumption
<1> QED
  BY <1>1, TimeAssumption DEF Formatted

\* A tick, and each step of a command and of its post, keep the invariant.
LEMMA OverlapStep ==
  ASSUME OverlapInv, Next
  PROVE  OverlapInv'
<1>1. CASE Tick
  BY <1>1, TimeAssumption DEF Tick, OverlapInv, Timestamped, InOrder
<1>2. ASSUME NEW s \in Sessions, Begin(s) PROVE OverlapInv'
  BY <1>2, TimeAssumption DEF Begin, OverlapInv, Timestamped, InOrder
<1>3. ASSUME NEW s \in Sessions, End(s) PROVE OverlapInv'
  BY <1>3, TimeAssumption DEF End, OverlapInv, Timestamped, InOrder
<1>4. ASSUME NEW s \in Sessions, Stamp(s) PROVE OverlapInv'
  BY <1>4, TimeAssumption DEF Stamp, OverlapInv, Timestamped, InOrder
<1>5. ASSUME NEW s \in Sessions, NEW pre \in {"memory", "journal", "directly"},
             Finish(s, pre)
      PROVE  OverlapInv'
  <2> DEFINE long == CASE pre = "memory"   -> now - began[s]
                       [] pre = "journal"  -> now - stamped[s]
                       [] pre = "directly" -> 0
             e == [session |-> s, from |-> began[s], to |-> returned[s], stamp |-> stamped[s],
                   ts |-> Formatted(stamped[s]), timed |-> pre = "memory",
                   took |-> now - stamped[s], dur |-> long]
  <2>1. /\ began[s] \in Nat /\ returned[s] \in Nat /\ stamped[s] \in Nat /\ now \in Nat
        /\ began[s] <= returned[s] /\ returned[s] <= stamped[s] /\ stamped[s] <= now
    BY <1>5 DEF Finish, OverlapInv, InOrder
  <2>2. Formatted(stamped[s]) \in Int /\ now - stamped[s] \in Nat
    BY <2>1, LostInFormat
  <2>3. /\ long \in Nat /\ long <= (stamped[s] - began[s]) + (now - stamped[s])
        /\ pre = "memory" => long = (stamped[s] - began[s]) + (now - stamped[s])
    BY <2>1
  <2>4. /\ entries' = Append(entries, e) /\ now' = now
        /\ began' = [began EXCEPT ![s] = Idle]
        /\ returned' = [returned EXCEPT ![s] = Idle]
        /\ stamped' = [stamped EXCEPT ![s] = Idle]
    BY <1>5 DEF Finish
  <2> HIDE DEF long
  <2>5. Timestamped(e)
    BY <2>1, <2>2, <2>3 DEF Timestamped
  <2>6. e \in Entry
    BY <2>1, <2>2, <2>3 DEF Entry
  <2> HIDE DEF e
  <2>7. entries' \in Seq(Entry) /\ \A i \in DOMAIN entries' : Timestamped(entries'[i])
    BY <2>4, <2>5, <2>6 DEF OverlapInv
  <2>8. \A i \in DOMAIN entries' : Timestamped(entries[i])'
    BY <2>7 DEF Timestamped
  <2>9. \A t \in Sessions : InOrder(t)'
    BY <2>4 DEF OverlapInv, InOrder
  <2>10. /\ began' \in [Sessions -> Nat \cup {Idle}] /\ returned' \in [Sessions -> Nat \cup {Idle}]
         /\ stamped' \in [Sessions -> Nat \cup {Idle}]
    BY <2>4 DEF OverlapInv
  <2> QED
    BY <2>1, <2>4, <2>7, <2>8, <2>9, <2>10 DEF OverlapInv
<1> QED
  BY <1>1, <1>2, <1>3, <1>4, <1>5 DEF Next

\* Where two timed entries share a second, each begins before the other's timestamp.
LEMMA SharedSecond ==
  ASSUME NEW e, NEW f, Timestamped(e), Timestamped(f), e.timed, f.timed,
         Common(e, f) >= Second
  PROVE  Intersect(e, f)
<1>1. /\ Formatted(e.stamp) \in Int /\ Formatted(e.stamp) <= e.stamp
      /\ e.stamp < Formatted(e.stamp) + Second
      /\ Formatted(f.stamp) \in Int /\ Formatted(f.stamp) <= f.stamp
      /\ f.stamp < Formatted(f.stamp) + Second
  BY LostInFormat DEF Timestamped
<1>2. f.to - e.from >= Second /\ e.to - f.from >= Second
  BY TimeAssumption DEF Common, Least, Greatest, Timestamped
<1> QED
  BY <1>1, <1>2, TimeAssumption DEF Intersect, Start, Timestamped

\* And where each does, they were not further apart than the recorded times reach.
LEMMA NearlyShared ==
  ASSUME NEW e, NEW f, Timestamped(e), Timestamped(f), Intersect(e, f)
  PROVE  Common(e, f) > -Reach(e, f)
<1> DEFINE far == e.took + (f.stamp - f.to)
           fae == f.took + (e.stamp - e.to)
<1>1. /\ Formatted(e.stamp) \in Int /\ Formatted(e.stamp) <= e.stamp
      /\ e.stamp < Formatted(e.stamp) + Second
      /\ Formatted(f.stamp) \in Int /\ Formatted(f.stamp) <= f.stamp
      /\ f.stamp < Formatted(f.stamp) + Second
  BY LostInFormat DEF Timestamped
<1>2. far \in Nat /\ fae \in Nat /\ Second \in Nat /\ Second > 0
  BY TimeAssumption DEF Timestamped
<1>3. f.to - e.from > -(Second + far)
  BY <1>1, TimeAssumption DEF Intersect, Start, Timestamped
<1>4. e.to - f.from > -(Second + fae)
  BY <1>1, TimeAssumption DEF Intersect, Start, Timestamped
<1>5. /\ Reach(e, f) = Second + Greatest(far, fae)
      /\ Greatest(far, fae) \in Nat /\ Greatest(far, fae) >= far /\ Greatest(far, fae) >= fae
  BY <1>2 DEF Reach, Greatest
<1> HIDE DEF far, fae
<1>6. Reach(e, f) \in Nat /\ Reach(e, f) > 0 /\ Reach(e, f) >= Second + far
      /\ Reach(e, f) >= Second + fae
  BY <1>2, <1>5
<1>7. e.from \in Nat /\ e.to \in Nat /\ f.from \in Nat /\ f.to \in Nat
      /\ e.from <= e.to /\ f.from <= f.to
  BY DEF Timestamped
<1> QED
  BY <1>2, <1>3, <1>4, <1>6, <1>7 DEF Common, Least, Greatest

\* What the flags promise follows.
LEMMA OverlapRight ==
  ASSUME OverlapInv
  PROVE  LongOverlapMarked /\ MarkedWasNear
<1>1. LongOverlapMarked
  BY SharedSecond DEF OverlapInv, LongOverlapMarked, Pairs, Timed, MarkOverlaps
<1>2. ASSUME NEW i \in MarkOverlaps(entries)
      PROVE  \E p \in Pairs : /\ p[1] = i
                              /\ Common(entries[i], entries[p[2]]) >
                                   -Reach(entries[i], entries[p[2]])
  <2>1. PICK j \in DOMAIN entries : /\ i \in DOMAIN entries
                                    /\ entries[i].session # entries[j].session
                                    /\ Intersect(entries[i], entries[j])
    BY <1>2 DEF MarkOverlaps
  <2>2. Common(entries[i], entries[j]) > -Reach(entries[i], entries[j])
    <3>1. Timestamped(entries[i]) /\ Timestamped(entries[j])
      BY <2>1 DEF OverlapInv
    <3> QED
      BY <2>1, <3>1, NearlyShared
  <2>3. <<i, j>> \in Pairs
    BY <2>1 DEF Pairs
  <2> WITNESS <<i, j>> \in Pairs
  <2>4. <<i, j>>[1] = i /\ <<i, j>>[2] = j
    OBVIOUS
  <2> QED
    BY <2>2, <2>4
<1> QED
  BY <1>1, <1>2 DEF MarkedWasNear
-----------------------------------------------------------------------------
(* Loops.  The induction theorems of the library take a predicate; here it is *)
(* the set of the numbers it holds of, and the loop's step a function.        *)

\* A set of numbers up to N that holds 0 and is closed under successor has them all.
LEMMA UpTo ==
  ASSUME NEW N \in Nat, NEW T, 0 \in T, \A n \in 0..(N - 1) : n \in T => n + 1 \in T
  PROVE  0..N \subseteq T
<1> DEFINE Less    == OpToRel(<, Nat)
           Missing == (0..N) \ T
<1>1. Missing \subseteq Nat
  OBVIOUS
<1>2. ASSUME NEW x \in Missing, \A y \in Missing : ~(y < x)
      PROVE  FALSE
  <2>1. x \in 1..N /\ x - 1 \in 0..(N - 1) /\ x - 1 \in T
    BY <1>2
  <2>2. (x - 1) + 1 = x
    BY <2>1
  <2> QED
    BY <1>2, <2>1, <2>2
<1> HIDE DEF Missing
<1>3. ASSUME Missing # {} PROVE FALSE
  <2>1. IsWellFoundedOn(Less, Nat)
    BY NatLessThanWellFounded
  <2>2. PICK x \in Missing : \A y \in Missing : <<y, x>> \notin Less
    <3> HIDE DEF Less
    <3> QED
      BY <1>1, <1>3, <2>1, WFMin
  <2>3. \A y \in Missing : ~(y < x)
    BY <1>1, <2>2 DEF OpToRel
  <2> QED
    BY <1>2, <2>3
<1> QED
  BY <1>3 DEF Missing

\* The steps of a loop over 1..N that changes a value of V, and its runs.
Steps(N, V) == [1..N -> [V -> V]]
RunsOf(N, V, start, step) ==
  {run \in [0..N -> V] :
     run[0] = start /\ \A n \in 1..N : run[n] = step[n][run[n - 1]]}

\* A loop has a run.
LEMMA LoopRuns ==
  ASSUME NEW N \in Nat, NEW V, NEW start \in V, NEW step \in Steps(N, V)
  PROVE  RunsOf(N, V, start, step) # {}
<1> USE DEF Steps
<1> DEFINE Runs(m, r) == /\ r \in [0..m -> V] /\ r[0] = start
                         /\ \A n \in 1..m : r[n] = step[n][r[n - 1]]
           T == {m \in 0..N : \E r : Runs(m, r)}
<1>1. 0 \in T
  <2>1. Runs(0, [n \in 0..0 |-> start])
    OBVIOUS
  <2> HIDE DEF Runs
  <2> QED
    BY <2>1
<1>2. ASSUME NEW m \in 0..(N - 1), m \in T PROVE m + 1 \in T
  <2>1. PICK r : Runs(m, r)
    <3> HIDE DEF Runs
    <3> QED
      BY <1>2
  <2> DEFINE q == [n \in 0..(m + 1) |-> IF n = m + 1 THEN step[m + 1][r[m]] ELSE r[n]]
  <2>2. step[m + 1][r[m]] \in V
    BY <2>1
  <2>3. q \in [0..(m + 1) -> V] /\ q[0] = start
    BY <2>1, <2>2
  <2>4. ASSUME NEW n \in 1..(m + 1) PROVE q[n] = step[n][q[n - 1]]
    <3>1. CASE n = m + 1
      BY <3>1
    <3>2. CASE n # m + 1
      BY <2>1, <3>2
    <3> QED
      BY <3>1, <3>2
  <2>5. Runs(m + 1, q)
    BY <2>3, <2>4
  <2> HIDE DEF Runs
  <2> QED
    BY <2>5
<1>3. N \in T
  <2> HIDE DEF T
  <2>1. 0..N \subseteq T
    BY <1>1, <1>2, UpTo
  <2> QED
    BY <2>1
<1> HIDE DEF Runs
<1>4. PICK r : Runs(N, r)
  BY <1>3
<1> QED
  BY <1>4 DEF Runs, RunsOf
-----------------------------------------------------------------------------
(* What a repair sorts out.                                                   *)

Line == [good : BOOLEAN, rows : SUBSET Writers]

\* Sorted is the end of its loop.
LEMMA SortedLoop ==
  ASSUME NEW s \in Seq(Line), NEW good \in BOOLEAN
  PROVE  \E out \in [0..Len(s) -> Seq(Line)] :
           /\ File!Sorted(s, good) = out[Len(s)]
           /\ out[0] = <<>>
           /\ \A n \in 1..Len(s) :
                out[n] = IF s[n].good = good THEN Append(out[n - 1], s[n]) ELSE out[n - 1]
<1> DEFINE N == Len(s)
           V == Seq(Line)
           none == <<>>
           Next1(n, v) == IF s[n].good = good THEN Append(v, s[n]) ELSE v
           step == [n \in 1..N |-> [v \in V |-> Next1(n, v)]]
           Body(out) == [n \in 0..N |-> IF n = 0 THEN none ELSE Next1(n, out[n - 1])]
           last == CHOOSE out : out = Body(out)
           T == {n \in 0..N : last[n] \in V}
<1>1. /\ N \in Nat /\ none \in V
      /\ \A n \in 1..N : \A v \in V : Next1(n, v) \in V
  OBVIOUS
<1>2. File!Sorted(s, good) = last[N]
  BY DEF File!Sorted, File!Good
<1>3. SUFFICES \E out \in [0..N -> V] :
                 /\ last[N] = out[N] /\ out[0] = none
                 /\ \A n \in 1..N : out[n] = Next1(n, out[n - 1])
  BY <1>2
<1> HIDE DEF N, V, none, Next1
<1>4. step \in Steps(N, V)
  BY <1>1 DEF Steps
<1>5. PICK run \in RunsOf(N, V, none, step) : TRUE
  <2> HIDE DEF step
  <2> QED
    BY <1>1, <1>4, LoopRuns
<1>6. ASSUME NEW n \in 1..N
      PROVE  run[n] = Next1(n, run[n - 1])
  <2>1. n - 1 \in 0..N
    BY <1>1
  <2> QED
    BY <1>5, <2>1 DEF RunsOf
<1>7. run = Body(run)
  BY <1>1, <1>5, <1>6 DEF RunsOf
<1>8. last = Body(last)
  <2> HIDE DEF Body
  <2> QED
    BY <1>7
<1> HIDE DEF last
<1>9. /\ last[0] = none /\ last = [n \in 0..N |-> last[n]]
      /\ \A n \in 1..N : last[n] = Next1(n, last[n - 1])
  <2>1. DOMAIN last = 0..N /\ last = [n \in DOMAIN last |-> last[n]]
    BY <1>8
  <2>2. last[0] = none
    BY <1>1, <1>8
  <2>3. ASSUME NEW n \in 1..N PROVE last[n] = Next1(n, last[n - 1])
    BY <1>1, <1>8
  <2> QED
    BY <2>1, <2>2, <2>3
<1>10. 0 \in T /\ \A n \in 0..(N - 1) : n \in T => n + 1 \in T
  <2>1. ASSUME NEW n \in 0..(N - 1), n \in T PROVE n + 1 \in T
    <3>1. n + 1 \in 1..N /\ (n + 1) - 1 = n
      BY <1>1
    <3>2. last[n + 1] = Next1(n + 1, last[n]) /\ last[n] \in V
      BY <1>9, <2>1, <3>1
    <3> QED
      BY <1>1, <3>1, <3>2
  <2>2. last[0] \in V /\ 0 \in 0..N
    BY <1>1, <1>9
  <2> QED
    BY <2>1, <2>2
<1>11. 0..N \subseteq T
  <2> HIDE DEF T
  <2> QED
    BY <1>1, <1>10, UpTo
<1> QED
  BY <1>9, <1>11

\* Sorted keeps the lines of its kind, and no row of theirs gets lost.
LEMMA SortedKeeps ==
  ASSUME NEW s \in Seq(Line), NEW good \in BOOLEAN
  PROVE  LET of == File!Sorted(s, good)
         IN  /\ of \in Seq(Line)
             /\ \A i \in DOMAIN of : of[i].good = good /\ \E j \in DOMAIN s : of[i] = s[j]
             /\ \A j \in DOMAIN s : s[j].good = good =>
                  \A w \in s[j].rows : \E i \in DOMAIN of : w \in of[i].rows
<1>1. PICK out \in [0..Len(s) -> Seq(Line)] :
        /\ File!Sorted(s, good) = out[Len(s)]
        /\ out[0] = <<>>
        /\ \A n \in 1..Len(s) :
             out[n] = IF s[n].good = good THEN Append(out[n - 1], s[n]) ELSE out[n - 1]
  BY SortedLoop
<1> DEFINE Has(v, w) == \E i \in DOMAIN v : w \in v[i].rows
           From(l)   == l.good = good /\ \E j \in DOMAIN s : l = s[j]
           Kept(n)   == /\ \A i \in DOMAIN out[n] : From(out[n][i])
                        /\ \A j \in 1..n : s[j].good = good =>
                             \A w \in s[j].rows : Has(out[n], w)
           T == {n \in 0..Len(s) : Kept(n)}
<1> HIDE DEF From
<1>2. Len(s) \in Nat /\ \A n \in 1..Len(s) : s[n] \in Line
  OBVIOUS
<1>3. 0 \in T
  BY <1>1, <1>2
<1>4. ASSUME NEW n \in 0..(Len(s) - 1), n \in T PROVE n + 1 \in T
  <2>1. n + 1 \in 1..Len(s) /\ (n + 1) - 1 = n /\ n \in 0..Len(s)
    BY <1>2
  <2>2. out[n + 1] = IF s[n + 1].good = good THEN Append(out[n], s[n + 1]) ELSE out[n]
    BY <1>1, <2>1
  <2>3. Kept(n) /\ out[n] \in Seq(Line) /\ s[n + 1] \in Line
    BY <1>2, <1>4, <2>1
  <2>4. CASE s[n + 1].good = good
    <3>1. DOMAIN out[n + 1] = 1..(Len(out[n]) + 1) /\ DOMAIN out[n] = 1..Len(out[n])
      BY <2>2, <2>3, <2>4
    <3>2. /\ \A i \in DOMAIN out[n] : out[n + 1][i] = out[n][i]
          /\ out[n + 1][Len(out[n]) + 1] = s[n + 1]
      BY <2>2, <2>3, <2>4
    <3>3. \A i \in DOMAIN out[n + 1] : From(out[n + 1][i])
      <4>1. From(s[n + 1])
        BY <1>2, <2>1, <2>4 DEF From
      <4> QED
        BY <2>3, <3>1, <3>2, <4>1
    <3>4. ASSUME NEW w, Has(out[n], w) PROVE Has(out[n + 1], w)
      BY <2>3, <3>1, <3>2, <3>4
    <3>5. \A w \in s[n + 1].rows : Has(out[n + 1], w)
      <4>1. Len(out[n]) + 1 \in DOMAIN out[n + 1]
        BY <2>3, <3>1
      <4> QED
        BY <3>2, <4>1
    <3>6. ASSUME NEW j \in 1..(n + 1), s[j].good = good, NEW w \in s[j].rows
          PROVE  Has(out[n + 1], w)
      <4> HIDE DEF Has
      <4>1. CASE j = n + 1
        BY <3>5, <4>1
      <4>2. CASE j # n + 1
        <5>1. j \in 1..n
          BY <4>2
        <5> QED
          BY <2>3, <3>4, <3>6, <5>1
      <4> QED
        BY <4>1, <4>2
    <3> QED
      BY <2>1, <3>3, <3>6
  <2>5. CASE s[n + 1].good # good
    <3>1. out[n + 1] = out[n]
      BY <2>2, <2>5
    <3>2. \A j \in 1..(n + 1) : s[j].good = good => j \in 1..n
      BY <1>2, <2>5
    <3>3. Kept(n + 1)
      <4> HIDE DEF Has
      <4> QED
        BY <2>3, <3>1, <3>2
    <3> QED
      BY <2>1, <3>3
  <2> QED
    BY <2>4, <2>5
<1>5. 0..Len(s) \subseteq T
  <2> HIDE DEF T
  <2> QED
    BY <1>2, <1>3, <1>4, UpTo
<1>6. Kept(Len(s)) /\ out[Len(s)] \in Seq(Line)
  BY <1>2, <1>5
<1> QED
  BY <1>1, <1>6 DEF From
-----------------------------------------------------------------------------
(* The file: appends, tears and repairs.                                      *)

FileTypeOK ==
  /\ path \in File!Inodes
  /\ lines \in [File!Inodes -> Seq(Line)]
  /\ ended \in [File!Inodes -> BOOLEAN]
  /\ flock \in [File!Inodes -> File!Procs \cup {NoOwner}]
  /\ fd \in [File!Procs -> File!Inodes]
  /\ stage \in [File!Procs -> {"start", "opened", "locked", "read", "rename", "done"}]
  /\ read \in [Repairers -> Seq(Line)]
  /\ acked \subseteq Writers /\ strays \subseteq Writers /\ bad \subseteq Writers

\* A file without a newline at its end has a line there.
HasLast == \A i \in File!Inodes : ~ended[i] => lines[i] # <<>>

\* Between its lock and its end a process has the flock of the file it opened.
Locked ==
  \A p \in File!Procs : stage[p] \in {"locked", "read", "rename"} => flock[fd[p]] = p

WritersWrite == \A w \in Writers : stage[w] \notin {"read", "rename"}

\* Nobody has the file of a repair before the repair is over.
Unpublished ==
  \A r \in Repairers : stage[r] # "done" =>
    path # r /\ ended[r] /\ \A p \in File!Procs : fd[p] # r

\* A row is acknowledged, and found in a line, once its writer is done.
Done          == {w \in Writers : stage[w] = "done"}
Within(s, ws) == \A k \in DOMAIN s : s[k].rows \subseteq ws
Written ==
  /\ acked \subseteq Done
  /\ \A i \in File!Inodes : Within(lines[i], Done)
  /\ \A r \in Repairers : Within(read[r], Done)

\* A line that parses without its newline is of a writer that died.
TornUnacked ==
  \A i \in File!Inodes : ~ended[i] /\ Last(lines[i]).good =>
    Last(lines[i]).rows \cap acked = {}

\* A repair about to rename has the good lines in its file, the others in journal.bad.
SortedOut ==
  \A r \in Repairers : stage[r] = "rename" =>
    /\ lines[r] = File!Sorted(read[r], TRUE)
    /\ \A k \in DOMAIN read[r] : ~read[r][k].good => read[r][k].rows \subseteq bad

FileInv ==
  /\ FileTypeOK /\ HasLast /\ Locked /\ WritersWrite /\ Unpublished /\ Written
  /\ TornUnacked /\ SortedOut

\* What a writer's line makes of a file.
With(i, w, good) ==
  IF ended[i] THEN Append(lines[i], [good |-> good, rows |-> {w}])
              ELSE File!Glued(lines[i], w, FALSE)

\* A writer's line goes to the end of the file, or onto the line a tear left there.
LEMMA WithLine ==
  ASSUME FileTypeOK, HasLast, NEW i \in File!Inodes, NEW w \in Writers, NEW good \in BOOLEAN
  PROVE  LET old == lines[i]
             new == With(i, w, good)
         IN  /\ old \in Seq(Line) /\ new \in Seq(Line) /\ new # <<>>
             /\ Len(new) = IF ended[i] THEN Len(old) + 1 ELSE Len(old)
             /\ \A k \in DOMAIN old : k # Len(new) => new[k] = old[k]
             /\ Last(new) = IF ended[i] THEN [good |-> good, rows |-> {w}]
                            ELSE [good |-> FALSE, rows |-> Last(old).rows \cup {w}]
<1> DEFINE old == lines[i]
<1>1. old \in Seq(Line) /\ ended[i] \in BOOLEAN
  BY DEF FileTypeOK
<1>2. CASE ended[i]
  BY <1>1, <1>2 DEF With, Last, Line
<1>3. CASE ~ended[i]
  <2> DEFINE l == [good |-> FALSE, rows |-> old[Len(old)].rows \cup {w}]
             front == SubSeq(old, 1, Len(old) - 1)
  <2>1. Len(old) \in Nat \ {0} /\ old[Len(old)] \in Line
    BY <1>1, <1>3 DEF HasLast
  <2>2. l \in Line /\ l = [good |-> FALSE, rows |-> Last(old).rows \cup {w}]
    BY <2>1 DEF Line, Last
  <2>3. /\ front \in Seq(Line) /\ Len(front) = Len(old) - 1
        /\ \A k \in 1..(Len(old) - 1) : front[k] = old[k]
    BY <1>1, <2>1
  <2>4. With(i, w, good) = front \o <<l>>
    BY <1>3 DEF With, File!Glued, File!Front, File!Last
  <2> HIDE DEF l, front
  <2>5. /\ front \o <<l>> \in Seq(Line) /\ Len(front \o <<l>>) = Len(old)
        /\ \A k \in 1..(Len(old) - 1) : (front \o <<l>>)[k] = old[k]
        /\ (front \o <<l>>)[Len(old)] = l
    <3>1. <<l>> \in Seq(Line) /\ Len(<<l>>) = 1 /\ <<l>>[1] = l
      BY <2>2
    <3> QED
      BY <2>1, <2>3, <3>1
  <2> DEFINE new == With(i, w, good)
  <2>6. /\ new \in Seq(Line) /\ Len(new) = Len(old) /\ new[Len(old)] = l
        /\ \A k \in 1..(Len(old) - 1) : new[k] = old[k]
    BY <2>4, <2>5
  <2> HIDE DEF new
  <2>7. \A k \in DOMAIN old : k # Len(new) => new[k] = old[k]
    BY <1>1, <2>6
  <2>8. new # <<>> /\ Last(new) = l
    BY <2>1, <2>6 DEF Last
  <2> QED
    BY <1>1, <1>3, <2>2, <2>6, <2>7, <2>8 DEF new
<1> QED
  BY <1>2, <1>3

\* A writer's step, whole or torn: its line is added, its flock given up.
WriterEnds(w, good, whole) ==
  /\ stage[w] = "locked"
  /\ lines' = [lines EXCEPT ![fd[w]] = With(fd[w], w, good)]
  /\ ended' = [ended EXCEPT ![fd[w]] = whole]
  /\ flock' = [flock EXCEPT ![fd[w]] = NoOwner]
  /\ stage' = [stage EXCEPT ![w] = "done"]
  /\ acked' = (IF whole THEN acked \cup {w} ELSE acked)
  /\ strays' = (IF whole THEN File!Strays(w) ELSE strays)
  /\ whole => good
  /\ UNCHANGED <<path, fd, read, bad>>

\* A write and a tear both end a writer, with a line or a part of one.
LEMMA WriterSteps ==
  ASSUME FileTypeOK, NEW w \in Writers, File!Write(w) \/ File!Tear(w)
  PROVE  \E good, whole \in BOOLEAN : WriterEnds(w, good, whole)
<1>1. fd[w] \in File!Inodes /\ ended[fd[w]] \in BOOLEAN
  BY DEF FileTypeOK, File!Procs
<1>2. CASE File!Write(w)
  <2>1. WriterEnds(w, TRUE, TRUE)
    BY <1>1, <1>2 DEF File!Write, File!Unlock, File!Goto, WriterEnds, With, FileTypeOK
  <2> QED
    BY <2>1
<1>3. CASE File!Tear(w)
  <2>1. PICK good \in {ended[fd[w]], FALSE} :
          lines' = [lines EXCEPT ![fd[w]] =
                      IF ended[fd[w]] THEN Append(@, [good |-> good, rows |-> {w}])
                                      ELSE File!Glued(@, w, FALSE)]
    BY <1>3 DEF File!Tear
  <2>2. WriterEnds(w, good, FALSE)
    BY <1>1, <1>3, <2>1 DEF File!Tear, File!Unlock, File!Goto, WriterEnds, With, FileTypeOK
  <2> QED
    BY <1>1, <2>2
<1> QED
  BY <1>2, <1>3

\* A writer's end keeps the file invariant.
LEMMA WriterKeepsFile ==
  ASSUME FileInv, ProcsAssumption, NEW w \in Writers,
         NEW good \in BOOLEAN, NEW whole \in BOOLEAN, WriterEnds(w, good, whole)
  PROVE  FileInv'
<1> DEFINE i   == fd[w]
           new == With(i, w, good)
<1>1. /\ w \in File!Procs /\ i \in File!Inodes /\ w \notin Repairers
      /\ flock[i] = w /\ w \notin acked /\ stage[w] = "locked"
  BY DEF FileInv, FileTypeOK, File!Procs, Locked, Written, Done, WriterEnds
<1>2. /\ lines[i] \in Seq(Line) /\ new \in Seq(Line) /\ new # <<>>
      /\ Len(new) = IF ended[i] THEN Len(lines[i]) + 1 ELSE Len(lines[i])
      /\ \A k \in DOMAIN lines[i] : k # Len(new) => new[k] = lines[i][k]
      /\ Last(new) = IF ended[i] THEN [good |-> good, rows |-> {w}]
                     ELSE [good |-> FALSE, rows |-> Last(lines[i]).rows \cup {w}]
  <2>1. FileTypeOK /\ HasLast
    BY DEF FileInv
  <2> HIDE DEF i
  <2> QED
    BY <1>1, <2>1, WithLine
<1> USE DEF FileInv
<1> HIDE DEF new
<1>3. /\ lines' = [lines EXCEPT ![i] = new] /\ lines'[i] = new
      /\ \A j \in File!Inodes \ {i} : lines'[j] = lines[j] /\ ended'[j] = ended[j]
      /\ ended'[i] = whole /\ flock'[i] = NoOwner
      /\ stage' = [stage EXCEPT ![w] = "done"]
  BY <1>1 DEF WriterEnds, FileTypeOK, new
<1>4. FileTypeOK'
  <2>1. lines' \in [File!Inodes -> Seq(Line)]
    BY <1>2, <1>3 DEF FileTypeOK
  <2> QED
    BY <1>1, <2>1 DEF FileTypeOK, WriterEnds, File!Strays
<1>5. HasLast'
  BY <1>2, <1>3 DEF HasLast
<1>6. Locked'
  <2> SUFFICES ASSUME NEW p \in File!Procs, stage'[p] \in {"locked", "read", "rename"}
               PROVE  flock'[fd'[p]] = p
    BY DEF Locked
  <2>1. p # w /\ stage'[p] = stage[p] /\ fd'[p] = fd[p] /\ flock[fd[p]] = p
    BY <1>1, <1>3 DEF FileTypeOK, Locked, WriterEnds
  <2> QED
    BY <1>1, <2>1 DEF WriterEnds, FileTypeOK
<1>7. WritersWrite' /\ SortedOut'
  <2>1. WritersWrite'
    BY <1>1, <1>3 DEF WritersWrite, FileTypeOK, File!Procs
  <2>2. ASSUME NEW r \in Repairers, stage'[r] = "rename"
        PROVE  /\ lines'[r] = File!Sorted(read'[r], TRUE)
               /\ \A k \in DOMAIN read'[r] : ~read'[r][k].good => read'[r][k].rows \subseteq bad'
    <3>1. stage[r] = "rename"
      BY <1>1, <1>3, <2>2 DEF FileTypeOK, File!Procs
    <3>2. r # i
      <4>1. w \in File!Procs /\ fd[w] # r
        BY <1>1, <3>1 DEF Unpublished, File!Procs
      <4> QED
        BY <4>1
    <3>3. lines'[r] = lines[r] /\ read' = read /\ bad' = bad
      BY <1>3, <3>2 DEF WriterEnds, File!Inodes
    <3> QED
      BY <3>1, <3>3 DEF SortedOut
  <2> QED
    BY <2>1, <2>2 DEF SortedOut
<1>8. Unpublished'
  <2> SUFFICES ASSUME NEW r \in Repairers, stage'[r] # "done"
               PROVE  path' # r /\ ended'[r] /\ \A p \in File!Procs : fd'[p] # r
    BY DEF Unpublished
  <2>1. stage[r] # "done" /\ path # r /\ ended[r] /\ \A p \in File!Procs : fd[p] # r
    BY <1>1, <1>3 DEF Unpublished, FileTypeOK, File!Procs
  <2>2. r \in File!Inodes \ {i}
    BY <1>1, <2>1 DEF File!Inodes
  <2> QED
    BY <1>3, <2>1, <2>2 DEF WriterEnds
<1>9. Written'
  <2>1. Done \cup {w} \subseteq Done'
    BY <1>1, <1>3 DEF Done, FileTypeOK, File!Procs
  <2>2. acked' \subseteq Done'
    BY <2>1 DEF Written, WriterEnds
  <2>3. \A k \in DOMAIN new : new[k].rows \subseteq Done'
    <3> SUFFICES ASSUME NEW k \in DOMAIN new PROVE new[k].rows \subseteq Done'
      OBVIOUS
    <3>1. \A m \in DOMAIN lines[i] : lines[i][m].rows \subseteq Done'
      BY <1>1, <2>1 DEF Written, Within
    <3>2. CASE k # Len(new)
      <4>1. k \in DOMAIN lines[i] /\ new[k] = lines[i][k]
        BY <1>1, <1>2, <3>2
      <4> QED
        BY <3>1, <4>1
    <3>3. CASE k = Len(new) /\ ended[i]
      BY <1>2, <2>1, <3>3 DEF Last
    <3>4. CASE k = Len(new) /\ ~ended[i]
      <4>1. Len(lines[i]) \in DOMAIN lines[i] /\ Last(lines[i]) = lines[i][Len(lines[i])]
        BY <1>1, <1>2, <3>4 DEF HasLast, Last
      <4>2. Last(lines[i]).rows \subseteq Done'
        BY <3>1, <4>1
      <4>3. new[k].rows = Last(lines[i]).rows \cup {w}
        BY <1>2, <3>4 DEF Last
      <4> QED
        BY <2>1, <4>2, <4>3
    <3> QED
      BY <3>2, <3>3, <3>4
  <2>4. ASSUME NEW j \in File!Inodes
        PROVE  \A k \in DOMAIN lines'[j] : lines'[j][k].rows \subseteq Done'
    BY <1>3, <2>1, <2>3 DEF Written, Within
  <2>5. ASSUME NEW r \in Repairers PROVE \A k \in DOMAIN read'[r] : read'[r][k].rows \subseteq Done'
    BY <2>1 DEF Written, Within, WriterEnds
  <2> QED
    BY <2>2, <2>4, <2>5 DEF Written, Within
<1>10. TornUnacked'
  <2> SUFFICES ASSUME NEW j \in File!Inodes, ~ended'[j], Last(lines'[j]).good
               PROVE  Last(lines'[j]).rows \cap acked' = {}
    BY DEF TornUnacked
  <2>1. CASE j = i
    <3>1. ~whole /\ acked' = acked /\ ended[i] \in BOOLEAN
      BY <1>1, <1>3, <2>1 DEF WriterEnds, FileTypeOK
    <3>2. Last(new) = [good |-> good, rows |-> {w}]
      BY <1>2, <1>3, <2>1, <3>1
    <3> QED
      BY <1>1, <1>3, <2>1, <3>1, <3>2
  <2>2. CASE j # i
    <3>1. /\ ~ended[j] /\ Last(lines[j]).good /\ lines'[j] = lines[j]
          /\ Last(lines[j]).rows \cap acked = {}
      BY <1>3, <2>2 DEF TornUnacked
    <3>2. w \notin Last(lines[j]).rows
      <4>1. lines[j] \in Seq(Line) /\ lines[j] # <<>>
        BY <3>1 DEF FileTypeOK, HasLast
      <4>2. Len(lines[j]) \in DOMAIN lines[j] /\ Last(lines[j]) = lines[j][Len(lines[j])]
        BY <4>1 DEF Last
      <4> QED
        BY <1>1, <4>2 DEF Written, Within, Done
    <3>3. acked' \subseteq acked \cup {w}
      BY DEF WriterEnds
    <3> QED
      BY <3>1, <3>2, <3>3
  <2> QED
    BY <2>1, <2>2
<1> QED
  BY <1>4, <1>5, <1>6, <1>7, <1>8, <1>9, <1>10

\* Opening the file and waiting for its flock keep it.
LEMMA OpenAndLock ==
  ASSUME FileInv, ProcsAssumption, NEW p \in File!Procs, File!Open(p) \/ File!Lock(p)
  PROVE  FileInv'
<1> USE DEF FileInv
<1>1. /\ UNCHANGED <<path, lines, ended, read, acked, strays, bad>>
      /\ stage[p] \notin {"done", "locked", "read", "rename"}
      /\ \/ stage' = [stage EXCEPT ![p] = "opened"] /\ fd' = [fd EXCEPT ![p] = path]
            /\ flock' = flock
         \/ /\ stage' = [stage EXCEPT ![p] = "locked"] /\ fd' = fd
            /\ flock[fd[p]] = NoOwner /\ flock' = [flock EXCEPT ![fd[p]] = p]
  BY DEF File!Open, File!Lock, File!Goto
<1>2. FileTypeOK'
  <2>1. fd' \in [File!Procs -> File!Inodes]
    BY <1>1 DEF FileTypeOK
  <2>2. flock' \in [File!Inodes -> File!Procs \cup {NoOwner}]
    BY <1>1 DEF FileTypeOK
  <2> QED
    BY <1>1, <2>1, <2>2 DEF FileTypeOK
<1>3. /\ \A q \in File!Procs \ {p} : stage'[q] = stage[q] /\ fd'[q] = fd[q]
      /\ stage'[p] \in {"opened", "locked"} /\ fd'[p] \in {fd[p], path}
  BY <1>1 DEF FileTypeOK
<1>4. Locked'
  <2> SUFFICES ASSUME NEW q \in File!Procs, stage'[q] \in {"locked", "read", "rename"}
               PROVE  flock'[fd'[q]] = q
    BY DEF Locked
  <2>1. CASE q = p
    BY <1>1, <2>1 DEF FileTypeOK
  <2>2. CASE q # p
    <3>1. flock[fd[q]] = q /\ fd'[q] = fd[q] /\ q # NoOwner
      BY <1>3, <2>2, ProcsAssumption DEF Locked
    <3> QED
      BY <1>1, <3>1 DEF FileTypeOK
  <2> QED
    BY <2>1, <2>2
<1>5. Done' = Done
  BY <1>1, <1>3 DEF Done, File!Procs
<1>6. HasLast' /\ TornUnacked' /\ Written'
  BY <1>1, <1>5 DEF HasLast, TornUnacked, Written, Within
<1>7. WritersWrite' /\ SortedOut'
  <2>1. \A r \in Repairers : stage'[r] = "rename" => stage[r] = "rename"
    BY <1>3 DEF File!Procs
  <2> QED
    BY <1>1, <1>3, <2>1 DEF WritersWrite, SortedOut, File!Procs
<1>8. Unpublished'
  BY <1>1, <1>3 DEF Unpublished, File!Procs
<1> QED
  BY <1>2, <1>4, <1>6, <1>7, <1>8

\* The steps of a repair keep it.
LEMMA RepairKeepsFile ==
  ASSUME FileInv, ProcsAssumption, NEW r \in Repairers,
         File!RepairReads(r) \/ File!RepairQuarantines(r) \/ File!RepairRenames(r)
  PROVE  FileInv'
<1> USE DEF FileInv
<1>1. r \in File!Procs /\ r \in File!Inodes /\ r \notin Writers /\ r # NoOwner
  BY ProcsAssumption DEF File!Procs, File!Inodes
<1>2. CASE File!RepairReads(r)
  <2>1. PICK to \in {"read", "done"} :
          /\ stage[r] = "locked" /\ stage' = [stage EXCEPT ![r] = to]
          /\ flock' = IF to = "done" THEN [flock EXCEPT ![fd[r]] = NoOwner] ELSE flock
    BY <1>2 DEF File!RepairReads, File!Goto, File!Unlock
  <2>2. /\ read' = [read EXCEPT ![r] = lines[path]]
        /\ UNCHANGED <<path, lines, ended, fd, acked, strays, bad>>
    BY <1>2 DEF File!RepairReads
  <2>3. FileTypeOK'
    BY <1>1, <2>1, <2>2 DEF FileTypeOK
  <2>4. Done' = Done
    BY <1>1, <2>1 DEF Done, FileTypeOK
  <2>5. HasLast' /\ TornUnacked' /\ Unpublished'
    BY <1>1, <2>1, <2>2 DEF HasLast, TornUnacked, Unpublished, FileTypeOK
  <2>6. Locked'
    <3> SUFFICES ASSUME NEW q \in File!Procs, stage'[q] \in {"locked", "read", "rename"}
                 PROVE  flock'[fd'[q]] = q
      BY DEF Locked
    <3>1. flock[fd[q]] = q /\ fd'[q] = fd[q] /\ flock[fd[r]] = r
      BY <1>1, <2>1, <2>2 DEF Locked, FileTypeOK
    <3>2. CASE to = "read"
      BY <2>1, <3>1, <3>2
    <3>3. CASE to = "done"
      <4>1. q # r
        BY <1>1, <2>1, <3>3 DEF FileTypeOK
      <4> QED
        BY <1>1, <2>1, <3>1, <3>3, <4>1 DEF FileTypeOK
    <3> QED
      BY <3>2, <3>3
  <2>7. WritersWrite' /\ SortedOut'
    <3>1. \A q \in Repairers : stage'[q] = "rename" => q # r /\ stage[q] = "rename"
      BY <1>1, <2>1 DEF FileTypeOK
    <3>2. \A q \in Repairers : q # r => read'[q] = read[q]
      BY <2>2 DEF FileTypeOK
    <3>3. SortedOut'
      BY <2>2, <3>1, <3>2 DEF SortedOut
    <3>4. WritersWrite'
      BY <1>1, <2>1 DEF WritersWrite, FileTypeOK, File!Procs
    <3> QED
      BY <3>3, <3>4
  <2>8. Written'
    <3>1. ASSUME NEW q \in Repairers PROVE Within(read'[q], Done)
      BY <2>2 DEF Written, FileTypeOK
    <3> QED
      BY <2>2, <2>4, <3>1 DEF Written, Within
  <2> QED
    BY <2>3, <2>5, <2>6, <2>7, <2>8
<1>3. CASE File!RepairQuarantines(r)
  <2> DEFINE good == File!Sorted(read[r], TRUE)
             worse == File!Sorted(read[r], FALSE)
  <2>1. /\ stage[r] = "read" /\ stage' = [stage EXCEPT ![r] = "rename"]
        /\ bad' = bad \cup File!RowsOf(worse) /\ lines' = [lines EXCEPT ![r] = good]
        /\ UNCHANGED <<path, ended, flock, fd, read, acked, strays>>
    BY <1>3 DEF File!RepairQuarantines, File!Goto
  <2>2. read[r] \in Seq(Line)
    BY DEF FileTypeOK
  <2>3. /\ good \in Seq(Line)
        /\ \A i \in DOMAIN good : \E j \in DOMAIN read[r] : good[i] = read[r][j]
    BY <2>2, SortedKeeps
  <2>4. /\ worse \in Seq(Line)
        /\ \A j \in DOMAIN read[r] : ~read[r][j].good =>
             \A w \in read[r][j].rows : \E i \in DOMAIN worse : w \in worse[i].rows
    <3>1. \A j \in DOMAIN read[r] : read[r][j].good \in BOOLEAN
      <4>1. \A j \in DOMAIN read[r] : read[r][j] \in Line
        BY <2>2
      <4> QED
        BY <4>1 DEF Line
    <3> QED
      BY <2>2, <3>1, SortedKeeps
  <2> HIDE DEF good, worse
  <2>5. File!RowsOf(worse) \subseteq Writers
    <3>1. \A i \in DOMAIN worse : worse[i] \in Line
      BY <2>4
    <3> QED
      BY <3>1 DEF File!RowsOf, Line
  <2>6. FileTypeOK'
    BY <1>1, <2>1, <2>3, <2>5 DEF FileTypeOK
  <2>7. Done' = Done
    BY <1>1, <2>1 DEF Done, FileTypeOK
  <2>8. HasLast' /\ TornUnacked' /\ Unpublished'
    <3>1. ended[r]
      BY <2>1 DEF Unpublished
    <3>2. \A i \in File!Inodes : i # r => lines'[i] = lines[i]
      BY <2>1 DEF FileTypeOK
    <3> QED
      BY <1>1, <2>1, <3>1, <3>2 DEF HasLast, TornUnacked, Unpublished, FileTypeOK
  <2>9. Locked'
    BY <1>1, <2>1 DEF Locked, FileTypeOK
  <2>10. WritersWrite' /\ SortedOut'
    <3>1. WritersWrite'
      BY <1>1, <2>1 DEF WritersWrite, FileTypeOK, File!Procs
    <3>2. ASSUME NEW q \in Repairers, stage'[q] = "rename"
          PROVE  /\ lines'[q] = File!Sorted(read'[q], TRUE)
                 /\ \A k \in DOMAIN read'[q] : ~read'[q][k].good => read'[q][k].rows \subseteq bad'
      <4>1. CASE q = r
        <5>1. lines'[r] = good /\ read' = read
          BY <1>1, <2>1 DEF FileTypeOK
        <5>2. \A k \in DOMAIN read[r] : ~read[r][k].good => read[r][k].rows \subseteq bad'
          BY <2>1, <2>4 DEF File!RowsOf
        <5> QED
          BY <4>1, <5>1, <5>2 DEF good
      <4>2. CASE q # r
        <5>1. stage[q] = "rename" /\ lines'[q] = lines[q]
          BY <1>1, <2>1, <3>2, <4>2 DEF FileTypeOK, File!Procs, File!Inodes
        <5> QED
          BY <2>1, <5>1 DEF SortedOut
      <4> QED
        BY <4>1, <4>2
    <3> QED
      BY <3>1, <3>2 DEF SortedOut
  <2>11. Written'
    <3>1. Within(good, Done)
      BY <2>3 DEF Written, Within
    <3>2. ASSUME NEW i \in File!Inodes PROVE Within(lines'[i], Done)
      BY <1>1, <2>1, <3>1 DEF Written, FileTypeOK
    <3> QED
      BY <2>1, <2>7, <3>2 DEF Written, Within
  <2> QED
    BY <2>6, <2>8, <2>9, <2>10, <2>11
<1>4. CASE File!RepairRenames(r)
  <2>1. /\ stage[r] = "rename" /\ stage' = [stage EXCEPT ![r] = "done"] /\ path' = r
        /\ flock' = [flock EXCEPT ![fd[r]] = NoOwner]
        /\ UNCHANGED <<lines, ended, fd, read, acked, strays, bad>>
    BY <1>4 DEF File!RepairRenames, File!Goto, File!Unlock
  <2>2. FileTypeOK'
    BY <1>1, <2>1 DEF FileTypeOK
  <2>3. Done' = Done
    BY <1>1, <2>1 DEF Done, FileTypeOK
  <2>4. HasLast' /\ TornUnacked' /\ Written'
    BY <2>1, <2>3 DEF HasLast, TornUnacked, Written, Within
  <2>5. Unpublished'
    BY <1>1, <2>1 DEF Unpublished, FileTypeOK
  <2>6. Locked'
    <3> SUFFICES ASSUME NEW q \in File!Procs, stage'[q] \in {"locked", "read", "rename"}
                 PROVE  flock'[fd'[q]] = q
      BY DEF Locked
    <3>1. q # r /\ flock[fd[q]] = q /\ fd'[q] = fd[q] /\ flock[fd[r]] = r
      BY <1>1, <2>1 DEF Locked, FileTypeOK
    <3> QED
      BY <1>1, <2>1, <3>1 DEF FileTypeOK
  <2>7. WritersWrite' /\ SortedOut'
    <3>1. \A q \in Repairers : stage'[q] = "rename" => stage[q] = "rename"
      BY <1>1, <2>1 DEF FileTypeOK
    <3> QED
      BY <1>1, <2>1, <3>1 DEF WritersWrite, SortedOut, FileTypeOK, File!Procs
  <2> QED
    BY <2>2, <2>4, <2>5, <2>6, <2>7
<1> QED
  BY <1>2, <1>3, <1>4

\* Every step keeps it.
LEMMA FileStep ==
  ASSUME FileInv, File!Next
  PROVE  FileInv'
<1>1. ASSUME NEW p \in File!Procs, File!Open(p) \/ File!Lock(p) PROVE FileInv'
  BY <1>1, ProcsAssumption, OpenAndLock
<1>2. ASSUME NEW w \in Writers, File!Write(w) \/ File!Tear(w) PROVE FileInv'
  <2>1. PICK good \in BOOLEAN, whole \in BOOLEAN : WriterEnds(w, good, whole)
    BY <1>2, WriterSteps DEF FileInv
  <2> QED
    BY <2>1, ProcsAssumption, WriterKeepsFile
<1>3. ASSUME NEW r \in Repairers,
             File!RepairReads(r) \/ File!RepairQuarantines(r) \/ File!RepairRenames(r)
      PROVE  FileInv'
  BY <1>3, ProcsAssumption, RepairKeepsFile
<1>4. CASE File!Over
  BY <1>4 DEF File!Over, File!vars, FileInv, FileTypeOK, HasLast, Locked, WritersWrite,
     Unpublished, Written, Within, Done, TornUnacked, SortedOut
<1> QED
  BY <1>1, <1>2, <1>3, <1>4 DEF File!Next

\* A ledger that nobody has open satisfies it, corrupt or not.
LEMMA FileStarts ==
  ASSUME File!Init
  PROVE  FileInv
<1> USE FaultAssumption
<1>1. FileTypeOK
  <2>1. PICK corrupt \in {FALSE, MayBeCorrupt} :
          lines = [i \in File!Inodes |-> IF i = "first" /\ corrupt
                                         THEN <<[good |-> FALSE, rows |-> {}]>> ELSE <<>>]
    BY DEF File!Init
  <2>2. <<[good |-> FALSE, rows |-> {}]>> \in Seq(Line) /\ <<>> \in Seq(Line)
    BY DEF Line
  <2>3. lines \in [File!Inodes -> Seq(Line)]
    BY <2>1, <2>2
  <2> QED
    BY <2>2, <2>3 DEF FileTypeOK, File!Init, File!Inodes
<1>2. \A i \in File!Inodes : Within(lines[i], {})
  BY DEF File!Init, Within
<1>3. Written
  <2>1. \A r \in Repairers : Within(read[r], {})
    BY DEF File!Init, Within
  <2> QED
    BY <1>2, <2>1 DEF Written, Within, File!Init
<1>4. Locked /\ WritersWrite /\ SortedOut
  BY DEF File!Init, Locked, WritersWrite, SortedOut, File!Procs
<1>5. Unpublished
  BY ProcsAssumption DEF File!Init, Unpublished, File!Procs, File!Inodes
<1> QED
  BY <1>1, <1>3, <1>4, <1>5 DEF FileInv, File!Init, HasLast, TornUnacked
-----------------------------------------------------------------------------
(* What the journal keeps.                                                    *)

\* Rows, and rows that can be read, of a sequence of lines.
Rows(s)     == {w \in Writers : \E k \in DOMAIN s : w \in s[k].rows}
GoodRows(s) == {w \in Writers : \E k \in DOMAIN s : s[k].good /\ w \in s[k].rows}

\* The rows of the file, said of its lines.
LEMMA RowsAre ==
  ASSUME FileTypeOK
  PROVE  File!RowsOf(lines[path]) = Rows(lines[path]) /\ File!Parsed = GoodRows(lines[path])
<1>1. \A k \in DOMAIN lines[path] : lines[path][k] \in Line
  BY DEF FileTypeOK
<1> QED
  BY <1>1 DEF File!RowsOf, File!Parsed, File!Good, Rows, GoodRows, Line

\* A writer's line takes away no row, and leaves the readable ones of the acknowledged.
LEMMA WriterKeepsRows ==
  ASSUME FileInv, NEW w \in Writers, NEW good \in BOOLEAN, NEW whole \in BOOLEAN,
         WriterEnds(w, good, whole)
  PROVE  /\ Rows(lines[path]) \subseteq Rows(lines'[path])
         /\ fd[w] = path => w \in Rows(lines'[path])
         /\ GoodRows(lines[path]) \cap acked \subseteq GoodRows(lines'[path])
         /\ GoodRows(lines'[path]) \subseteq GoodRows(lines[path]) \cup {w}
<1> USE DEF FileInv
<1>1. CASE fd[w] # path
  <2>1. lines'[path] = lines[path]
    BY <1>1 DEF WriterEnds, FileTypeOK
  <2> QED
    BY <1>1, <2>1
<1>2. CASE fd[w] = path
  <2> DEFINE old == lines[path]
             new == With(path, w, good)
  <2>1. path \in File!Inodes /\ lines'[path] = new /\ ended[path] \in BOOLEAN
    BY <1>2 DEF WriterEnds, FileTypeOK
  <2>2. /\ old \in Seq(Line) /\ new \in Seq(Line) /\ new # <<>>
        /\ Len(new) = IF ended[path] THEN Len(old) + 1 ELSE Len(old)
        /\ \A k \in DOMAIN old : k # Len(new) => new[k] = old[k]
        /\ Last(new) = IF ended[path] THEN [good |-> good, rows |-> {w}]
                       ELSE [good |-> FALSE, rows |-> Last(old).rows \cup {w}]
    BY <2>1, WithLine
  <2>3. ~ended[path] /\ Last(old).good => Last(old).rows \cap acked = {}
    BY <2>1 DEF TornUnacked
  <2> HIDE DEF new, old
  <2>4. DOMAIN old \subseteq DOMAIN new /\ Len(new) \in DOMAIN new /\ new[Len(new)] = Last(new)
    BY <2>2 DEF Last
  <2>5. w \in Rows(new)
    BY <2>2, <2>4 DEF Rows
  <2>6. Rows(old) \subseteq Rows(new)
    <3> SUFFICES ASSUME NEW k \in DOMAIN old, NEW v \in Writers, v \in old[k].rows
                 PROVE  v \in Rows(new)
      BY DEF Rows
    <3>1. CASE k # Len(new)
      BY <2>2, <2>4, <3>1 DEF Rows
    <3>2. CASE k = Len(new)
      <4>1. ~ended[path] /\ old[k] = Last(old)
        BY <2>1, <2>2, <3>2 DEF Last
      <4> QED
        BY <2>2, <2>4, <4>1 DEF Rows
    <3> QED
      BY <3>1, <3>2
  <2>7. GoodRows(old) \cap acked \subseteq GoodRows(new)
    <3> SUFFICES ASSUME NEW k \in DOMAIN old, NEW v \in Writers, v \in acked, old[k].good,
                        v \in old[k].rows
                 PROVE  v \in GoodRows(new)
      BY DEF GoodRows
    <3>1. CASE k # Len(new)
      BY <2>2, <2>4, <3>1 DEF GoodRows
    <3>2. CASE k = Len(new)
      <4>1. ~ended[path] /\ old[k] = Last(old)
        BY <2>1, <2>2, <3>2 DEF Last
      <4> QED
        BY <2>3, <4>1
    <3> QED
      BY <3>1, <3>2
  <2>8. GoodRows(new) \subseteq GoodRows(old) \cup {w}
    <3> SUFFICES ASSUME NEW k \in DOMAIN new, NEW v \in Writers, v # w, new[k].good,
                        v \in new[k].rows
                 PROVE  v \in GoodRows(old)
      BY DEF GoodRows
    <3>1. CASE k # Len(new)
      <4>1. k \in DOMAIN old
        BY <2>1, <2>2, <3>1
      <4> QED
        BY <2>2, <3>1, <4>1 DEF GoodRows
    <3>2. CASE k = Len(new)
      BY <2>2, <2>4, <3>2
    <3> QED
      BY <3>1, <3>2
  <2> QED
    BY <2>1, <2>5, <2>6, <2>7, <2>8 DEF old
<1> QED
  BY <1>1, <1>2

\* The acknowledged rows that are no strays.
Sure == acked \ strays

\* A repair under way has read all there is of them, and those that parse in the file it
\* is going to replace are those it has read so: whatever another repair puts in its place
\* meanwhile, or a writer adds to it.
Replacing(r) == stage[r] \in {"read", "rename"}
ReadRight ==
  \A r \in Repairers : Replacing(r) =>
    /\ Sure \subseteq Rows(read[r]) \cup bad
    /\ GoodRows(read[r]) \cap Sure = GoodRows(lines[path]) \cap Sure

\* A row that is no stray was written while no repair was under way.
LEMMA WriterAlone ==
  ASSUME FileInv, NEW w \in Writers, NEW good \in BOOLEAN, NEW whole \in BOOLEAN,
         WriterEnds(w, good, whole)
  PROVE  /\ Sure' \subseteq Sure \cup {w}
         /\ w \in Sure' => fd[w] = path /\ \A r \in Repairers : ~Replacing(r)
         /\ w \notin Sure
<1>1. stage[w] = "locked" /\ w \in File!Procs
  BY DEF WriterEnds, File!Procs
<1>2. w \notin acked
  BY <1>1 DEF FileInv, Written, Done
<1>3. ASSUME w \in Sure'
      PROVE  fd[w] = path /\ \A r \in Repairers : ~Replacing(r)
  <2>1. fd[w] = path /\ ~File!Unguarded
    BY <1>2, <1>3 DEF WriterEnds, Sure, File!Strays
  <2>2. ASSUME NEW r \in Repairers, Replacing(r) PROVE FALSE
    <3>1. fd[r] = path /\ r \in File!Procs
      BY <2>1, <2>2 DEF File!Unguarded, Replacing, File!Procs
    <3>2. flock[path] = w /\ flock[path] = r
      BY <1>1, <2>1, <2>2, <3>1 DEF FileInv, Locked, Replacing
    <3> QED
      BY <1>1, <2>2, <3>2 DEF Replacing
  <2> QED
    BY <2>1, <2>2
<1>4. Sure' \subseteq Sure \cup {w}
  BY DEF WriterEnds, Sure, File!Strays
<1> QED
  BY <1>2, <1>3, <1>4 DEF Sure

\* The file a repair publishes has the good lines of what it has read.
LEMMA RenameIs ==
  ASSUME FileInv, NEW r \in Repairers, File!RepairRenames(r)
  PROVE  /\ GoodRows(lines'[path']) = GoodRows(read[r])
         /\ Rows(read[r]) \subseteq Rows(lines'[path']) \cup bad
<1> DEFINE old == read[r]
           new == File!Sorted(old, TRUE)
<1>1. path' = r /\ lines' = lines /\ stage[r] = "rename"
  BY DEF File!RepairRenames
<1>2. lines[r] = new /\ \A k \in DOMAIN old : ~old[k].good => old[k].rows \subseteq bad
  BY <1>1 DEF FileInv, SortedOut
<1>3. old \in Seq(Line)
  BY DEF FileInv, FileTypeOK
<1>4. \A k \in DOMAIN old : old[k].good \in BOOLEAN
  <2>1. \A k \in DOMAIN old : old[k] \in Line
    BY <1>3
  <2> QED
    BY <2>1 DEF Line
<1>5. /\ \A i \in DOMAIN new : new[i].good = TRUE /\ \E j \in DOMAIN old : new[i] = old[j]
      /\ \A j \in DOMAIN old : old[j].good = TRUE =>
           \A w \in old[j].rows : \E i \in DOMAIN new : w \in new[i].rows
  BY <1>3, SortedKeeps
<1> HIDE DEF old, new
<1>6. GoodRows(old) \subseteq GoodRows(new)
  BY <1>4, <1>5 DEF GoodRows
<1>7. GoodRows(new) \subseteq GoodRows(old)
  BY <1>5 DEF GoodRows
<1>8. Rows(old) \subseteq Rows(new) \cup bad
  BY <1>2, <1>4, <1>5 DEF Rows
<1> QED
  BY <1>1, <1>2, <1>6, <1>7, <1>8 DEF old

\* The other steps leave the lines of the journal alone.
LEMMA OtherSteps ==
  ASSUME FileInv, File!Next, \A w \in Writers : ~File!Write(w) /\ ~File!Tear(w)
  PROVE  /\ UNCHANGED <<acked, strays, ended>> /\ bad \subseteq bad'
         /\ \/ lines'[path'] = lines[path] /\ path' = path
            \/ \E r \in Repairers : File!RepairRenames(r)
<1>1. ASSUME NEW p \in File!Procs, File!Open(p) \/ File!Lock(p)
      PROVE  UNCHANGED <<acked, strays, ended, bad, lines, path>>
  BY <1>1 DEF File!Open, File!Lock
<1>2. ASSUME NEW r \in Repairers, File!RepairReads(r) \/ File!RepairRenames(r)
      PROVE  /\ UNCHANGED <<acked, strays, ended, bad, lines>>
             /\ path' = path \/ File!RepairRenames(r)
  BY <1>2 DEF File!RepairReads, File!RepairRenames
<1>3. ASSUME NEW r \in Repairers, File!RepairQuarantines(r)
      PROVE  /\ UNCHANGED <<acked, strays, ended, path>> /\ bad \subseteq bad'
             /\ lines'[path'] = lines[path]
  <2>1. path # r
    BY <1>3 DEF FileInv, Unpublished, File!RepairQuarantines
  <2> QED
    BY <1>3, <2>1 DEF File!RepairQuarantines, FileInv, FileTypeOK
<1>4. CASE File!Over
  BY <1>4 DEF File!Over, File!vars
<1> QED
  BY <1>1, <1>2, <1>3, <1>4 DEF File!Next

\* A writer's step, or one of the others.
LEMMA WriterOrNot ==
  ASSUME FileTypeOK, File!Next
  PROVE  \/ \E w \in Writers : \E good, whole \in BOOLEAN : WriterEnds(w, good, whole)
         \/ \A w \in Writers : ~File!Write(w) /\ ~File!Tear(w)
BY WriterSteps

\* Who is replacing the file after a step that is not its look was so before it.
LEMMA RepairGoesOn ==
  ASSUME FileTypeOK, File!Next, \A w \in Writers : ~File!Write(w) /\ ~File!Tear(w),
         NEW r \in Repairers, ~File!RepairReads(r), Replacing(r)'
  PROVE  Replacing(r) /\ read'[r] = read[r]
<1>0. r \in File!Procs
  BY DEF File!Procs
<1>1. ASSUME NEW p \in File!Procs, File!Open(p) \/ File!Lock(p)
      PROVE  Replacing(r) /\ read'[r] = read[r]
  BY <1>0, <1>1 DEF File!Open, File!Lock, File!Goto, Replacing, FileTypeOK
<1>2. ASSUME NEW q \in Repairers, q # r, File!RepairReads(q)
      PROVE  Replacing(r) /\ read'[r] = read[r]
  BY <1>0, <1>2 DEF File!RepairReads, File!Goto, Replacing, FileTypeOK, File!Procs
<1>3. ASSUME NEW q \in Repairers, File!RepairQuarantines(q) \/ File!RepairRenames(q)
      PROVE  Replacing(r) /\ read'[r] = read[r]
  BY <1>0, <1>3 DEF File!RepairQuarantines, File!RepairRenames, File!Goto, Replacing, FileTypeOK,
     File!Procs
<1>4. CASE File!Over
  BY <1>4 DEF File!Over, File!vars, Replacing
<1> QED
  BY <1>1, <1>2, <1>3, <1>4 DEF File!Next

\* No step drops an acknowledged row.
LEMMA DroppedStep ==
  ASSUME FileInv, FileInv', ReadRight, File!NothingDropped, File!Next
  PROVE  File!NothingDropped'
<1> DEFINE Held == Rows(lines[path]) \cup bad
<1>1. Sure \subseteq Held
  BY RowsAre DEF FileInv, File!NothingDropped, Sure
<1>2. Sure' \subseteq Rows(lines'[path']) \cup bad'
  <2>1. ASSUME NEW w \in Writers, NEW good \in BOOLEAN, NEW whole \in BOOLEAN,
               WriterEnds(w, good, whole)
        PROVE  Sure' \subseteq Rows(lines'[path']) \cup bad'
    <3>1. /\ Rows(lines[path]) \subseteq Rows(lines'[path])
          /\ fd[w] = path => w \in Rows(lines'[path])
          /\ bad' = bad /\ path' = path
      BY <2>1, WriterKeepsRows DEF WriterEnds
    <3>2. Sure' \subseteq Sure \cup {w} /\ (w \in Sure' => fd[w] = path)
      BY <2>1, WriterAlone
    <3> QED
      BY <1>1, <3>1, <3>2
  <2>2. ASSUME \A w \in Writers : ~File!Write(w) /\ ~File!Tear(w)
        PROVE  Sure' \subseteq Rows(lines'[path']) \cup bad'
    <3>1. /\ Sure' = Sure /\ bad \subseteq bad'
          /\ \/ lines'[path'] = lines[path]
             \/ \E r \in Repairers : File!RepairRenames(r)
      BY <2>2, OtherSteps DEF Sure
    <3>2. ASSUME NEW r \in Repairers, File!RepairRenames(r)
          PROVE  Sure' \subseteq Rows(lines'[path']) \cup bad'
      <4>1. Sure \subseteq Rows(read[r]) \cup bad
        BY <3>2 DEF File!RepairRenames, ReadRight, Replacing
      <4> QED
        BY <3>1, <3>2, <4>1, RenameIs
    <3> QED
      BY <1>1, <3>1, <3>2
  <2> QED
    BY <2>1, <2>2, WriterOrNot DEF FileInv
<1>3. File!RowsOf(lines[path])' = Rows(lines'[path'])
  <2>1. \A k \in DOMAIN lines'[path'] : lines'[path'][k] \in Line
    BY DEF FileInv, FileTypeOK
  <2> QED
    BY <2>1 DEF File!RowsOf, Rows, Line
<1> QED
  BY <1>2, <1>3 DEF File!NothingDropped, Sure

\* What a repair has read stays right, whoever writes or replaces the file meanwhile.
LEMMA ReadRightStep ==
  ASSUME FileInv, ReadRight, File!NothingDropped, File!Next
  PROVE  ReadRight'
<1> SUFFICES ASSUME NEW r \in Repairers, Replacing(r)'
             PROVE  /\ Sure' \subseteq Rows(read'[r]) \cup bad'
                    /\ GoodRows(read'[r]) \cap Sure' = GoodRows(lines'[path']) \cap Sure'
  BY DEF ReadRight, Rows, GoodRows
<1>0. r \in File!Procs /\ FileTypeOK
  BY DEF File!Procs, FileInv
<1>1. ASSUME NEW w \in Writers, NEW good \in BOOLEAN, NEW whole \in BOOLEAN,
             WriterEnds(w, good, whole)
      PROVE  /\ Sure' \subseteq Rows(read'[r]) \cup bad'
             /\ GoodRows(read'[r]) \cap Sure' = GoodRows(lines'[path']) \cap Sure'
  <2>1. Replacing(r) /\ UNCHANGED <<read, bad, path>>
    BY <1>0, <1>1 DEF WriterEnds, Replacing, FileTypeOK
  <2>2. Sure' \subseteq Sure /\ w \notin Sure
    BY <1>1, <2>1, WriterAlone
  <2>3. /\ GoodRows(lines[path]) \cap acked \subseteq GoodRows(lines'[path])
        /\ GoodRows(lines'[path]) \subseteq GoodRows(lines[path]) \cup {w}
    BY <1>1, WriterKeepsRows
  <2>4. Sure \subseteq acked
    BY DEF Sure
  <2>5. /\ Sure \subseteq Rows(read[r]) \cup bad
        /\ GoodRows(read[r]) \cap Sure = GoodRows(lines[path]) \cap Sure
    BY <2>1 DEF ReadRight
  <2> QED
    BY <2>1, <2>2, <2>3, <2>4, <2>5
<1>2. ASSUME \A w \in Writers : ~File!Write(w) /\ ~File!Tear(w)
      PROVE  /\ Sure' \subseteq Rows(read'[r]) \cup bad'
             /\ GoodRows(read'[r]) \cap Sure' = GoodRows(lines'[path']) \cap Sure'
  <2>1. /\ Sure' = Sure /\ bad \subseteq bad'
        /\ \/ lines'[path'] = lines[path] /\ path' = path
           \/ \E q \in Repairers : File!RepairRenames(q)
    BY <1>2, OtherSteps DEF Sure
  <2>2. CASE File!RepairReads(r)
    <3>1. read'[r] = lines[path] /\ bad' = bad /\ lines' = lines /\ path' = path
      BY <2>2 DEF File!RepairReads, FileInv, FileTypeOK
    <3>2. Sure \subseteq Rows(lines[path]) \cup bad
      BY <1>0, RowsAre DEF File!NothingDropped, Sure
    <3> QED
      BY <2>1, <3>1, <3>2
  <2>3. CASE ~File!RepairReads(r)
    <3>1. Replacing(r) /\ read'[r] = read[r]
      BY <1>0, <1>2, <2>3, RepairGoesOn
    <3>2. /\ Sure \subseteq Rows(read[r]) \cup bad
          /\ GoodRows(read[r]) \cap Sure = GoodRows(lines[path]) \cap Sure
      BY <3>1 DEF ReadRight
    <3>3. ASSUME NEW q \in Repairers, File!RepairRenames(q)
          PROVE  GoodRows(lines'[path']) \cap Sure = GoodRows(lines[path]) \cap Sure
      <4>1. GoodRows(lines'[path']) = GoodRows(read[q])
        BY <3>3, RenameIs
      <4>2. GoodRows(read[q]) \cap Sure = GoodRows(lines[path]) \cap Sure
        BY <3>3 DEF File!RepairRenames, ReadRight, Replacing
      <4> QED
        BY <4>1, <4>2
    <3> QED
      BY <2>1, <3>1, <3>2, <3>3
  <2> QED
    BY <2>2, <2>3
<1> QED
  BY <1>0, <1>1, <1>2, WriterOrNot

\* No step takes the last line that parses from a row that has one.
LEMMA GoodStayStep ==
  ASSUME FileInv, FileInv', ReadRight, File!Next
  PROVE  File!GoodStay
<1>1. File!Parsed = GoodRows(lines[path])
  BY RowsAre DEF FileInv
<1>2. File!Parsed' = GoodRows(lines'[path'])
  <2>1. \A k \in DOMAIN lines'[path'] : lines'[path'][k] \in Line
    BY DEF FileInv, FileTypeOK
  <2> QED
    BY <2>1 DEF File!Parsed, File!Good, GoodRows, Line
<1>3. ASSUME NEW w \in Writers, NEW good \in BOOLEAN, NEW whole \in BOOLEAN,
             WriterEnds(w, good, whole)
      PROVE  GoodRows(lines[path]) \cap Sure \subseteq GoodRows(lines'[path'])
  BY <1>3, WriterKeepsRows DEF WriterEnds, Sure
<1>4. ASSUME \A w \in Writers : ~File!Write(w) /\ ~File!Tear(w)
      PROVE  GoodRows(lines[path]) \cap Sure \subseteq GoodRows(lines'[path'])
  <2>1. ASSUME NEW r \in Repairers, File!RepairRenames(r)
        PROVE  GoodRows(lines[path]) \cap Sure \subseteq GoodRows(lines'[path'])
    <3>1. GoodRows(read[r]) \cap Sure = GoodRows(lines[path]) \cap Sure
      BY <2>1 DEF File!RepairRenames, ReadRight, Replacing
    <3> QED
      BY <2>1, <3>1, RenameIs
  <2> QED
    BY <1>4, <2>1, OtherSteps
<1>5. (File!Parsed \cap acked) \ strays = GoodRows(lines[path]) \cap Sure
  BY <1>1 DEF Sure
<1>6. (File!Parsed \cap acked) \ strays \subseteq File!Parsed'
  BY <1>2, <1>3, <1>4, <1>5, WriterOrNot DEF FileInv
<1>7. File!ReadFails' \/ File!Readable' = File!Parsed'
  BY DEF File!Readable
<1> QED
  BY <1>6, <1>7 DEF File!GoodStay

\* The lines of a file that a repair publishes all parse.
LEMMA RenameReadable ==
  ASSUME FileInv, NEW r \in Repairers, File!RepairRenames(r)
  PROVE  \A k \in DOMAIN lines'[path'] : lines'[path'][k].good
<1>1. /\ path' = r /\ lines' = lines /\ lines[r] = File!Sorted(read[r], TRUE)
  BY DEF File!RepairRenames, FileInv, SortedOut
<1>2. read[r] \in Seq(Line)
  BY DEF FileInv, FileTypeOK
<1> QED
  BY <1>1, <1>2, SortedKeeps

\* Only an append that follows a tear makes the file unreadable.
LEMMA WedgeStep ==
  ASSUME FileInv, FileInv', File!Next
  PROVE  File!WedgeByGlue
<1> SUFFICES ASSUME ~File!ReadFails, File!ReadFails'
             PROVE  ~ended[path] /\ acked' # acked
  BY DEF File!WedgeByGlue
<1>1. PICK k \in DOMAIN lines'[path'] :
        ~lines'[path'][k].good /\ ~(k = Len(lines'[path']) /\ ~ended'[path'])
  BY DEF File!ReadFails, File!Bad
<1>2. \A j \in DOMAIN lines[path] :
        ~lines[path][j].good => j = Len(lines[path]) /\ ~ended[path]
  BY DEF File!ReadFails, File!Bad
<1>3. ASSUME NEW w \in Writers, NEW good \in BOOLEAN, NEW whole \in BOOLEAN,
             WriterEnds(w, good, whole)
      PROVE  ~ended[path] /\ acked' # acked
  <2> DEFINE old == lines[path]
             new == With(path, w, good)
  <2>1. path' = path /\ path \in File!Inodes /\ ended[path] \in BOOLEAN
    BY <1>3 DEF WriterEnds, FileInv, FileTypeOK
  <2>2. fd[w] = path
    <3>1. CASE fd[w] # path
      <4>1. lines'[path] = lines[path] /\ ended'[path] = ended[path]
        BY <1>3, <3>1 DEF WriterEnds, FileInv, FileTypeOK
      <4> QED
        BY <1>1, <1>2, <2>1, <4>1
    <3> QED
      BY <3>1
  <2>3. lines'[path] = new /\ ended'[path] = whole
    BY <1>3, <2>1, <2>2 DEF WriterEnds, FileInv, FileTypeOK
  <2>4. /\ old \in Seq(Line) /\ new \in Seq(Line) /\ new # <<>>
        /\ Len(new) = IF ended[path] THEN Len(old) + 1 ELSE Len(old)
        /\ \A j \in DOMAIN old : j # Len(new) => new[j] = old[j]
        /\ Last(new) = IF ended[path] THEN [good |-> good, rows |-> {w}]
                       ELSE [good |-> FALSE, rows |-> Last(old).rows \cup {w}]
    BY <2>1, WithLine DEF FileInv
  <2> HIDE DEF new
  <2>5. k \in DOMAIN new /\ ~new[k].good /\ ~(k = Len(new) /\ ~whole)
    BY <1>1, <2>1, <2>3
  <2>6. k = Len(new)
    <3>1. CASE k # Len(new)
      <4>1. k \in DOMAIN old /\ new[k] = old[k] /\ (ended[path] \/ k # Len(old))
        BY <2>1, <2>4, <2>5, <3>1
      <4> QED
        BY <1>2, <2>5, <4>1
    <3> QED
      BY <3>1
  <2>7. whole /\ good
    BY <1>3, <2>5, <2>6 DEF WriterEnds
  <2>8. ~ended[path]
    BY <2>4, <2>5, <2>6, <2>7 DEF Last
  <2>9. w \notin acked /\ acked' = acked \cup {w}
    BY <1>3, <2>7 DEF WriterEnds, FileInv, Written, Done
  <2> QED
    BY <2>8, <2>9
<1>4. ASSUME \A w \in Writers : ~File!Write(w) /\ ~File!Tear(w)
      PROVE  FALSE
  <2>1. CASE lines'[path'] = lines[path] /\ path' = path /\ ended' = ended
    BY <1>1, <1>2, <2>1
  <2>2. CASE \E r \in Repairers : File!RepairRenames(r)
    BY <1>1, <2>2, RenameReadable
  <2> QED
    BY <1>4, <2>1, <2>2, OtherSteps
<1> QED
  BY <1>3, <1>4, WriterOrNot DEF FileInv
-----------------------------------------------------------------------------
(* Of every behaviour.                                                        *)

TimesInv == OverlapInv /\ FileInv

\* A step of the ledger is one of the clock, of the file or of the rows.
LEMMA StepOf ==
  ASSUME [LedgerNext]_<<rows, vars, fileVars>>
  PROVE  /\ UNCHANGED vars \/ Next
         /\ UNCHANGED fileVars \/ File!Next
         /\ rows' = rows \/ \E row \in Row : AppendRow(row)
BY DEF LedgerNext, vars, fileVars

\* The clock's invariant and the file's are inductive.
LEMMA TimesStep ==
  ASSUME TimesInv, [LedgerNext]_<<rows, vars, fileVars>>
  PROVE  TimesInv'
<1>1. ASSUME UNCHANGED vars PROVE OverlapInv'
  <2>1. OverlapInv /\ UNCHANGED <<now, began, returned, stamped, entries>>
    BY <1>1 DEF vars, TimesInv
  <2> QED
    BY <2>1 DEF OverlapInv, Timestamped, InOrder
<1>2. OverlapInv'
  BY <1>1, StepOf, OverlapStep DEF TimesInv
<1>3. ASSUME UNCHANGED fileVars PROVE FileInv'
  <2>1. FileInv /\ UNCHANGED <<path, lines, ended, flock, fd, stage, read, acked, strays, bad>>
    BY <1>3 DEF fileVars, TimesInv
  <2> QED
    BY <2>1 DEF FileInv, FileTypeOK, HasLast, Locked, WritersWrite, Unpublished, Written,
       Within, Done, TornUnacked, SortedOut
<1>4. FileInv'
  BY <1>3, StepOf, FileStep DEF TimesInv
<1> QED
  BY <1>2, <1>4 DEF TimesInv

\* They hold at the start.
LEMMA TimesStart == LedgerInit => TimesInv
<1> SUFFICES ASSUME LedgerInit PROVE TimesInv
  OBVIOUS
<1>1. OverlapInv
  BY DEF LedgerInit, Init, OverlapInv, InOrder
<1>2. FileInv
  BY FileStarts DEF LedgerInit
<1> QED
  BY <1>1, <1>2 DEF TimesInv

\* The inductive invariants of the clock and of the file hold in every behaviour.
THEOREM TimesHold == LedgerSpec => []TimesInv
<1>1. TimesInv /\ [LedgerNext]_<<rows, vars, fileVars>> => TimesInv'
  BY TimesStep
<1> QED
  BY TimesStart, <1>1, PTL DEF LedgerSpec

\* MarkOverlaps: commands of two sessions that ran together for a second or more
\* are flagged, if both durations are recorded.
THEOREM LongOverlapsMarked == LedgerSpec => []LongOverlapMarked
<1>1. TimesInv => LongOverlapMarked
  BY OverlapRight DEF TimesInv
<1> QED
  BY TimesHold, <1>1, PTL

\* MarkOverlaps: nothing is flagged but for a command that it met, or missed by less than a
\* second and what the snapshots and the wait for them took.
THEOREM MarkedWereNear == LedgerSpec => []MarkedWasNear
<1>1. TimesInv => MarkedWasNear
  BY OverlapRight DEF TimesInv
<1> QED
  BY TimesHold, <1>1, PTL

\* Nothing is dropped, and what each repair has read is right: the two go together.
LedgerRight == NothingDropped /\ ReadRight

LEMMA LedgerRightStep ==
  TimesInv /\ TimesInv' /\ LedgerRight /\ [LedgerNext]_<<rows, vars, fileVars>>
    => LedgerRight'
<1> SUFFICES ASSUME TimesInv, TimesInv', LedgerRight, [LedgerNext]_<<rows, vars, fileVars>>
             PROVE  LedgerRight'
  OBVIOUS
<1>1. CASE UNCHANGED fileVars
  <2>1. NothingDropped'
    BY <1>1 DEF fileVars, LedgerRight, NothingDropped, File!NothingDropped, File!RowsOf
  <2>2. ReadRight'
    BY <1>1 DEF fileVars, LedgerRight, ReadRight, Sure, Rows, GoodRows, Replacing
  <2> QED
    BY <2>1, <2>2 DEF LedgerRight
<1>2. CASE File!Next
  BY <1>2, DroppedStep, ReadRightStep DEF TimesInv, NothingDropped, LedgerRight
<1> QED
  BY <1>1, <1>2, StepOf

LEMMA LedgerRightHolds == LedgerSpec => []LedgerRight
<1>1. LedgerInit => LedgerRight
  BY DEF LedgerInit, File!Init, LedgerRight, NothingDropped, File!NothingDropped, ReadRight,
     Replacing, File!Procs
<1> QED
  BY <1>1, LedgerRightStep, TimesHold, PTL DEF LedgerSpec

\* Append and Repair: no row whose Append returned is dropped, with any number of repairs,
\* one after another or at once, but for the rows they say nobody looks for.
THEOREM NothingIsDropped == LedgerSpec => []NothingDropped
<1>1. LedgerRight => NothingDropped
  BY DEF LedgerRight
<1> QED
  BY <1>1, LedgerRightHolds, PTL

\* Append, Repair and Read: an acknowledged row whose line parses keeps such a line, and is
\* read unless another line is bad, with any number of repairs.
THEOREM ReadableStays == LedgerSpec => GoodStays
<1>1. TimesInv /\ TimesInv' /\ LedgerRight /\ [LedgerNext]_<<rows, vars, fileVars>>
      => [File!GoodStay]_fileVars
  BY StepOf, GoodStayStep DEF TimesInv, LedgerRight
<1> QED
  BY <1>1, LedgerRightHolds, TimesHold, PTL DEF LedgerSpec, GoodStays

\* Read: the journal only stops being readable by an append that follows a tear,
\* with any number of repairs.
THEOREM OnlyGlueWedges == LedgerSpec => WedgedByGlue
<1>1. TimesInv /\ TimesInv' /\ [LedgerNext]_<<rows, vars, fileVars>>
      => [File!WedgeByGlue]_fileVars
  BY StepOf, WedgeStep DEF TimesInv
<1> QED
  BY <1>1, TimesHold, PTL DEF LedgerSpec, WedgedByGlue
-----------------------------------------------------------------------------
(* The folds: what ReadMerged makes of the rows.                              *)

Fields == {"key", "pre", "overlapped"}

\* A row is a function of its fields.
LEMMA RowIs ==
  /\ DOMAIN Zero = Fields /\ Zero \in Row
  /\ \A r \in Row : DOMAIN r = Fields /\ r = [f \in Fields |-> r[f]]
<1>1. DOMAIN Zero = Fields
  BY DEF Zero, Fields
<1>2. Zero \in Row
  BY DEF Zero, Row
<1>3. ASSUME NEW r \in Row PROVE DOMAIN r = Fields /\ r = [f \in Fields |-> r[f]]
  BY DEF Row, Fields
<1> QED
  BY <1>1, <1>2, <1>3

\* What is merged is a row.
LEMMA MergedIsRow ==
  ASSUME NEW dst \in Row, NEW src \in Row
  PROVE  /\ MergeEntry(Zero, dst, src) \in Row
         /\ \A f \in Fields : MergeEntry(Zero, dst, src)[f] = Later(Zero[f], dst[f], src[f])
<1>1. MergeEntry(Zero, dst, src) = [f \in Fields |-> Later(Zero[f], dst[f], src[f])]
  BY RowIs DEF MergeEntry
<1>2. \A f \in Fields : Later(Zero[f], dst[f], src[f]) \in {dst[f], src[f]}
  BY DEF Later
<1>3. [f \in Fields |-> Later(Zero[f], dst[f], src[f])] \in Row
  <2> DEFINE r == [f \in Fields |-> Later(Zero[f], dst[f], src[f])]
  <2>1. r.key \in Keys \cup {""} /\ r.pre \in Shas \cup {""} /\ r.overlapped \in BOOLEAN
    BY <1>2 DEF Fields, Row
  <2> QED
    BY <2>1 DEF Row, Fields
<1> QED
  BY <1>1, <1>3

\* A step of the fold.
LEMMA FoldIsRows ==
  ASSUME NEW out \in Seq(Row), NEW row \in Row
  PROVE  FoldRow(Zero, out, row) \in Seq(Row)
<1> DEFINE same == {i \in DOMAIN out : out[i].key = row.key}
           pos  == CHOOSE i \in same : TRUE
<1>1. CASE row.key = Zero.key \/ same = {}
  BY <1>1 DEF FoldRow
<1>2. CASE ~(row.key = Zero.key \/ same = {})
  <2>1. pos \in DOMAIN out /\ out[pos] \in Row
    BY <1>2
  <2>2. FoldRow(Zero, out, row) = [out EXCEPT ![pos] = MergeEntry(Zero, out[pos], row)]
    BY <1>2, <2>1 DEF FoldRow
  <2> HIDE DEF pos
  <2> QED
    BY <2>1, <2>2, MergedIsRow
<1> QED
  BY <1>1, <1>2

\* ReadMerged is the end of its loop.
LEMMA MergedLoop ==
  ASSUME NEW rs \in Seq(Row)
  PROVE  \E out \in [0..Len(rs) -> Seq(Row)] :
           /\ ReadMerged(Zero, rs) = out[Len(rs)] /\ out[0] = <<>>
           /\ \A n \in 1..Len(rs) : out[n] = FoldRow(Zero, out[n - 1], rs[n])
<1> DEFINE N == Len(rs)
           V == Seq(Row)
           none == <<>>
           Next1(n, v) == FoldRow(Zero, v, rs[n])
           step == [n \in 1..N |-> [v \in V |-> Next1(n, v)]]
           Body(out) == [n \in 0..N |-> IF n = 0 THEN none ELSE Next1(n, out[n - 1])]
           last == CHOOSE out : out = Body(out)
           T == {n \in 0..N : last[n] \in V}
<1>1. /\ N \in Nat /\ none \in V
      /\ \A n \in 1..N : \A v \in V : Next1(n, v) \in V
  <2>1. \A n \in 1..N : rs[n] \in Row
    OBVIOUS
  <2>2. ASSUME NEW n \in 1..N, NEW v \in V PROVE Next1(n, v) \in V
    BY <2>1, FoldIsRows
  <2> QED
    BY <2>2
<1>2. ReadMerged(Zero, rs) = last[N]
  BY DEF ReadMerged
<1>3. SUFFICES \E out \in [0..N -> V] :
                 /\ last[N] = out[N] /\ out[0] = none
                 /\ \A n \in 1..N : out[n] = Next1(n, out[n - 1])
  BY <1>2
<1> HIDE DEF N, V, none, Next1
<1>4. step \in Steps(N, V)
  BY <1>1 DEF Steps
<1>5. PICK run \in RunsOf(N, V, none, step) : TRUE
  <2> HIDE DEF step
  <2> QED
    BY <1>1, <1>4, LoopRuns
<1>6. ASSUME NEW n \in 1..N
      PROVE  run[n] = Next1(n, run[n - 1])
  <2>1. n - 1 \in 0..N
    BY <1>1
  <2> QED
    BY <1>5, <2>1 DEF RunsOf
<1>7. run = Body(run)
  BY <1>1, <1>5, <1>6 DEF RunsOf
<1>8. last = Body(last)
  <2> HIDE DEF Body
  <2> QED
    BY <1>7
<1> HIDE DEF last
<1>9. /\ last[0] = none /\ last = [n \in 0..N |-> last[n]]
      /\ \A n \in 1..N : last[n] = Next1(n, last[n - 1])
  <2>1. DOMAIN last = 0..N /\ last = [n \in DOMAIN last |-> last[n]]
    BY <1>8
  <2>2. last[0] = none
    BY <1>1, <1>8
  <2>3. ASSUME NEW n \in 1..N PROVE last[n] = Next1(n, last[n - 1])
    BY <1>1, <1>8
  <2> QED
    BY <2>1, <2>2, <2>3
<1>10. 0 \in T /\ \A n \in 0..(N - 1) : n \in T => n + 1 \in T
  <2>1. ASSUME NEW n \in 0..(N - 1), n \in T PROVE n + 1 \in T
    <3>1. n + 1 \in 1..N /\ (n + 1) - 1 = n
      BY <1>1
    <3>2. last[n + 1] = Next1(n + 1, last[n]) /\ last[n] \in V
      BY <1>9, <2>1, <3>1
    <3> QED
      BY <1>1, <3>1, <3>2
  <2>2. last[0] \in V /\ 0 \in 0..N
    BY <1>1, <1>9
  <2> QED
    BY <2>1, <2>2
<1>11. 0..N \subseteq T
  <2> HIDE DEF T
  <2> QED
    BY <1>1, <1>10, UpTo
<1> QED
  BY <1>9, <1>11

\* What a journal with one more row is folded to.
LEMMA MergedAppend ==
  ASSUME NEW rs \in Seq(Row), NEW row \in Row
  PROVE  /\ ReadMerged(Zero, rs) \in Seq(Row)
         /\ ReadMerged(Zero, Append(rs, row)) = FoldRow(Zero, ReadMerged(Zero, rs), row)
<1> DEFINE N    == Len(rs)
           more == Append(rs, row)
<1>1. N \in Nat /\ more \in Seq(Row) /\ Len(more) = N + 1 /\ more[N + 1] = row
      /\ \A n \in 1..N : more[n] = rs[n]
  OBVIOUS
<1>2. PICK f \in [0..N -> Seq(Row)] :
        /\ ReadMerged(Zero, rs) = f[N] /\ f[0] = <<>>
        /\ \A n \in 1..N : f[n] = FoldRow(Zero, f[n - 1], rs[n])
  BY MergedLoop
<1> HIDE DEF more
<1>3. PICK g \in [0..(N + 1) -> Seq(Row)] :
        /\ ReadMerged(Zero, more) = g[N + 1] /\ g[0] = <<>>
        /\ \A n \in 1..(N + 1) : g[n] = FoldRow(Zero, g[n - 1], more[n])
  BY <1>1, MergedLoop
<1> HIDE DEF N
<1> DEFINE T == {n \in 0..N : f[n] = g[n]}
<1>4. 0 \in T
  BY <1>1, <1>2, <1>3
<1>5. ASSUME NEW n \in 0..(N - 1), n \in T PROVE n + 1 \in T
  <2>1. n + 1 \in 1..N /\ n + 1 \in 1..(N + 1) /\ (n + 1) - 1 = n
    BY <1>1, <1>5
  <2>2. f[n + 1] = FoldRow(Zero, f[n], rs[n + 1])
    BY <1>2, <2>1
  <2>3. g[n + 1] = FoldRow(Zero, g[n], rs[n + 1])
    BY <1>1, <1>3, <2>1
  <2> QED
    BY <1>5, <2>1, <2>2, <2>3
<1>6. 0..N \subseteq T
  <2> HIDE DEF T
  <2> QED
    BY <1>1, <1>4, <1>5, UpTo
<1>7. f[N] = g[N]
  BY <1>1, <1>6
<1>8. g[N + 1] = FoldRow(Zero, g[N], row)
  <2>1. N + 1 \in 1..(N + 1) /\ (N + 1) - 1 = N
    BY <1>1
  <2> QED
    BY <1>1, <1>3, <2>1
<1>9. f[N] \in Seq(Row)
  BY <1>1, <1>2
<1> QED
  BY <1>2, <1>3, <1>7, <1>8, <1>9 DEF more

\* No rows are folded to no entry.
LEMMA MergedOfNone == ReadMerged(Zero, <<>>) = <<>>
<1>1. <<>> \in Seq(Row) /\ Len(<<>>) = 0
  OBVIOUS
<1> QED
  BY <1>1, MergedLoop

\* A set of numbers up to N has a greatest.
LEMMA GreatestOf ==
  ASSUME NEW N \in Nat, NEW S \in SUBSET (1..N), S # {}
  PROVE  \E i \in S : \A j \in S : j <= i
<1> DEFINE HasMax(m) == \A R \in SUBSET (1..m) : R # {} => \E i \in R : \A j \in R : j <= i
           T == {m \in 0..N : HasMax(m)}
<1>1. 0 \in T
  <2>1. 1..0 = {} /\ 0 \in 0..N
    OBVIOUS
  <2>2. HasMax(0)
    BY <2>1
  <2> HIDE DEF HasMax
  <2> QED
    BY <2>1, <2>2
<1>2. ASSUME NEW m \in 0..(N - 1), m \in T PROVE m + 1 \in T
  <2> SUFFICES ASSUME NEW R \in SUBSET (1..(m + 1)), R # {}
               PROVE  \E i \in R : \A j \in R : j <= i
    OBVIOUS
  <2>1. CASE m + 1 \in R
    BY <2>1
  <2>2. CASE m + 1 \notin R
    <3>1. R \in SUBSET (1..m)
      BY <2>2
    <3> QED
      BY <1>2, <3>1
  <2> QED
    BY <2>1, <2>2
<1>3. 0..N \subseteq T
  <2> HIDE DEF T
  <2> QED
    BY <1>1, <1>2, UpTo
<1>4. HasMax(N)
  BY <1>3
<1> QED
  BY <1>4

\* LastSet, FirstSeen, Place and Whole of any sequence of rows.
Having(rs, key, f) == {i \in DOMAIN rs : rs[i].key = key /\ rs[i][f] # Zero[f]}
LastOf(rs, key, f) ==
  IF Having(rs, key, f) = {} THEN Zero[f]
  ELSE rs[CHOOSE i \in Having(rs, key, f) : \A j \in Having(rs, key, f) : j <= i][f]
FirstsOf(rs) ==
  {i \in DOMAIN rs : rs[i].key = "" \/ \A j \in 1..(i - 1) : rs[j].key # rs[i].key}
PlaceOf(rs, i) == Cardinality({j \in FirstsOf(rs) : j <= i})
WholeOf(rs, i) ==
  IF rs[i].key = "" THEN rs[i] ELSE [f \in Fields |-> LastOf(rs, rs[i].key, f)]

\* One more row sets the fields it has a value for, of its own key.
LEMMA LastOfMore ==
  ASSUME NEW rs \in Seq(Row), NEW row \in Row, NEW key, NEW f \in Fields
  PROVE  LastOf(Append(rs, row), key, f) =
           IF row.key = key THEN Later(Zero[f], LastOf(rs, key, f), row[f])
                            ELSE LastOf(rs, key, f)
<1> DEFINE N    == Len(rs)
           more == Append(rs, row)
           old  == Having(rs, key, f)
           new  == Having(more, key, f)
           Top(S, i) == i \in S /\ \A j \in S : j <= i
<1>1. N \in Nat /\ DOMAIN rs = 1..N /\ DOMAIN more = 1..(N + 1) /\ more[N + 1] = row
      /\ \A n \in 1..N : more[n] = rs[n]
  OBVIOUS
<1> HIDE DEF N, more
<1>2. old \subseteq 1..N
  BY <1>1 DEF Having
<1>3. \A i \in 1..N : i \in new <=> i \in old
  BY <1>1 DEF Having
<1>4. N + 1 \in new <=> row.key = key /\ row[f] # Zero[f]
  BY <1>1 DEF Having
<1>5. new \subseteq 1..(N + 1)
  BY <1>1 DEF Having
<1> HIDE DEF old, new
<1>6. CASE row.key = key /\ row[f] # Zero[f]
  <2>1. Top(new, N + 1) /\ \A i : Top(new, i) => i = N + 1
    <3>1. N + 1 \in new /\ \A j \in new : j \in Nat /\ j <= N + 1
      BY <1>1, <1>4, <1>5, <1>6
    <3> QED
      BY <1>1, <3>1
  <2>2. (CHOOSE i \in new : \A j \in new : j <= i) = N + 1
    BY <2>1
  <2>3. LastOf(more, key, f) = row[f]
    BY <1>1, <2>1, <2>2 DEF LastOf, new
  <2> QED
    BY <1>6, <2>3 DEF Later, more
<1>7. CASE ~(row.key = key /\ row[f] # Zero[f])
  <2>1. new = old
    <3>1. new \subseteq 1..N
      BY <1>1, <1>4, <1>5, <1>7
    <3> QED
      BY <1>2, <1>3, <3>1
  <2>2. LastOf(more, key, f) = LastOf(rs, key, f)
    <3>1. CASE old = {}
      BY <2>1, <3>1 DEF LastOf, new, old
    <3>2. CASE old # {}
      <4> DEFINE top == CHOOSE i \in old : \A j \in old : j <= i
      <4>1. top \in 1..N
        BY <1>1, <1>2, <3>2, GreatestOf
      <4>2. LastOf(more, key, f) = more[top][f] /\ LastOf(rs, key, f) = rs[top][f]
        BY <2>1, <3>2 DEF LastOf, new, old
      <4> QED
        BY <1>1, <4>1, <4>2
    <3> QED
      BY <3>1, <3>2
  <2>3. row.key = key => Later(Zero[f], LastOf(rs, key, f), row[f]) = LastOf(rs, key, f)
    BY <1>7 DEF Later
  <2> QED
    BY <2>2, <2>3 DEF more
<1> QED
  BY <1>6, <1>7

\* Nothing was set for a key no row has.
LEMMA LastOfNone ==
  ASSUME NEW rs \in Seq(Row), NEW key, \A i \in DOMAIN rs : rs[i].key # key, NEW f
  PROVE  LastOf(rs, key, f) = Zero[f]
BY DEF LastOf, Having

\* A row is the first of its key where the rows before have another.
Starts(rs, row) == row.key = "" \/ \A i \in DOMAIN rs : rs[i].key # row.key

\* One more row starts an entry, after all the others, or starts none.
LEMMA FirstsOfMore ==
  ASSUME NEW rs \in Seq(Row), NEW row \in Row
  PROVE  LET more == Append(rs, row)
             N    == Len(rs)
         IN  /\ FirstsOf(rs) \in SUBSET (1..N) /\ IsFiniteSet(FirstsOf(rs))
             /\ FirstsOf(more) =
                  IF Starts(rs, row) THEN FirstsOf(rs) \cup {N + 1} ELSE FirstsOf(rs)
             /\ \A i \in FirstsOf(rs) : PlaceOf(more, i) = PlaceOf(rs, i)
             /\ Cardinality(FirstsOf(more)) =
                  Cardinality(FirstsOf(rs)) + (IF Starts(rs, row) THEN 1 ELSE 0)
             /\ Starts(rs, row) => PlaceOf(more, N + 1) = Cardinality(FirstsOf(rs)) + 1
             /\ Cardinality(FirstsOf(rs)) \in Nat
<1> DEFINE N    == Len(rs)
           more == Append(rs, row)
           F    == FirstsOf(rs)
           G    == FirstsOf(more)
<1>1. N \in Nat /\ DOMAIN rs = 1..N /\ DOMAIN more = 1..(N + 1) /\ more[N + 1] = row
      /\ \A n \in 1..N : more[n] = rs[n]
  OBVIOUS
<1> HIDE DEF N, more
<1>2. F \in SUBSET (1..N) /\ G \in SUBSET (1..(N + 1))
  BY <1>1 DEF FirstsOf
<1>3. IsFiniteSet(F) /\ Cardinality(F) \in Nat
  <2> HIDE DEF F
  <2>1. IsFiniteSet(1..N)
    BY <1>1, FS_Interval
  <2>2. IsFiniteSet(F)
    BY <1>2, <2>1, FS_Subset
  <2> QED
    BY <2>2, FS_CardinalityType
<1>4. ASSUME NEW i \in 1..N PROVE i \in G <=> i \in F
  <2>1. \A j \in 1..(i - 1) : j \in 1..N
    BY <1>1
  <2>2. i \in DOMAIN more /\ i \in DOMAIN rs /\ more[i] = rs[i]
    BY <1>1
  <2>3. \A j \in 1..(i - 1) : more[j] = rs[j]
    BY <1>1, <2>1
  <2> QED
    BY <2>2, <2>3 DEF FirstsOf
<1>5. N + 1 \in G <=> Starts(rs, row)
  <2>1. (N + 1) - 1 = N /\ N + 1 \in DOMAIN more
    BY <1>1
  <2>2. N + 1 \in G <=> row.key = "" \/ \A j \in 1..N : more[j].key # row.key
    BY <1>1, <2>1 DEF FirstsOf
  <2> QED
    BY <1>1, <2>2 DEF Starts
<1> HIDE DEF F, G
<1>6. G = IF Starts(rs, row) THEN F \cup {N + 1} ELSE F
  <2>1. \A i \in G : i \in 1..N \/ i = N + 1
    BY <1>1, <1>2
  <2>2. \A i \in F : i \in G
    BY <1>2, <1>4
  <2>3. \A i \in G : i \in F \/ i = N + 1
    BY <1>4, <2>1
  <2>4. \A i : i \in G <=> i \in F \/ (i = N + 1 /\ Starts(rs, row))
    BY <1>5, <2>2, <2>3
  <2>5. CASE Starts(rs, row)
    BY <2>4, <2>5
  <2>6. CASE ~Starts(rs, row)
    BY <2>4, <2>6
  <2> QED
    BY <2>5, <2>6
<1>7. \A i \in F : PlaceOf(more, i) = PlaceOf(rs, i)
  <2>1. ASSUME NEW i \in F PROVE {j \in G : j <= i} = {j \in F : j <= i}
    <3>1. ~(N + 1 <= i)
      BY <1>1, <1>2
    <3> QED
      BY <1>6, <3>1
  <2> QED
    BY <2>1 DEF PlaceOf, F, G
<1>8. N + 1 \notin F
  BY <1>1, <1>2
<1>9. Cardinality(G) = Cardinality(F) + (IF Starts(rs, row) THEN 1 ELSE 0)
  <2>1. CASE Starts(rs, row)
    BY <1>3, <1>6, <1>8, <2>1, FS_AddElement
  <2>2. CASE ~Starts(rs, row)
    BY <1>3, <1>6, <2>2
  <2> QED
    BY <2>1, <2>2
<1>10. ASSUME Starts(rs, row) PROVE PlaceOf(more, N + 1) = Cardinality(F) + 1
  <2>1. {j \in G : j <= N + 1} = G
    <3>1. \A j \in G : j <= N + 1
      BY <1>1, <1>2
    <3> QED
      BY <3>1
  <2> QED
    BY <1>9, <1>10, <2>1 DEF PlaceOf, G
<1> QED
  BY <1>2, <1>3, <1>6, <1>7, <1>9, <1>10 DEF N, F, G, more

\* The entries as ReadMerged orders them, and what else the fold keeps to.
MergedRight(rs) ==
  LET merged == ReadMerged(Zero, rs)
  IN  /\ Len(merged) = Cardinality(FirstsOf(rs))
      /\ \A i \in FirstsOf(rs) :
           PlaceOf(rs, i) \in DOMAIN merged /\ merged[PlaceOf(rs, i)] = WholeOf(rs, i)
      /\ \A i, j \in FirstsOf(rs) : PlaceOf(rs, i) = PlaceOf(rs, j) => i = j
      /\ \A k \in DOMAIN merged : \E i \in FirstsOf(rs) : PlaceOf(rs, i) = k
      /\ \A i \in DOMAIN rs : rs[i].key # "" =>
           \E j \in FirstsOf(rs) : rs[j].key = rs[i].key

\* An entry has the key of the rows it is made of.
LEMMA KeyOfWhole ==
  ASSUME NEW rs \in Seq(Row), NEW i \in DOMAIN rs
  PROVE  WholeOf(rs, i) \in Row /\ WholeOf(rs, i).key = rs[i].key
<1> DEFINE key == rs[i].key
           N   == Len(rs)
<1>1. N \in Nat /\ DOMAIN rs = 1..N /\ rs[i] \in Row /\ \A j \in 1..N : rs[j] \in Row
  OBVIOUS
<1>2. CASE key = ""
  BY <1>1, <1>2 DEF WholeOf
<1>3. CASE key # ""
  <2>1. ASSUME NEW f \in Fields
        PROVE  \/ LastOf(rs, key, f) = Zero[f] /\ Having(rs, key, f) = {}
               \/ \E j \in 1..N : rs[j].key = key /\ LastOf(rs, key, f) = rs[j][f]
    <3> DEFINE S == Having(rs, key, f)
    <3>1. S \in SUBSET (1..N)
      BY <1>1 DEF Having
    <3>2. CASE S = {}
      BY <3>2 DEF LastOf
    <3>3. CASE S # {}
      <4> DEFINE top == CHOOSE m \in S : \A j \in S : j <= m
      <4> HIDE DEF S
      <4>1. top \in S
        BY <1>1, <3>1, <3>3, GreatestOf
      <4>2. LastOf(rs, key, f) = rs[top][f]
        BY <3>3 DEF LastOf, S
      <4>3. rs[top].key = key
        BY <4>1 DEF S, Having
      <4> QED
        BY <3>1, <4>1, <4>2, <4>3
    <3> QED
      BY <3>2, <3>3
  <2>2. LastOf(rs, key, "key") = key
    <3>1. i \in Having(rs, key, "key")
      BY <1>3 DEF Having, Zero
    <3> QED
      BY <1>1, <2>1, <3>1 DEF Fields, Row
  <2>3. LastOf(rs, key, "pre") \in Shas \cup {""}
    BY <1>1, <2>1 DEF Fields, Row, Zero
  <2>4. LastOf(rs, key, "overlapped") \in BOOLEAN
    BY <1>1, <2>1 DEF Fields, Row, Zero
  <2>5. WholeOf(rs, i) = [f \in Fields |-> LastOf(rs, key, f)]
    BY <1>3 DEF WholeOf
  <2>6. key \in Keys \cup {""}
    BY <1>1 DEF Row
  <2> QED
    BY <2>2, <2>3, <2>4, <2>5, <2>6 DEF Fields, Row
<1> QED
  BY <1>2, <1>3

\* One more row is merged into the entry of its key, and into no other.
LEMMA WholeOfMore ==
  ASSUME NEW rs \in Seq(Row), NEW row \in Row, NEW i \in DOMAIN rs
  PROVE  WholeOf(Append(rs, row), i) =
           IF row.key # "" /\ rs[i].key = row.key
           THEN MergeEntry(Zero, WholeOf(rs, i), row)
           ELSE WholeOf(rs, i)
<1> DEFINE more == Append(rs, row)
           key  == rs[i].key
<1>1. i \in DOMAIN more /\ more[i] = rs[i] /\ rs[i] \in Row
  OBVIOUS
<1>2. \A f \in Fields : LastOf(more, key, f) =
        IF row.key = key THEN Later(Zero[f], LastOf(rs, key, f), row[f])
                         ELSE LastOf(rs, key, f)
  BY LastOfMore
<1> HIDE DEF more
<1>3. CASE key = ""
  BY <1>1, <1>3 DEF WholeOf, more
<1>4. CASE key # "" /\ row.key # key
  <2>1. WholeOf(more, i) = [f \in Fields |-> LastOf(more, key, f)]
    BY <1>1, <1>4 DEF WholeOf
  <2>2. WholeOf(rs, i) = [f \in Fields |-> LastOf(rs, key, f)]
    BY <1>4 DEF WholeOf
  <2>3. \A f \in Fields : LastOf(more, key, f) = LastOf(rs, key, f)
    BY <1>2, <1>4
  <2> QED
    BY <1>4, <2>1, <2>2, <2>3 DEF more
<1>5. CASE key # "" /\ row.key = key
  <2> DEFINE whole == WholeOf(rs, i)
  <2>1. WholeOf(more, i) = [f \in Fields |-> LastOf(more, key, f)]
    BY <1>1, <1>5 DEF WholeOf
  <2>2. \A f \in Fields : whole[f] = LastOf(rs, key, f)
    BY <1>5 DEF WholeOf
  <2>3. MergeEntry(Zero, whole, row) = [f \in Fields |-> Later(Zero[f], whole[f], row[f])]
    BY RowIs DEF MergeEntry
  <2> HIDE DEF whole
  <2>4. \A f \in Fields : LastOf(more, key, f) = Later(Zero[f], whole[f], row[f])
    BY <1>2, <1>5, <2>2
  <2>5. WholeOf(more, i) = MergeEntry(Zero, whole, row)
    BY <2>1, <2>3, <2>4
  <2> QED
    BY <1>5, <2>5 DEF whole, more
<1> QED
  BY <1>3, <1>4, <1>5

\* A row that starts an entry is the whole of it.
LEMMA WholeOfFirst ==
  ASSUME NEW rs \in Seq(Row), NEW row \in Row, Starts(rs, row)
  PROVE  WholeOf(Append(rs, row), Len(rs) + 1) = row
<1> DEFINE more == Append(rs, row)
           N    == Len(rs)
<1>1. more[N + 1] = row
  OBVIOUS
<1>2. CASE row.key = ""
  BY <1>1, <1>2 DEF WholeOf
<1>3. CASE row.key # ""
  <2>1. \A f \in Fields : LastOf(rs, row.key, f) = Zero[f]
    BY <1>3, LastOfNone DEF Starts
  <2>2. \A f \in Fields :
          LastOf(more, row.key, f) = Later(Zero[f], LastOf(rs, row.key, f), row[f])
    BY LastOfMore
  <2>3. \A f \in Fields : LastOf(more, row.key, f) = row[f]
    BY <2>1, <2>2 DEF Later
  <2> HIDE DEF more
  <2>4. WholeOf(more, N + 1) = [f \in Fields |-> LastOf(more, row.key, f)]
    BY <1>1, <1>3 DEF WholeOf
  <2>5. WholeOf(more, N + 1) = [f \in Fields |-> row[f]]
    BY <2>3, <2>4
  <2> QED
    BY <2>5, RowIs DEF more
<1> QED
  BY <1>2, <1>3

\* A row whose key no entry has is put after them.
LEMMA StartsEntry ==
  ASSUME NEW m \in Seq(Row), NEW row \in Row, \A k \in DOMAIN m : m[k].key # row.key \/ row.key = ""
  PROVE  FoldRow(Zero, m, row) = Append(m, row)
<1>1. Zero.key = ""
  BY DEF Zero
<1>2. CASE row.key = ""
  BY <1>1, <1>2 DEF FoldRow
<1>3. CASE row.key # ""
  <2>1. {k \in DOMAIN m : m[k].key = row.key} = {}
    BY <1>3
  <2> QED
    BY <2>1 DEF FoldRow
<1> QED
  BY <1>2, <1>3

\* Two sequences with the same places are of one length.
LEMMA SameLength ==
  ASSUME NEW a \in Nat, NEW b \in Nat, 1..a = 1..b
  PROVE  a = b
<1>1. \A i \in Int : i \in 1..a <=> i \in 1..b
  OBVIOUS
<1>2. (a >= 1 => a <= b) /\ (b >= 1 => b <= a)
  BY <1>1
<1> QED
  BY <1>2

\* A sequence of rows, place by place.
LEMMA SeqOfRows ==
  ASSUME NEW rs \in Seq(Row)
  PROVE  Len(rs) \in Nat /\ DOMAIN rs = 1..Len(rs) /\ \A i \in DOMAIN rs : rs[i] \in Row
OBVIOUS

\* Where one entry has the row's key, it is the one merged into.
LEMMA JoinsEntry ==
  ASSUME NEW m \in Seq(Row), NEW row \in Row, row.key # "", NEW p \in DOMAIN m,
         m[p].key = row.key, \A k \in DOMAIN m : m[k].key = row.key => k = p
  PROVE  LET mm == FoldRow(Zero, m, row)
         IN  /\ DOMAIN mm = DOMAIN m /\ Len(mm) = Len(m)
             /\ mm[p] = MergeEntry(Zero, m[p], row)
             /\ \A k \in DOMAIN m : k # p => mm[k] = m[k]
<1> DEFINE same == {k \in DOMAIN m : m[k].key = row.key}
           one  == MergeEntry(Zero, m[p], row)
           mm   == FoldRow(Zero, m, row)
<1>1. Zero.key = ""
  BY DEF Zero
<1>2. p \in same /\ \A k \in same : k = p
  OBVIOUS
<1>3. mm = [m EXCEPT ![CHOOSE i \in same : TRUE] =
              MergeEntry(Zero, m[CHOOSE i \in same : TRUE], row)]
  BY <1>1, <1>2 DEF FoldRow
<1> HIDE DEF same
<1>4. (CHOOSE i \in same : TRUE) = p
  BY <1>2
<1>5. mm = [m EXCEPT ![p] = one]
  BY <1>3, <1>4
<1>6. one \in Row
  <2>1. m[p] \in Row
    BY SeqOfRows
  <2> QED
    BY <2>1, MergedIsRow
<1> HIDE DEF mm, one
<1>7. DOMAIN mm = DOMAIN m /\ mm[p] = one /\ \A k \in DOMAIN m : k # p => mm[k] = m[k]
  BY <1>5
<1>8. Len(mm) = Len(m)
  <2>1. mm \in Seq(Row)
    BY FoldIsRows DEF mm
  <2>2. DOMAIN mm = 1..Len(mm) /\ Len(mm) \in Nat
    BY <2>1, SeqOfRows
  <2>3. DOMAIN m = 1..Len(m) /\ Len(m) \in Nat
    BY SeqOfRows
  <2>4. 1..Len(mm) = 1..Len(m)
    BY <1>7, <2>2, <2>3
  <2> HIDE DEF mm
  <2> QED
    BY <2>2, <2>3, <2>4, SameLength
<1> QED
  BY <1>7, <1>8 DEF mm, one

\* The entries stay right when one more row is folded in.
LEMMA MergedRightStep ==
  ASSUME NEW rs \in Seq(Row), NEW row \in Row, MergedRight(rs)
  PROVE  MergedRight(Append(rs, row))
<1> DEFINE more == Append(rs, row)
           N    == Len(rs)
           F    == FirstsOf(rs)
           G    == FirstsOf(more)
           m    == ReadMerged(Zero, rs)
           mm   == ReadMerged(Zero, more)
           P(i) == PlaceOf(rs, i)
           Q(i) == PlaceOf(more, i)
           W(i) == WholeOf(rs, i)
           X(i) == WholeOf(more, i)
<1>1. /\ N \in Nat /\ DOMAIN rs = 1..N /\ DOMAIN more = 1..(N + 1) /\ more[N + 1] = row
      /\ \A n \in 1..N : more[n] = rs[n]
  OBVIOUS
<1>2. m \in Seq(Row) /\ mm = FoldRow(Zero, m, row)
  BY MergedAppend
<1>3. F \in SUBSET (1..N) /\ Cardinality(F) \in Nat
  BY FirstsOfMore
<1>4. \A i \in F : Q(i) = P(i)
  BY FirstsOfMore
<1>5. /\ Starts(rs, row) => G = F \cup {N + 1} /\ Cardinality(G) = Cardinality(F) + 1
      /\ Starts(rs, row) => Q(N + 1) = Cardinality(F) + 1
      /\ ~Starts(rs, row) => G = F
  BY FirstsOfMore
<1>6. Len(m) = Cardinality(F)
  BY DEF MergedRight
<1>7. \A i \in F : P(i) \in DOMAIN m /\ m[P(i)] = W(i)
  BY DEF MergedRight
<1>8. \A i, j \in F : P(i) = P(j) => i = j
  BY DEF MergedRight
<1>9. \A k \in DOMAIN m : \E i \in F : P(i) = k
  BY DEF MergedRight
<1>10. \A i \in DOMAIN rs : rs[i].key # "" => \E j \in F : rs[j].key = rs[i].key
  BY DEF MergedRight
<1>11. ASSUME NEW i \in F PROVE W(i).key = rs[i].key
  <2>1. i \in DOMAIN rs
    BY <1>1, <1>3
  <2> QED
    BY <2>1, KeyOfWhole
<1>12. ASSUME NEW i \in F
       PROVE  X(i) = IF row.key # "" /\ rs[i].key = row.key
                     THEN MergeEntry(Zero, W(i), row) ELSE W(i)
  <2>1. i \in DOMAIN rs
    BY <1>1, <1>3
  <2> QED
    BY <2>1, WholeOfMore
<1>13. Starts(rs, row) => X(N + 1) = row
  BY WholeOfFirst
<1>14. SUFFICES
         /\ Len(mm) = Cardinality(G)
         /\ \A i \in G : Q(i) \in DOMAIN mm /\ mm[Q(i)] = X(i)
         /\ \A i, j \in G : Q(i) = Q(j) => i = j
         /\ \A k \in DOMAIN mm : \E i \in G : Q(i) = k
         /\ \A i \in DOMAIN more : more[i].key # "" => \E j \in G : more[j].key = more[i].key
  BY DEF MergedRight
<1>15. Len(m) \in Nat /\ DOMAIN m = 1..Len(m)
  <2> HIDE DEF m
  <2> QED
    BY <1>2
<1>16. ASSUME NEW i \in F PROVE m[P(i)].key = rs[i].key
  BY <1>7, <1>11
<1>17. F \subseteq G
  <2> HIDE DEF F, G
  <2> QED
    BY <1>5
<1>18. \A i \in DOMAIN rs : i \in 1..N /\ more[i] = rs[i]
  BY <1>1
<1> HIDE DEF more, N, F, G, m, mm, P, Q, W, X
<1>20. CASE Starts(rs, row)
  <2>1. mm = Append(m, row)
    <3>1. ASSUME NEW k \in DOMAIN m PROVE m[k].key # row.key \/ row.key = ""
      <4>1. PICK i \in F : P(i) = k
        BY <1>9
      <4>2. i \in DOMAIN rs /\ m[k].key = rs[i].key
        BY <1>1, <1>3, <1>16, <4>1
      <4> QED
        BY <1>20, <4>2 DEF Starts
    <3> QED
      BY <1>2, <3>1, StartsEntry
  <2>2. Len(mm) = Len(m) + 1 /\ DOMAIN mm = 1..(Len(m) + 1)
    BY <1>2, <2>1
  <2>3. mm[Len(m) + 1] = row /\ Len(m) + 1 \in DOMAIN mm /\ Len(m) + 1 \notin DOMAIN m
    BY <1>2, <1>15, <2>1
  <2>4. ASSUME NEW k \in DOMAIN m PROVE mm[k] = m[k] /\ k \in DOMAIN mm
    BY <1>2, <1>15, <2>1
  <2>5. Q(N + 1) = Len(m) + 1 /\ G = F \cup {N + 1} /\ Len(mm) = Cardinality(G)
    BY <1>5, <1>6, <1>20, <2>2
  <2>6. ASSUME NEW i \in F PROVE Q(i) \in DOMAIN mm /\ mm[Q(i)] = X(i) /\ Q(i) \in DOMAIN m
    <3>1. Q(i) = P(i) /\ P(i) \in DOMAIN m /\ m[P(i)] = W(i)
      BY <1>4, <1>7
    <3>2. i \in DOMAIN rs
      BY <1>1, <1>3
    <3>3. X(i) = W(i)
      BY <1>12, <1>20, <3>2 DEF Starts
    <3> QED
      BY <2>4, <3>1, <3>3
  <2>7. Q(N + 1) \in DOMAIN mm /\ mm[Q(N + 1)] = X(N + 1) /\ Q(N + 1) \notin DOMAIN m
    BY <1>13, <1>20, <2>3, <2>5
  <2>8. ASSUME NEW i \in G, NEW j \in G, Q(i) = Q(j) PROVE i = j
    <3>1. (i \in F \/ i = N + 1) /\ (j \in F \/ j = N + 1)
      BY <2>5
    <3>2. CASE i \in F /\ j \in F
      BY <1>4, <1>8, <2>8, <3>2
    <3>3. CASE ~(i \in F /\ j \in F)
      BY <2>6, <2>7, <2>8, <3>1, <3>3
    <3> QED
      BY <3>2, <3>3
  <2>9. ASSUME NEW k \in DOMAIN mm PROVE \E i \in G : Q(i) = k
    <3>1. CASE k = Len(m) + 1
      BY <2>5, <3>1
    <3>2. CASE k # Len(m) + 1
      <4>1. k \in DOMAIN m
        BY <1>15, <2>2, <3>2
      <4>2. PICK i \in F : P(i) = k
        BY <1>9, <4>1
      <4> QED
        BY <1>4, <2>5, <4>2
    <3> QED
      BY <3>1, <3>2
  <2>10. ASSUME NEW i \in DOMAIN more, more[i].key # ""
        PROVE  \E j \in G : more[j].key = more[i].key
    <3>1. CASE i = N + 1
      BY <2>5, <3>1
    <3>2. CASE i # N + 1
      <4>1. i \in DOMAIN rs
        BY <1>1, <3>2
      <4>2. PICK j \in F : rs[j].key = rs[i].key
        BY <1>10, <1>18, <2>10, <4>1
      <4>3. j \in DOMAIN rs
        BY <1>1, <1>3
      <4> QED
        BY <1>17, <1>18, <4>1, <4>2, <4>3
    <3> QED
      BY <3>1, <3>2
  <2>11. ASSUME NEW i \in G PROVE Q(i) \in DOMAIN mm /\ mm[Q(i)] = X(i)
    BY <2>5, <2>6, <2>7
  <2> QED
    BY <2>5, <2>8, <2>9, <2>10, <2>11
<1>21. CASE ~Starts(rs, row)
  <2>1. row.key # "" /\ \E i \in DOMAIN rs : rs[i].key = row.key
    BY <1>21 DEF Starts
  <2>2. PICK a \in F : rs[a].key = row.key
    BY <1>10, <2>1
  <2>3. ASSUME NEW i \in F, rs[i].key = row.key PROVE i = a
    <3>1. ASSUME NEW b \in F, rs[b].key = row.key, NEW c \in F, rs[c].key = row.key, b < c
          PROVE  FALSE
      <4>1. b \in 1..(c - 1)
        <5>1. b \in 1..N /\ c \in 1..N
          BY <1>3
        <5> QED
          BY <1>1, <3>1, <5>1
      <4> QED
        BY <2>1, <3>1, <4>1 DEF F, FirstsOf
    <3>2. i \in Nat /\ a \in Nat
      BY <1>1, <1>3
    <3> QED
      BY <2>2, <2>3, <3>1, <3>2
  <2>4. P(a) \in DOMAIN m /\ m[P(a)].key = row.key
    BY <1>7, <1>16, <2>2
  <2>5. ASSUME NEW k \in DOMAIN m, m[k].key = row.key PROVE k = P(a)
    <3>1. PICK i \in F : P(i) = k
      BY <1>9
    <3>2. rs[i].key = row.key
      BY <1>16, <2>5, <3>1
    <3> QED
      BY <2>3, <3>1, <3>2
  <2>6. /\ DOMAIN mm = DOMAIN m /\ Len(mm) = Len(m)
        /\ mm[P(a)] = MergeEntry(Zero, m[P(a)], row)
        /\ \A k \in DOMAIN m : k # P(a) => mm[k] = m[k]
    <3> DEFINE p == P(a)
    <3>1. p \in DOMAIN m /\ m[p].key = row.key /\ \A k \in DOMAIN m : m[k].key = row.key => k = p
      BY <2>4, <2>5
    <3> HIDE DEF p
    <3>2. LET new == FoldRow(Zero, m, row)
          IN  /\ DOMAIN new = DOMAIN m /\ Len(new) = Len(m)
              /\ new[p] = MergeEntry(Zero, m[p], row)
              /\ \A k \in DOMAIN m : k # p => new[k] = m[k]
      BY <1>2, <2>1, <3>1, JoinsEntry
    <3> QED
      BY <1>2, <3>2 DEF p
  <2>7. G = F /\ Len(mm) = Cardinality(G)
    BY <1>5, <1>6, <1>21, <2>6
  <2>8. ASSUME NEW i \in F PROVE Q(i) \in DOMAIN mm /\ mm[Q(i)] = X(i)
    <3>1. Q(i) = P(i) /\ P(i) \in DOMAIN m /\ m[P(i)] = W(i)
      BY <1>4, <1>7
    <3>2. CASE i = a
      <4>1. X(i) = MergeEntry(Zero, W(i), row)
        BY <1>12, <2>1, <2>2, <3>2
      <4> QED
        BY <2>6, <3>1, <3>2, <4>1
    <3>3. CASE i # a
      <4>1. P(i) # P(a) /\ rs[i].key # row.key
        BY <1>8, <2>2, <2>3, <3>3
      <4>2. X(i) = W(i)
        BY <1>12, <4>1
      <4> QED
        BY <2>6, <3>1, <4>1, <4>2
    <3> QED
      BY <3>2, <3>3
  <2>9. ASSUME NEW i \in F, NEW j \in F, Q(i) = Q(j) PROVE i = j
    BY <1>4, <1>8, <2>9
  <2>10. ASSUME NEW k \in DOMAIN mm PROVE \E i \in F : Q(i) = k
    <3>1. PICK i \in F : P(i) = k
      BY <1>9, <2>6
    <3> QED
      BY <1>4, <3>1
  <2>11. ASSUME NEW i \in DOMAIN more, more[i].key # ""
         PROVE  \E j \in F : more[j].key = more[i].key
    <3>1. CASE i = N + 1
      <4>1. a \in DOMAIN rs
        BY <1>1, <1>3
      <4> QED
        BY <1>1, <1>18, <2>2, <3>1, <4>1
    <3>2. CASE i # N + 1
      <4>1. i \in DOMAIN rs
        BY <1>1, <3>2
      <4>2. PICK j \in F : rs[j].key = rs[i].key
        BY <1>10, <1>18, <2>11, <4>1
      <4>3. j \in DOMAIN rs
        BY <1>1, <1>3
      <4> QED
        BY <1>18, <4>1, <4>2, <4>3
    <3> QED
      BY <3>1, <3>2
  <2> QED
    BY <2>7, <2>8, <2>9, <2>10, <2>11
<1> QED
  BY <1>20, <1>21
\* An empty journal has no entry.
LEMMA MergedRightNone == MergedRight(<<>>)
<1>1. FirstsOf(<<>>) = {}
  BY DEF FirstsOf
<1>2. Cardinality({}) = 0
  BY FS_EmptySet
<1>3. DOMAIN <<>> = {} /\ Len(<<>>) = 0
  OBVIOUS
<1> QED
  BY <1>1, <1>2, <1>3, MergedOfNone DEF MergedRight

\* The entry of a key holds what was last set in each of its fields.
LEMMA EntryIsLast ==
  ASSUME NEW rs \in Seq(Row), MergedRight(rs), NEW key \in Keys
  PROVE  EntryOf(rs, key) = [f \in Fields |-> LastOf(rs, key, f)]
<1> DEFINE m    == ReadMerged(Zero, rs)
           F    == FirstsOf(rs)
           P(i) == PlaceOf(rs, i)
           W(i) == WholeOf(rs, i)
           hits == {k \in DOMAIN m : m[k].key = key}
           top  == CHOOSE k \in hits : \A j \in hits : k <= j
<1>1. key # ""
  BY KeysAssumption
<1>2. F \subseteq DOMAIN rs
  BY DEF FirstsOf
<1>3. EntryOf(rs, key) = IF hits = {} THEN Zero ELSE m[top]
  BY DEF EntryOf, FirstOf
<1>4. \A i \in F : P(i) \in DOMAIN m /\ m[P(i)] = W(i)
  BY DEF MergedRight
<1>5. \A i, j \in F : P(i) = P(j) => i = j
  BY DEF MergedRight
<1>6. \A k \in DOMAIN m : \E i \in F : P(i) = k
  BY DEF MergedRight
<1>7. \A i \in DOMAIN rs : rs[i].key # "" => \E j \in F : rs[j].key = rs[i].key
  BY DEF MergedRight
<1>8. ASSUME NEW i \in F PROVE m[P(i)].key = rs[i].key
  BY <1>2, <1>4, KeyOfWhole
<1>9. DOMAIN m \subseteq Nat
  <2>1. m \in Seq(Row)
    BY MergedLoop, MergedAppend
  <2> QED
    BY <2>1, SeqOfRows
<1> HIDE DEF m, F, P, W
<1>10. CASE hits = {}
  <2>1. ASSUME NEW i \in DOMAIN rs, rs[i].key = key PROVE FALSE
    <3>1. PICK j \in F : rs[j].key = key
      BY <1>1, <1>7, <2>1
    <3> QED
      BY <1>4, <1>8, <1>10, <3>1
  <2>2. \A f \in Fields : LastOf(rs, key, f) = Zero[f]
    BY <2>1, LastOfNone
  <2>3. Zero = [f \in Fields |-> Zero[f]]
    BY RowIs
  <2> HIDE DEF hits
  <2> QED
    BY <1>3, <1>10, <2>2, <2>3
<1>11. CASE hits # {}
  <2>1. PICK a \in F : P(a) \in hits
    BY <1>6, <1>11
  <2>2. rs[a].key = key
    BY <1>8, <2>1
  <2>3. ASSUME NEW k \in hits PROVE k = P(a)
    <3>1. PICK i \in F : P(i) = k
      BY <1>6
    <3>2. rs[i].key = key
      BY <1>8, <3>1
    <3>3. ASSUME NEW b \in F, rs[b].key = key, NEW c \in F, rs[c].key = key, b < c
          PROVE  FALSE
      <4>1. b \in 1..(c - 1)
        <5>1. DOMAIN rs = 1..Len(rs) /\ Len(rs) \in Nat
          BY SeqOfRows
        <5> QED
          BY <1>2, <3>3, <5>1
      <4> QED
        BY <1>1, <3>3, <4>1 DEF F, FirstsOf
    <3>4. i \in Nat /\ a \in Nat
      BY <1>2, SeqOfRows
    <3> QED
      BY <2>2, <3>1, <3>2, <3>3, <3>4
  <2>4. P(a) \in Nat
    BY <1>9, <2>1
  <2> HIDE DEF hits
  <2>5. top = P(a)
    BY <2>1, <2>3, <2>4
  <2>6. EntryOf(rs, key) = W(a)
    BY <1>3, <1>4, <1>11, <2>1, <2>5
  <2> QED
    BY <1>1, <2>2, <2>6 DEF W, WholeOf
<1> QED
  BY <1>10, <1>11

\* The rows of a journal, and the entries they are folded to, in every behaviour.
RowsInv == rows \in Seq(Row) /\ MergedRight(rows)

\* A journal changes by one row at its end.
LEMMA RowsStep ==
  RowsInv /\ [LedgerNext]_<<rows, vars, fileVars>> => RowsInv'
<1> SUFFICES ASSUME RowsInv, [LedgerNext]_<<rows, vars, fileVars>> PROVE RowsInv'
  OBVIOUS
<1>1. CASE rows' = rows
  BY <1>1 DEF RowsInv
<1>2. ASSUME NEW row \in Row, AppendRow(row) PROVE RowsInv'
  <2>1. rows' = Append(rows, row)
    BY <1>2 DEF AppendRow
  <2>2. Append(rows, row) \in Seq(Row) /\ MergedRight(Append(rows, row))
    BY MergedRightStep DEF RowsInv
  <2> QED
    BY <2>1, <2>2 DEF RowsInv
<1> QED
  BY <1>1, <1>2, StepOf

\* The rows are folded to the right entries in every behaviour.
LEMMA RowsHold == LedgerSpec => []RowsInv
<1>1. LedgerInit => RowsInv
  BY MergedRightNone DEF LedgerInit, NoRows, RowsInv
<1> QED
  BY <1>1, RowsStep, PTL DEF LedgerSpec

\* ReadMerged: one entry for each key, in first-seen order, each field of it from the
\* last row of the key that set it, and a row without a key on its own.
THEOREM FoldIsLastSet == LedgerSpec => []MergedIsLastSet
<1>1. RowsInv => MergedIsLastSet
  <2> SUFFICES ASSUME RowsInv PROVE MergedIsLastSet
    OBVIOUS
  <2>1. FirstSeen = FirstsOf(rows) /\ \A i : Place(i) = PlaceOf(rows, i)
    BY DEF FirstSeen, FirstsOf, Place, PlaceOf
  <2>2. \A key, f : LastSet(key, f) = LastOf(rows, key, f)
    BY DEF LastSet, LastOf, Having
  <2>3. \A i : Whole(i) = WholeOf(rows, i)
    <3>1. \A key : [f \in DOMAIN Zero |-> LastSet(key, f)] =
                   [f \in Fields |-> LastOf(rows, key, f)]
      <4>1. DOMAIN Zero = Fields
        BY RowIs
      <4> QED
        BY <2>2, <4>1
    <3> QED
      BY <3>1 DEF Whole, WholeOf
  <2> QED
    BY <2>1, <2>3 DEF RowsInv, MergedRight, MergedIsLastSet
<1> QED
  BY <1>1, RowsHold, PTL

\* PreSHAFor: the pairing of a post finds the last pre snapshot its key was given.
THEOREM PostFindsLastPre == LedgerSpec => []PairsWithLastPre
<1>1. RowsInv => PairsWithLastPre
  <2> SUFFICES ASSUME RowsInv, NEW key \in Keys
               PROVE  PreSHAFor(Zero, rows, key) = LastSet(key, "pre")
    BY DEF PairsWithLastPre
  <2>1. EntryOf(rows, key) = [f \in Fields |-> LastOf(rows, key, f)]
    BY EntryIsLast DEF RowsInv
  <2>2. PreSHAFor(Zero, rows, key) = EntryOf(rows, key).pre
    BY DEF PreSHAFor, EntryOf
  <2>3. LastSet(key, "pre") = LastOf(rows, key, "pre")
    BY DEF LastSet, LastOf, Having
  <2> QED
    BY <2>1, <2>2, <2>3 DEF Fields
<1> QED
  BY <1>1, RowsHold, PTL

\* What one more row does to the entry of a key.
LEMMA EntryOfMore ==
  ASSUME NEW rs \in Seq(Row), MergedRight(rs), NEW row \in Row, NEW key \in Keys
  PROVE  EntryOf(Append(rs, row), key) =
           IF row.key = key
           THEN [MergeEntry(Zero, EntryOf(rs, key), row) EXCEPT !.key = key]
           ELSE EntryOf(rs, key)
<1> DEFINE more == Append(rs, row)
           old  == EntryOf(rs, key)
<1>1. old = [f \in Fields |-> LastOf(rs, key, f)]
  BY EntryIsLast
<1>2. EntryOf(more, key) = [f \in Fields |-> LastOf(more, key, f)]
  <2>1. more \in Seq(Row) /\ MergedRight(more)
    BY MergedRightStep
  <2> HIDE DEF more
  <2> QED
    BY <2>1, EntryIsLast
<1>3. \A f \in Fields : LastOf(more, key, f) =
        IF row.key = key THEN Later(Zero[f], LastOf(rs, key, f), row[f])
                         ELSE LastOf(rs, key, f)
  BY LastOfMore
<1> HIDE DEF more, old
<1>4. CASE row.key # key
  BY <1>1, <1>2, <1>3, <1>4 DEF more, old
<1>5. CASE row.key = key
  <2> DEFINE both == MergeEntry(Zero, old, row)
  <2>1. both = [f \in Fields |-> Later(Zero[f], old[f], row[f])]
    BY RowIs DEF MergeEntry
  <2>2. \A f \in Fields : LastOf(more, key, f) = Later(Zero[f], old[f], row[f])
    BY <1>1, <1>3, <1>5
  <2>3. EntryOf(more, key) = both
    BY <1>2, <2>1, <2>2
  <2>4. "key" \in Fields /\ Zero["key"] = "" /\ row["key"] = key /\ key # ""
    BY <1>5, KeysAssumption DEF Fields, Zero
  <2>5. both["key"] = key
    BY <2>1, <2>4 DEF Later
  <2>6. both = [both EXCEPT !["key"] = key]
    <3> DEFINE V == [f \in Fields |-> Later(Zero[f], old[f], row[f])]
    <3>1. V["key"] = key
      BY <2>1, <2>5
    <3>2. V = [V EXCEPT !["key"] = key]
      BY <2>4, <3>1
    <3> QED
      BY <2>1, <3>2
  <2> QED
    BY <1>5, <2>3, <2>6 DEF more, old
<1> QED
  BY <1>4, <1>5

\* ReadMerged: appending a row merges it into the entry of its key, and changes the
\* entry of no other.
THEOREM AppendMerges == LedgerSpec => AppendIsMerge
<1> DEFINE Merges ==
      rows' # rows => \A key \in Keys :
         EntryOf(rows', key) =
           IF Last(rows').key = key
           THEN [MergeEntry(Zero, EntryOf(rows, key), Last(rows')) EXCEPT !.key = key]
           ELSE EntryOf(rows, key)
<1>1. RowsInv /\ [LedgerNext]_<<rows, vars, fileVars>> => [Merges]_rows
  <2> SUFFICES ASSUME RowsInv, [LedgerNext]_<<rows, vars, fileVars>>, rows' # rows,
                      NEW key \in Keys
               PROVE  EntryOf(rows', key) =
                        IF Last(rows').key = key
                        THEN [MergeEntry(Zero, EntryOf(rows, key), Last(rows'))
                                EXCEPT !.key = key]
                        ELSE EntryOf(rows, key)
    OBVIOUS
  <2>1. PICK row \in Row : AppendRow(row)
    BY StepOf
  <2>2. rows' = Append(rows, row) /\ Last(rows') = row
    BY <2>1 DEF AppendRow, RowsInv, Last
  <2>3. rows \in Seq(Row) /\ MergedRight(rows)
    BY DEF RowsInv
  <2>4. EntryOf(Append(rows, row), key) =
          IF row.key = key
          THEN [MergeEntry(Zero, EntryOf(rows, key), row) EXCEPT !.key = key]
          ELSE EntryOf(rows, key)
    BY <2>3, EntryOfMore
  <2> QED
    BY <2>2, <2>4
<1> HIDE DEF Merges
<1>2. LedgerSpec => [][Merges]_rows
  BY <1>1, RowsHold, PTL DEF LedgerSpec
<1> QED
  BY <1>2 DEF AppendIsMerge, Merges
=============================================================================
