--------------------------- MODULE UnlockedProofs ---------------------------
(* What several processes do to the same files and nobody locks: garbage      *)
(* collections beside sessions (GC) and installs beside each other and an editor *)
(* (Wiring), for any number of them, and for any sizes, settings and times.   *)
EXTENDS GC, Wiring, SequenceTheorems, WellFoundedInduction, TLAPS
-----------------------------------------------------------------------------
(* GC: a collector decides on what it saw and removes later; what holds of its *)
(* lists in the meantime is kept for all but the sessions in `since`, which have *)
(* written, or come up, after it asked.                                       *)

Listed(p) == gc[p].aged \cup gc[p].over

\* Not the collector's to decide on any more, or gone already.
Settled(p, s) == s \in since[p] \/ newest[s] = None

\* No file is of the future.
WritesArePast == \A s \in Sessions : newest[s] # None => newest[s] <= now

\* Only a pass that removes has lists.
ListsAreOfRemovers == \A p \in Collectors : gc[p].at # "removing" => Listed(p) = {}

\* Who is alive was so when the collector asked, and then is on no list, or came up since.
LiveAreKnown ==
  \A p \in Collectors :
    /\ gc[p].at = "asked" => live \subseteq gc[p].active \cup since[p]
    /\ live \cap Listed(p) \subseteq since[p]

\* What is on the list of the age pass is as old as it was.
AgedAreOld ==
  \A p \in Collectors : \A s \in gc[p].aged :
    Settled(p, s) \/ now - newest[s] > OlderThan(p)

\* What is to go for the cap has no write within the grace time ...
OverAreQuiet ==
  \A p \in Collectors : \A s \in gc[p].over : Settled(p, s) \/ now - newest[s] > Grace

\* The age of which some collector removes a session, whatever the cap.
PastAge(s) == \E q \in Collectors : now - newest[s] > OlderThan(q)

\* ... and is not the project's last, unless that is past its age.
OverAreNotLast ==
  \A p \in Collectors : \A s \in gc[p].over :
    Settled(p, s) \/ PastAge(s) \/ \E t \in Kept : Older(s, t)

GCInv ==
  /\ GCTypeOK
  /\ WritesArePast
  /\ ListsAreOfRemovers
  /\ LiveAreKnown
  /\ AgedAreOld
  /\ OverAreQuiet
  /\ ~raced => OverAreNotLast
-----------------------------------------------------------------------------
\* What the steps use of the constants.
LEMMA ConstantsAre ==
  /\ Sessions \subseteq Nat /\ Times \subseteq Int /\ None \notin Times
  /\ Grace \in Nat /\ \A p \in Collectors : OlderThan(p) \in Nat /\ Grace <= OlderThan(p)
  BY GCAssumption DEF Times, OlderThan

\* Older is the order of the writes.
LEMMA OlderIsOrder ==
  ASSUME GCTypeOK
  PROVE  /\ \A s \in Kept : ~Older(s, s) /\ newest[s] \in Times
         /\ \A s, t, u \in Kept : Older(s, t) /\ Older(t, u) => Older(s, u)
         /\ \A s, t \in Kept : Older(s, t) => newest[s] <= newest[t]
<1>1. \A s \in Kept : s \in Nat /\ newest[s] \in Times /\ newest[s] \in Int
  BY ConstantsAre DEF GCTypeOK, Kept
<1>2. QED  BY <1>1 DEF Older

\* A tick of the clock.
LEMMA TickKeeps == ASSUME GCInv, Tick PROVE GCInv'
<1>1. /\ now \in Int /\ now' = now + 1 /\ now' \in Times
      /\ UNCHANGED <<newest, live, gc, since, raced>>
  BY GCAssumption DEF GCInv, GCTypeOK, Tick, Times
<1>2. \A s \in Sessions : newest[s] # None => newest[s] \in Int
  BY ConstantsAre DEF GCInv, GCTypeOK
<1>3. GCTypeOK' /\ WritesArePast' /\ ListsAreOfRemovers' /\ LiveAreKnown'
  BY <1>1, <1>2 DEF GCInv, GCTypeOK, WritesArePast, ListsAreOfRemovers, LiveAreKnown, Listed
<1>4. \A p \in Collectors : gc[p].aged \subseteq Sessions /\ gc[p].over \subseteq Sessions
  BY DEF GCInv, GCTypeOK, Pass
<1>5. \A p \in Collectors : OlderThan(p)' = OlderThan(p) /\ OlderThan(p) \in Int /\ Grace \in Int
  BY ConstantsAre DEF OlderThan
<1>6. AgedAreOld' /\ OverAreQuiet'
  BY <1>1, <1>2, <1>4, <1>5 DEF GCInv, AgedAreOld, OverAreQuiet, Settled
<1>7. ASSUME ~raced' PROVE OverAreNotLast'
  <2>1. OverAreNotLast  BY <1>1, <1>7 DEF GCInv
  <2>2. \A s \in Sessions : newest[s] # None /\ PastAge(s) => PastAge(s)'
    BY <1>1, <1>2, <1>5 DEF PastAge
  <2>3. /\ Kept' = Kept /\ \A s, t : Older(s, t)' = Older(s, t)
        /\ \A p, s : Settled(p, s)' = Settled(p, s)
    BY <1>1 DEF Kept, Older, Settled
  <2>4. ASSUME NEW p \in Collectors, NEW s \in gc'[p].over
        PROVE  Settled(p, s)' \/ PastAge(s)' \/ \E t \in Kept' : Older(s, t)'
    <3>1. s \in gc[p].over /\ s \in Sessions  BY <1>1, <1>4, <2>4
    <3>2. Settled(p, s) \/ PastAge(s) \/ \E t \in Kept : Older(s, t)
      BY <2>1, <3>1 DEF OverAreNotLast
    <3>3. newest[s] = None => Settled(p, s)  BY DEF Settled
    <3>4. QED  BY <2>2, <2>3, <3>1, <3>2, <3>3
  <2>5. QED  BY <2>4 DEF OverAreNotLast
<1>8. QED  BY <1>3, <1>6, <1>7 DEF GCInv

\* A session of whom a collector knows nothing else than that it writes or comes up.
LEMMA NotedIs ==
  ASSUME GCInv, NEW s \in Sessions, Noted(s), UNCHANGED gc
  PROVE  /\ since' \in [Collectors -> SUBSET Sessions]
         /\ \A p \in Collectors :
              /\ since[p] \subseteq since'[p]
              /\ gc[p].at = "asked" \/ s \in Listed(p) => s \in since'[p]
  BY DEF GCInv, GCTypeOK, Noted, Listed

\* A snapshot: what lies in the lists of others is settled by it, or was not its.
LEMMA SessionKeeps == ASSUME GCInv, NEW s \in Sessions, SessionWrites(s) PROVE GCInv'
<1>1. /\ newest \in [Sessions -> Times \cup {None}] /\ now \in Times /\ now # None
      /\ newest' = [newest EXCEPT ![s] = now]
      /\ live' \in {live, live \cup {s}} /\ Noted(s) /\ UNCHANGED <<now, gc, raced>>
  BY ConstantsAre DEF GCInv, GCTypeOK, SessionWrites
<1>2. /\ newest' \in [Sessions -> Times \cup {None}] /\ newest'[s] = now
      /\ \A t \in Sessions : t # s => newest'[t] = newest[t]
  BY <1>1
<1>3. /\ since' \in [Collectors -> SUBSET Sessions]
      /\ \A p \in Collectors :
           /\ since[p] \subseteq since'[p]
           /\ gc[p].at = "asked" \/ s \in Listed(p) => s \in since'[p]
  BY <1>1, NotedIs
<1>4. now \in Int /\ \A t \in Sessions : newest[t] # None => newest[t] \in Int
  BY <1>1, ConstantsAre
<1>5. GCTypeOK' /\ WritesArePast' /\ ListsAreOfRemovers'
  BY <1>1, <1>2, <1>3, <1>4 DEF GCInv, GCTypeOK, WritesArePast, ListsAreOfRemovers, Listed
<1>6. LiveAreKnown'
  BY <1>1, <1>3 DEF GCInv, LiveAreKnown, Listed
<1>7. ASSUME NEW p \in Collectors, NEW t \in Listed(p), ~Settled(p, t)'
      PROVE  t \in Sessions /\ t # s /\ newest'[t] = newest[t] /\ ~Settled(p, t)
  <2>1. t \in Sessions  BY DEF GCInv, GCTypeOK, Pass, Listed
  <2>2. QED  BY <1>2, <1>3, <1>7, <2>1 DEF Settled
<1>8. AgedAreOld' /\ OverAreQuiet'
  BY <1>1, <1>7 DEF GCInv, AgedAreOld, OverAreQuiet, Listed, OlderThan
<1>9. ASSUME ~raced' PROVE OverAreNotLast'
  <2>1. OverAreNotLast  BY <1>1, <1>9 DEF GCInv
  <2>2. ASSUME NEW p \in Collectors, NEW t \in gc[p].over, ~Settled(p, t)'
        PROVE  PastAge(t)' \/ \E u \in Kept' : Older(t, u)'
    <3>1. t \in Sessions /\ t # s /\ newest'[t] = newest[t] /\ ~Settled(p, t)
      BY <1>7, <2>2 DEF Listed
    <3>2. CASE PastAge(t)
      BY <1>1, <3>1, <3>2 DEF PastAge, OlderThan
    <3>3. CASE \E u \in Kept : Older(t, u)
      <4>1. PICK u \in Kept : Older(t, u)  BY <3>3
      <4>2. u \in Kept'  BY <1>1, <1>2, <4>1 DEF Kept
      <4>3. CASE u # s  BY <1>2, <3>1, <4>1, <4>2, <4>3 DEF Older, Kept
      <4>4. CASE u = s
        <5>1. now - newest[t] > Grace  BY <2>2, <3>1 DEF GCInv, OverAreQuiet
        <5>2. newest[t] < now
          BY <1>4, <3>1, <5>1, ConstantsAre DEF Settled
        <5>3. QED  BY <1>2, <3>1, <4>2, <4>4, <5>2 DEF Older
      <4>5. QED  BY <4>3, <4>4
    <3>4. QED  BY <2>1, <2>2, <3>1, <3>2, <3>3 DEF OverAreNotLast
  <2>3. QED  BY <1>1, <2>2 DEF OverAreNotLast
<1>10. QED  BY <1>5, <1>6, <1>8, <1>9 DEF GCInv

\* A daemon comes up, and writes nothing.
LEMMA SkipKeeps == ASSUME GCInv, NEW s \in Sessions, Skip(s) PROVE GCInv'
<1>1. live' = live \cup {s} /\ Noted(s) /\ UNCHANGED <<now, newest, gc, raced>>
  BY DEF Skip
<1>2. /\ since' \in [Collectors -> SUBSET Sessions]
      /\ \A p \in Collectors :
           /\ since[p] \subseteq since'[p]
           /\ gc[p].at = "asked" \/ s \in Listed(p) => s \in since'[p]
  BY <1>1, NotedIs
<1>3. GCTypeOK' /\ WritesArePast' /\ ListsAreOfRemovers' /\ LiveAreKnown'
  BY <1>1, <1>2 DEF GCInv, GCTypeOK, WritesArePast, ListsAreOfRemovers, LiveAreKnown, Listed
<1>4. /\ \A p \in Collectors : \A t : Settled(p, t) => Settled(p, t)'
      /\ \A t, u : Older(t, u)' = Older(t, u) /\ PastAge(t)' = PastAge(t)
      /\ Kept' = Kept
  BY <1>1, <1>2 DEF Settled, Older, PastAge, OlderThan, Kept
<1>5. AgedAreOld' /\ OverAreQuiet' /\ (~raced' => OverAreNotLast')
  BY <1>1, <1>4 DEF GCInv, AgedAreOld, OverAreQuiet, OverAreNotLast, OlderThan
<1>6. QED  BY <1>3, <1>5 DEF GCInv

\* A collector asks who is alive: it has no lists yet, and what it saw of the sessions
\* is complete.
LEMMA CollectorKeeps ==
  ASSUME GCInv, NEW p \in Collectors, NEW active \in SUBSET Sessions,
         Begin(p, active), live' \subseteq live, live' \subseteq active,
         UNCHANGED <<now, newest, raced>>
  PROVE  GCInv'
<1>. DEFINE pass == [NoPass EXCEPT !.at = "asked", !.active = active]
<1>1. /\ pass \in Pass /\ pass.at = "asked" /\ pass.active = active
      /\ pass.aged = {} /\ pass.over = {}
  BY DEF Pass, NoPass
<1>2. /\ gc \in [Collectors -> Pass] /\ gc' = [gc EXCEPT ![p] = pass]
      /\ since \in [Collectors -> SUBSET Sessions] /\ since' = [since EXCEPT ![p] = {}]
  BY DEF GCInv, GCTypeOK, Begin
<1>. HIDE DEF pass
<1>3. /\ gc' \in [Collectors -> Pass] /\ gc'[p] = pass
      /\ since' \in [Collectors -> SUBSET Sessions]
      /\ \A q \in Collectors : q # p => gc'[q] = gc[q] /\ since'[q] = since[q]
  BY <1>1, <1>2
<1>4. GCTypeOK' /\ WritesArePast'
  BY <1>3 DEF GCInv, GCTypeOK, WritesArePast
<1>5. ListsAreOfRemovers' /\ LiveAreKnown'
  BY <1>1, <1>3 DEF GCInv, ListsAreOfRemovers, LiveAreKnown, Listed
<1>6. /\ \A q \in Collectors : q # p => \A s : Settled(q, s)' = Settled(q, s)
      /\ \A s, t : Older(s, t)' = Older(s, t) /\ PastAge(s)' = PastAge(s)
      /\ Kept' = Kept
  BY <1>3 DEF Settled, Older, PastAge, OlderThan, Kept
<1>7. AgedAreOld' /\ OverAreQuiet' /\ (~raced' => OverAreNotLast')
  BY <1>1, <1>3, <1>6 DEF GCInv, AgedAreOld, OverAreQuiet, OverAreNotLast, OlderThan
<1>8. QED  BY <1>4, <1>5, <1>7 DEF GCInv

\* What is left of the lists is what the collector goes on with.
LEMMA LeftIs ==
  ASSUME NEW p, NEW aged \in SUBSET Sessions, NEW over \in SUBSET Sessions
  PROVE  /\ Left(p, aged, over) \in Pass
         /\ Left(p, aged, over).aged = aged /\ Left(p, aged, over).over = over
         /\ Left(p, aged, over).at # "asked"
         /\ Left(p, aged, over).at # "removing" => aged \cup over = {}
  BY DEF Left, Pass, NoPass

\* What the look puts on the lists: none that was alive, the old, and of the others
\* such as are neither fresh nor the last.
LEMMA LookFinds ==
  ASSUME NEW p
  PROVE  /\ Aged(p) \subseteq Kept \ gc[p].active
         /\ \A s \in Aged(p) : newest[s] < now - OlderThan(p)
         /\ Evicted(p, Kept \ Aged(p)) \subseteq Kept \ gc[p].active
         /\ \A s \in Evicted(p, Kept \ Aged(p)) :
              now - newest[s] > Grace /\ \E t \in Kept : Older(s, t)
  BY DEF Aged, Evicted, Evictable

LEMMA LookKeeps == ASSUME GCInv, NEW p \in Collectors, GcLook(p) PROVE GCInv'
<1>. DEFINE aged == Aged(p)
            over == Evicted(p, Kept \ Aged(p))
            pass == Left(p, aged, over)
<1>0. /\ gc[p].at = "asked" /\ gc' = [gc EXCEPT ![p] = pass]
      /\ since' = [since EXCEPT ![p] = since[p] \cap (aged \cup over)]
      /\ UNCHANGED <<now, newest, live, raced>>
  BY DEF GcLook, GCInv, GCTypeOK
<1>1. /\ aged \subseteq Kept \ gc[p].active
      /\ \A s \in aged : newest[s] < now - OlderThan(p)
      /\ over \subseteq Kept \ gc[p].active
      /\ \A s \in over : now - newest[s] > Grace /\ \E t \in Kept : Older(s, t)
  BY LookFinds
<1>. HIDE DEF aged, over
<1>2. /\ aged \in SUBSET Sessions /\ over \in SUBSET Sessions
      /\ \A s \in aged \cup over : newest[s] \in Int
  BY <1>1, ConstantsAre DEF Kept, GCInv, GCTypeOK
<1>3. /\ pass \in Pass /\ pass.aged = aged /\ pass.over = over /\ pass.at # "asked"
      /\ pass.at # "removing" => aged \cup over = {}
  BY <1>2, LeftIs
<1>. HIDE DEF pass
<1>4. /\ gc' \in [Collectors -> Pass] /\ gc'[p] = pass
      /\ since' \in [Collectors -> SUBSET Sessions]
      /\ since'[p] = since[p] \cap (aged \cup over)
      /\ \A q \in Collectors : q # p => gc'[q] = gc[q] /\ since'[q] = since[q]
  BY <1>0, <1>3 DEF GCInv, GCTypeOK
<1>5. GCTypeOK' /\ WritesArePast'
  BY <1>0, <1>4 DEF GCInv, GCTypeOK, WritesArePast
<1>6. ListsAreOfRemovers'
  BY <1>3, <1>4 DEF GCInv, ListsAreOfRemovers, Listed
<1>7. live \subseteq gc[p].active \cup since[p]
  BY <1>0 DEF GCInv, LiveAreKnown
<1>8. LiveAreKnown'
  BY <1>0, <1>1, <1>3, <1>4, <1>7 DEF GCInv, LiveAreKnown, Listed
<1>9. /\ \A q \in Collectors : q # p => \A s : Settled(q, s)' = Settled(q, s)
      /\ \A s, t : Older(s, t)' = Older(s, t) /\ PastAge(s)' = PastAge(s)
      /\ Kept' = Kept
  BY <1>0, <1>4 DEF Settled, Older, PastAge, OlderThan, Kept
<1>10. now \in Int /\ OlderThan(p) \in Int
  BY ConstantsAre DEF GCInv, GCTypeOK
<1>11. \A s \in aged : now - newest[s] > OlderThan(p)
  BY <1>1, <1>2, <1>10
<1>12. AgedAreOld' /\ OverAreQuiet' /\ (~raced' => OverAreNotLast')
  BY <1>0, <1>1, <1>3, <1>4, <1>9, <1>11
     DEF GCInv, AgedAreOld, OverAreQuiet, OverAreNotLast, OlderThan
<1>13. QED  BY <1>5, <1>6, <1>8, <1>12 DEF GCInv

\* A directory is removed: what is on others' lists is settled by it, and if it was
\* the one that made another not the last, what made it so is left.
LEMMA ReclaimKeeps ==
  ASSUME GCInv, NEW p \in Collectors, NEW s \in Sessions, Reclaim(p, s)
  PROVE  GCInv'
<1>. DEFINE pass == Left(p, gc[p].aged \ {s}, gc[p].over \ {s})
<1>0. /\ gc[p].at = "removing" /\ gc' = [gc EXCEPT ![p] = pass] /\ s \in Listed(p)
      /\ newest' = [newest EXCEPT ![s] = None]
      /\ since' = [since EXCEPT ![p] = since[p] \ {s}]
      /\ raced' = (raced \/ (s \in since[p] /\ newest[s] # None))
      /\ UNCHANGED <<now, live>>
  BY DEF Reclaim, GCInv, GCTypeOK, Listed
<1>1. gc[p].aged \subseteq Sessions /\ gc[p].over \subseteq Sessions
  BY DEF GCInv, GCTypeOK, Pass
<1>2. /\ pass \in Pass /\ pass.aged = gc[p].aged \ {s} /\ pass.over = gc[p].over \ {s}
      /\ pass.at # "asked" /\ (pass.at # "removing" => pass.aged \cup pass.over = {})
  BY <1>1, LeftIs, SMTT(60)
<1>. HIDE DEF pass
<1>3. /\ gc' \in [Collectors -> Pass] /\ gc'[p] = pass
      /\ since' \in [Collectors -> SUBSET Sessions] /\ since'[p] = since[p] \ {s}
      /\ newest' \in [Sessions -> Times \cup {None}] /\ newest'[s] = None
      /\ \A q \in Collectors : q # p => gc'[q] = gc[q] /\ since'[q] = since[q]
      /\ \A t \in Sessions : t # s => newest'[t] = newest[t]
  BY <1>0, <1>2 DEF GCInv, GCTypeOK
<1>4. GCTypeOK' /\ WritesArePast' /\ ListsAreOfRemovers' /\ LiveAreKnown'
  BY <1>0, <1>2, <1>3
     DEF GCInv, GCTypeOK, WritesArePast, ListsAreOfRemovers, LiveAreKnown, Listed
<1>5. ASSUME NEW q \in Collectors, NEW t \in Listed(q)', ~Settled(q, t)'
      PROVE  /\ t \in Listed(q) /\ t \in Sessions /\ t # s /\ newest'[t] = newest[t]
             /\ ~Settled(q, t)
             /\ t \in gc'[q].aged => t \in gc[q].aged
             /\ t \in gc'[q].over => t \in gc[q].over
  <2>1. t \in Listed(q) /\ (t \in gc'[q].aged => t \in gc[q].aged)
                        /\ (t \in gc'[q].over => t \in gc[q].over)
    BY <1>2, <1>3 DEF Listed
  <2>2. t \in Sessions  BY <2>1 DEF GCInv, GCTypeOK, Pass, Listed
  <2>3. t # s /\ newest'[t] = newest[t]  BY <1>3, <1>5, <2>2 DEF Settled
  <2>4. ~Settled(q, t)  BY <1>3, <1>5, <2>3 DEF Settled
  <2>5. QED  BY <2>1, <2>2, <2>3, <2>4
<1>6. AgedAreOld' /\ OverAreQuiet'
  BY <1>0, <1>5 DEF GCInv, AgedAreOld, OverAreQuiet, Listed, OlderThan
<1>7. ASSUME ~raced' PROVE OverAreNotLast'
  <2>1. OverAreNotLast /\ GCTypeOK /\ (s \in since[p] => newest[s] = None)
    BY <1>0, <1>7 DEF GCInv
  <2>2. ASSUME NEW q \in Collectors, NEW t \in gc'[q].over, ~Settled(q, t)'
        PROVE  PastAge(t)' \/ \E u \in Kept' : Older(t, u)'
    <3>1. /\ t \in gc[q].over /\ t \in Kept /\ t # s /\ newest'[t] = newest[t]
          /\ ~Settled(q, t)
      BY <1>5, <2>2 DEF Listed, Settled, Kept
    <3>2. PastAge(t) => PastAge(t)'
      BY <1>0, <3>1 DEF PastAge, OlderThan
    <3>3. \A u \in Kept : u # s /\ Older(t, u) => u \in Kept' /\ Older(t, u)'
      BY <1>3, <3>1 DEF Kept, Older
    <3>4. ASSUME s \in Kept, Older(t, s) PROVE PastAge(t) \/ \E u \in Kept : u # s /\ Older(t, u)
      <4>1. ~Settled(p, s)  BY <2>1, <3>4 DEF Settled, Kept
      <4>2. CASE PastAge(s)
        <5>1. PICK r \in Collectors : now - newest[s] > OlderThan(r)  BY <4>2 DEF PastAge
        <5>2. newest[t] <= newest[s] /\ newest[s] \in Int /\ newest[t] \in Int
          BY <2>1, <3>1, <3>4, OlderIsOrder, ConstantsAre
        <5>3. now \in Int /\ OlderThan(r) \in Int  BY <2>1, ConstantsAre DEF GCTypeOK
        <5>4. now - newest[t] > OlderThan(r)  BY <5>1, <5>2, <5>3
        <5>5. QED  BY <5>4 DEF PastAge
      <4>3. CASE s \in gc[p].aged
        BY <4>1, <4>2, <4>3 DEF GCInv, AgedAreOld, PastAge
      <4>4. CASE s \in gc[p].over /\ ~PastAge(s)
        <5>1. PICK u \in Kept : Older(s, u)
          BY <2>1, <4>1, <4>4 DEF OverAreNotLast
        <5>2. u # s /\ Older(t, u)  BY <2>1, <3>1, <3>4, <5>1, OlderIsOrder
        <5>3. QED  BY <5>2
      <4>5. QED  BY <1>0, <4>2, <4>3, <4>4 DEF Listed
    <3>5. QED  BY <2>1, <3>1, <3>2, <3>3, <3>4 DEF OverAreNotLast
  <2>3. QED  BY <2>2 DEF OverAreNotLast
<1>8. QED  BY <1>4, <1>6, <1>7 DEF GCInv
-----------------------------------------------------------------------------
\* What holds of the lists holds in every state.
THEOREM GCInvHolds == GCSpec => []GCInv
<1>1. ASSUME GCInit PROVE GCInv
  <2>1. NoPass \in Pass /\ Times \subseteq Int /\ 0 \in Times
    BY GCAssumption DEF NoPass, Pass, Times
  <2>2. GCTypeOK  BY <1>1, <2>1 DEF GCInit, GCTypeOK
  <2>3. QED
    BY <1>1, <2>2 DEF GCInit, GCInv, NoPass, WritesArePast, ListsAreOfRemovers, LiveAreKnown,
                      AgedAreOld, OverAreQuiet, OverAreNotLast, Listed
<1>2. GCInv /\ [GCNext]_gcVars => GCInv'
  <2>. SUFFICES ASSUME GCInv, [GCNext]_gcVars PROVE GCInv'
    OBVIOUS
  <2>1. CASE Tick  BY <2>1, TickKeeps
  <2>2. ASSUME NEW s \in Sessions, SessionWrites(s) PROVE GCInv'  BY <2>2, SessionKeeps
  <2>3. ASSUME NEW s \in Sessions, Skip(s) PROVE GCInv'  BY <2>3, SkipKeeps
  <2>4. ASSUME NEW s \in Sessions, ExitGC(s) PROVE GCInv'
    <3>1. s \in Collectors /\ live \ {s} \in SUBSET Sessions
      BY DEF Collectors, GCInv, GCTypeOK
    <3>2. live' \subseteq live /\ live' \subseteq live \ {s} /\ Begin(s, live \ {s})
          /\ UNCHANGED <<now, newest, raced>>
      BY <2>4 DEF ExitGC
    <3>3. QED  BY <3>1, <3>2, CollectorKeeps
  <2>5. CASE CommandGC
    <3>1. CLI \in Collectors /\ live \in SUBSET Sessions
      BY DEF Collectors, GCInv, GCTypeOK
    <3>2. QED  BY <2>5, <3>1, CollectorKeeps DEF CommandGC
  <2>6. ASSUME NEW p \in Collectors, GcLook(p) PROVE GCInv'  BY <2>6, LookKeeps
  <2>7. ASSUME NEW p \in Collectors, NEW s \in Sessions, Reclaim(p, s) PROVE GCInv'
    BY <2>7, ReclaimKeeps
  <2>8. CASE UNCHANGED gcVars
    BY <2>8 DEF GCInv, GCTypeOK, WritesArePast, ListsAreOfRemovers, LiveAreKnown, AgedAreOld,
                OverAreQuiet, OverAreNotLast, Listed, Settled, PastAge, OlderThan, Kept, Older,
                gcVars
  <2>9. QED  BY <2>1, <2>2, <2>3, <2>4, <2>5, <2>6, <2>7, <2>8 DEF GCNext
<1>3. QED  BY <1>1, <1>2, PTL DEF GCSpec

\* A step that removes takes what is on a list, and raced says what it then was.
LEMMA RemovedIsListed ==
  ASSUME GCInv, NEW p \in Collectors, NEW s \in Sessions, Removes(p, s)
  PROVE  /\ newest[s] # None /\ s \in Listed(p)
         /\ s \notin since[p] => ~Settled(p, s)
         /\ ~raced' => ~raced /\ s \notin since[p]
  BY DEF Removes, Reclaim, Listed, Settled, GCInv, GCTypeOK

\* ActiveKept for any sessions, sizes and settings (gc.go: "Active sessions (live socket)
\* are never touched"): whom a collector removes alive has come up since it asked.
THEOREM ActiveIsKept == GCSpec => ActiveKept
<1>1. GCInv => ActiveStays
  BY RemovedIsListed DEF GCInv, LiveAreKnown, ActiveStays
<1>2. QED  BY <1>1, GCInvHolds, PTL DEF GCSpec, ActiveKept

\* RecentKept for any sessions, sizes and settings: neither age nor the cap takes what has
\* been written within recentWriteGrace, unless that was after the collector asked.
THEOREM RecentIsKept == GCSpec => RecentKept
<1>1. ASSUME GCInv PROVE RecentStays
  <2>1. ASSUME NEW p \in Collectors, NEW s \in Sessions, Removes(p, s), s \notin since[p]
        PROVE  now - newest[s] > Grace
    <3>1. ~Settled(p, s) /\ s \in Listed(p) /\ newest[s] # None
      BY <1>1, <2>1, RemovedIsListed
    <3>2. now \in Int /\ newest[s] \in Int /\ OlderThan(p) \in Int /\ Grace \in Int
          /\ Grace <= OlderThan(p)
      <4>1. now \in Times /\ newest[s] \in Times  BY <1>1, <3>1 DEF GCInv, GCTypeOK
      <4>2. OlderThan(p) \in Nat /\ Grace <= OlderThan(p)  BY ConstantsAre
      <4>3. Times \subseteq Int /\ Grace \in Int  BY ConstantsAre
      <4>4. now \in Int /\ newest[s] \in Int  BY <4>1, <4>3
      <4>5. QED  BY <4>2, <4>3, <4>4
    <3>3. CASE s \in gc[p].aged
      BY <1>1, <3>1, <3>2, <3>3 DEF GCInv, AgedAreOld
    <3>4. CASE s \in gc[p].over
      BY <1>1, <3>1, <3>4 DEF GCInv, OverAreQuiet
    <3>5. QED  BY <3>1, <3>3, <3>4 DEF Listed
  <2>2. QED  BY <2>1 DEF RecentStays
<1>2. QED  BY <1>1, GCInvHolds, PTL DEF GCSpec, RecentKept

\* LastKept for any sessions, sizes and settings (gc.go: "Never evict the project's newest
\* session"): the last repository of a project goes for its age only, however many
\* collectors decided on it when it was not the last.
THEOREM LastIsKept == GCSpec => LastKept
<1>1. ASSUME GCInv PROVE LastStays
  <2>1. ASSUME NEW p \in Collectors, NEW s \in Sessions, Removes(p, s), Kept = {s}, ~raced'
        PROVE  PastAge(s)
    <3>1. ~raced /\ ~Settled(p, s) /\ s \in Listed(p)
      BY <1>1, <2>1, RemovedIsListed
    <3>2. CASE s \in gc[p].aged
      BY <1>1, <3>1, <3>2 DEF GCInv, AgedAreOld, PastAge
    <3>3. CASE s \in gc[p].over
      <4>1. PastAge(s) \/ \E t \in Kept : Older(s, t)
        BY <1>1, <3>1, <3>3 DEF GCInv, OverAreNotLast
      <4>2. ~Older(s, s)  BY <1>1, <2>1, OlderIsOrder DEF GCInv
      <4>3. QED  BY <2>1, <4>1, <4>2
    <3>4. QED  BY <3>1, <3>2, <3>3 DEF Listed
  <2>2. QED  BY <2>1 DEF LastStays, PastAge
<1>2. QED  BY <1>1, GCInvHolds, PTL DEF GCSpec, LastKept
-----------------------------------------------------------------------------
(* Wiring: between its reading and its writing an install holds a content that *)
(* is as it should be, whatever the others and the user make of the file.     *)

\* Where an install has read a file and not ended.
Going == {"merged", "stat", "copy", "write", "finish"}

\* A file of the candidates.
Looked(f) == \E k \in DOMAIN Candidates : Candidates[k] = f

\* Every op has a hook, and each runs a binary that is there.
Installed(hooks) ==
  \A op \in Ops : Of(op, hooks) # {} /\ \A k \in Of(op, hooks) : hooks[k].exe \in NewExes

\* What an install is about to write has one hook of each op, its own, goes to a file
\* the check looks at, and leaves what is the user's.
InsIsSound(i) ==
  /\ Single(ins[i].out.hooks)
  /\ ins[i].at \in Going =>
       /\ Looked(ins[i].target)
       /\ Installed(ins[i].out.hooks)
       /\ ins[i].got # Broken
       /\ ~Missed(ins[i].got) => UserPart(ins[i].out) = UserPart(ins[i].got)

WiringInv ==
  /\ WiringTypeOK
  /\ OneHook
  /\ \A i \in Installers : InsIsSound(i)
-----------------------------------------------------------------------------
\* Numbers of which there is one have a least.
LEMMA MinIs ==
  ASSUME NEW S \in SUBSET Nat, S # {}
  PROVE  Min(S) \in S /\ \A k \in S : Min(S) <= k
<1>1. PICK m \in S : \A k \in S : <<k, m>> \notin OpToRel(<, Nat)
  <2>1. IsWellFoundedOn(OpToRel(<, Nat), Nat)  BY NatLessThanWellFounded
  <2>. DEFINE Less == OpToRel(<, Nat)
  <2>. HIDE DEF Less
  <2>2. IsWellFoundedOn(Less, Nat)  BY <2>1 DEF Less
  <2>3. \E m \in S : \A k \in S : <<k, m>> \notin Less  BY <2>2, WFMin
  <2>4. QED  BY <2>3 DEF Less
<1>2. \A k \in S : ~(k < m)  BY <1>1 DEF OpToRel
<1>3. \A k \in S : m <= k  BY <1>2
<1>4. QED  BY <1>3 DEF Min

\* The op's hook is written, at its place or at the end; no other is touched.
LEMMA WireIs ==
  ASSUME NEW hooks \in Seq(Entries), Single(hooks),
         NEW op \in OpNames, NEW exe \in NewExes,
         NEW r, r = Wire(hooks, op, exe)
  PROVE  /\ r \in Seq(Entries) /\ Single(r)
         /\ Of(op, r) # {} /\ \A k \in Of(op, r) : r[k].exe = exe
         /\ \A o \in (OpNames \cup {"none"}) \ {op} :
              Of(o, r) = Of(o, hooks) /\ \A k \in Of(o, r) : r[k] = hooks[k]
<1>0. exe \in Exes /\ op # "none"  BY WiringAssumption DEF OpNames
<1>1. /\ Hook(op, exe, TRUE, FALSE) \in Entries
      /\ Hook(op, exe, TRUE, FALSE).op = op /\ Hook(op, exe, TRUE, FALSE).exe = exe
  BY <1>0 DEF Hook, Entries
<1>2. CASE Of(op, hooks) = {}
  <2>. DEFINE n == Len(hooks) + 1
  <2>1. r = Append(hooks, Hook(op, exe, TRUE, FALSE))  BY <1>2 DEF Wire, Wired, Of
  <2>2. /\ r \in Seq(Entries) /\ DOMAIN r = DOMAIN hooks \cup {n} /\ n \notin DOMAIN hooks
        /\ r[n] = Hook(op, exe, TRUE, FALSE) /\ \A k \in DOMAIN hooks : r[k] = hooks[k]
    <3>. DEFINE h == Hook(op, exe, TRUE, FALSE)
    <3>1. h \in Entries /\ r = Append(hooks, h)  BY <1>1, <2>1
    <3>. HIDE DEF h
    <3>2. Len(hooks) \in Nat /\ DOMAIN hooks = 1..Len(hooks)  OBVIOUS
    <3>3. /\ r \in Seq(Entries) /\ Len(r) = n
          /\ r[n] = h /\ \A k \in 1..Len(hooks) : r[k] = hooks[k]
      BY <3>1, AppendProperties
    <3>4. DOMAIN r = 1..n  BY <3>3
    <3>5. QED  BY <3>2, <3>3, <3>4 DEF h
  <2>. HIDE DEF n
  <2>3. Of(op, r) = {n}  BY <1>1, <1>2, <2>2 DEF Of
  <2>4. ASSUME NEW o, o # op PROVE Of(o, r) = Of(o, hooks)  BY <1>1, <2>2, <2>4 DEF Of
  <2>5. Single(r)  BY <2>3, <2>4 DEF Single
  <2>6. ASSUME NEW o, o # op PROVE \A k \in Of(o, r) : r[k] = hooks[k]
    BY <2>2, <2>4, <2>6 DEF Of
  <2>7. QED  BY <1>1, <2>2, <2>3, <2>4, <2>5, <2>6
<1>3. CASE Of(op, hooks) # {}
  <2>. DEFINE m == Min(Of(op, hooks))
              e == [hooks[m] EXCEPT !.exe = exe, !.matches = @ \/ platform = "cursor"]
  <2>1. m \in Of(op, hooks)  BY <1>3, MinIs DEF Of
  <2>2. m \in DOMAIN hooks /\ hooks[m] \in Entries /\ hooks[m].op = op
    BY <2>1 DEF Of
  <2>3. r = [hooks EXCEPT ![m] = e]
    BY <1>3, <2>2 DEF Wire, Wired, Of
  <2>4. e \in Entries /\ e.op = op /\ e.exe = exe
    BY <1>0, <2>2 DEF Entries
  <2>. HIDE DEF m, e
  <2>5. /\ r \in Seq(Entries) /\ DOMAIN r = DOMAIN hooks
        /\ r[m] = e /\ \A k \in DOMAIN hooks : k # m => r[k] = hooks[k]
    BY <2>2, <2>3, <2>4
  <2>6. \A o : Of(o, r) = Of(o, hooks)
    BY <2>2, <2>4, <2>5 DEF Of
  <2>7. Single(r)  BY <2>6 DEF Single
  <2>8. \A k \in Of(op, r) : k = m  BY <2>1, <2>6 DEF Single
  <2>9. \A k \in Of(op, r) : r[k].exe = exe  BY <2>4, <2>5, <2>8
  <2>10. ASSUME NEW o, o # op PROVE \A k \in Of(o, r) : r[k] = hooks[k]
    BY <2>2, <2>5, <2>6, <2>10 DEF Of
  <2>11. QED  BY <1>3, <2>5, <2>6, <2>7, <2>9, <2>10
<1>4. QED  BY <1>2, <1>3

\* All ops are wired, and the user's hooks stay.
LEMMA WireAllIs ==
  ASSUME NEW hooks \in Seq(Entries), Single(hooks), NEW exe \in NewExes,
         NEW r, r = WireAll(hooks, exe)
  PROVE  /\ r \in Seq(Entries) /\ Single(r) /\ Installed(r)
         /\ Of("none", r) = Of("none", hooks)
         /\ \A k \in Of("none", r) : r[k] = hooks[k]
<1>. DEFINE q == Wire(hooks, "post", exe)
<1>0. {"post", "bg"} = OpNames /\ "post" # "bg" /\ "none" \notin OpNames  BY DEF OpNames
<1>1. /\ q \in Seq(Entries) /\ Single(q)
      /\ Of("post", q) # {} /\ \A k \in Of("post", q) : q[k].exe = exe
      /\ \A o \in (OpNames \cup {"none"}) \ {"post"} :
           Of(o, q) = Of(o, hooks) /\ \A k \in Of(o, q) : q[k] = hooks[k]
  BY <1>0, WireIs, SMTT(60)
<1>2. CASE platform = "claude"
  <2>1. r = Wire(q, "bg", exe)  BY <1>2 DEF WireAll
  <2>. HIDE DEF q
  <2>2. /\ r \in Seq(Entries) /\ Single(r)
        /\ Of("bg", r) # {} /\ \A k \in Of("bg", r) : r[k].exe = exe
        /\ \A o \in (OpNames \cup {"none"}) \ {"bg"} :
             Of(o, r) = Of(o, q) /\ \A k \in Of(o, r) : r[k] = q[k]
    <3>1. q \in Seq(Entries) /\ Single(q) /\ "bg" \in OpNames  BY <1>0, <1>1
    <3>2. QED  BY <2>1, <3>1, WireIs, SMTT(60)
  <2>3. Of("post", r) # {} /\ \A k \in Of("post", r) : r[k].exe = exe
    BY <1>0, <1>1, <2>2
  <2>4. Installed(r)  BY <1>2, <2>2, <2>3 DEF Installed, Ops
  <2>5. Of("none", r) = Of("none", hooks) /\ \A k \in Of("none", r) : r[k] = hooks[k]
    BY <1>0, <1>1, <2>2
  <2>6. QED  BY <2>2, <2>4, <2>5
<1>3. CASE platform # "claude"
  <2>1. r = q  BY <1>3 DEF WireAll
  <2>. HIDE DEF q
  <2>2. Installed(r)  BY <1>1, <1>3, <2>1 DEF Installed, Ops
  <2>3. QED  BY <1>0, <1>1, <2>1, <2>2
<1>4. QED  BY <1>2, <1>3
-----------------------------------------------------------------------------
\* Losing the fields bashback does not know changes no op and no binary.
LEMMA KnownIs ==
  ASSUME NEW hooks \in Seq(Entries)
  PROVE  /\ Known(hooks) \in Seq(Entries)
         /\ \A op : Of(op, Known(hooks)) = Of(op, hooks)
         /\ Single(hooks) => Single(Known(hooks))
         /\ \A k \in DOMAIN hooks : /\ Known(hooks)[k] = [hooks[k] EXCEPT !.extra = FALSE]
                                    /\ Known(hooks)[k] \in Entries
                                    /\ Known(hooks)[k].extra = FALSE
<1>1. ASSUME NEW k \in DOMAIN hooks
      PROVE  LET e == [hooks[k] EXCEPT !.extra = FALSE]
             IN  e \in Entries /\ e.op = hooks[k].op /\ e.extra = FALSE
  <2>1. hooks[k] \in Entries  OBVIOUS
  <2>2. QED  BY <2>1 DEF Entries
<1>2. /\ DOMAIN Known(hooks) = DOMAIN hooks
      /\ \A k \in DOMAIN hooks : Known(hooks)[k] = [hooks[k] EXCEPT !.extra = FALSE]
  BY DEF Known
<1>3. Known(hooks) \in Seq(Entries)
  <2>1. Known(hooks) \in [1..Len(hooks) -> Entries] /\ Len(hooks) \in Nat
    BY <1>1, <1>2 DEF Known
  <2>2. QED  BY <2>1
<1>4. \A op : Of(op, Known(hooks)) = Of(op, hooks)
  BY <1>1, <1>2 DEF Of
<1>5. QED  BY <1>1, <1>2, <1>3, <1>4 DEF Single

\* Who starts with a file's content goes on with one hook of each op and the user's part.
LEMMA MergeIs ==
  ASSUME NEW doc \in Docs, Single(doc.hooks), NEW exe \in NewExes
  PROVE  /\ Merge(doc, exe) \in Docs /\ Single(Merge(doc, exe).hooks)
         /\ Installed(Merge(doc, exe).hooks)
         /\ UserPart(Merge(doc, exe)) = UserPart(doc)
<1>. DEFINE known == Known(doc.hooks)
            r == WireAll(known, exe)
<1>1. doc.hooks \in Seq(Entries) /\ doc.keys \in SUBSET Keys  BY DEF Docs
<1>2. /\ known \in Seq(Entries) /\ Single(known)
      /\ Of("none", known) = Of("none", doc.hooks)
      /\ \A k \in Of("none", known) : known[k] \in Entries /\ known[k].extra = FALSE
  <2>1. /\ known \in Seq(Entries) /\ Single(known)
        /\ \A op : Of(op, known) = Of(op, doc.hooks)
        /\ \A k \in DOMAIN doc.hooks : known[k] \in Entries /\ known[k].extra = FALSE
    BY <1>1, KnownIs
  <2>. HIDE DEF known
  <2>2. Of("none", doc.hooks) \subseteq DOMAIN doc.hooks  BY DEF Of
  <2>3. QED  BY <2>1, <2>2
<1>. HIDE DEF known
<1>3. /\ r \in Seq(Entries) /\ Single(r) /\ Installed(r)
      /\ Of("none", r) = Of("none", known)
      /\ \A k \in Of("none", r) : r[k] = known[k]
  BY <1>2, WireAllIs
<1>4. Merge(doc, exe) = [keys |-> doc.keys, canon |-> TRUE, hooks |-> r]
  BY DEF Merge, known
<1>. HIDE DEF r
<1>5. Merge(doc, exe) \in Docs /\ Merge(doc, exe).hooks = r /\ Merge(doc, exe).keys = doc.keys
  BY <1>1, <1>3, <1>4 DEF Docs
<1>6. ASSUME NEW k \in Of("none", r) PROVE Known(r)[k] = Known(doc.hooks)[k]
  <2>1. k \in DOMAIN r /\ r[k] = known[k] /\ r[k] \in Entries /\ r[k].extra = FALSE
    BY <1>2, <1>3 DEF Of
  <2>2. [r[k] EXCEPT !.extra = FALSE] = r[k]  BY <2>1 DEF Entries
  <2>3. QED  BY <1>3, <2>1, <2>2, KnownIs DEF known
<1>7. [k \in Of("none", r) |-> Known(r)[k]] =
      [k \in Of("none", doc.hooks) |-> Known(doc.hooks)[k]]
  BY <1>2, <1>3, <1>6
<1>8. UserPart(Merge(doc, exe)) = UserPart(doc)
  BY <1>5, <1>7 DEF UserPart
<1>9. QED  BY <1>3, <1>5, <1>8

\* Every target is a file the check looks at.
LEMMA TargetIsLookedAt ==
  ASSUME NEW user \in BOOLEAN
  PROVE  Target(user) \in SettingsFiles /\ Looked(Target(user))
<1>1. CASE platform = "claude"
  <2>1. DOMAIN Candidates = 1..4 /\ Candidates[1] = "work" /\ Candidates[3] = "up"
        /\ Candidates[4] = "home"
    BY <1>1 DEF Candidates
  <2>2. QED  BY <2>1 DEF Target, Looked, SettingsFiles
<1>2. CASE platform # "claude"
  <2>1. DOMAIN Candidates = 1..2 /\ Candidates[1] = "work" /\ Candidates[2] = "home"
    BY <1>2 DEF Candidates
  <2>2. QED  BY <1>2, <2>1 DEF Target, Looked, SettingsFiles
<1>3. QED  BY <1>1, <1>2

\* An install's step to another stage.
LEMMA GotoKeeps ==
  ASSUME WiringInv, NEW i \in Installers, ins[i].at \in Going,
         NEW stage \in Going \cup {"done"}, InsGoto(i, stage), UNCHANGED platform,
         settings' \in [SettingsFiles -> SettingsContents],
         backup' \in [SettingsFiles -> SettingsContents],
         OneHook', UNCHANGED edits
  PROVE  WiringInv'
<1>. DEFINE I == [at : InsStages, exe : NewExes, target : SettingsFiles,
                  got : SettingsContents, out : Docs]
<1>1. ins \in [Installers -> I] /\ ins' = [ins EXCEPT ![i].at = stage] /\ stage \in InsStages
  BY DEF WiringInv, WiringTypeOK, InsGoto, Going, InsStages
<1>2. /\ ins' \in [Installers -> I]
      /\ \A j \in Installers : j # i => ins'[j] = ins[j]
      /\ ins'[i].target = ins[i].target /\ ins'[i].got = ins[i].got /\ ins'[i].out = ins[i].out
  BY <1>1
<1>3. WiringTypeOK'
  BY <1>2 DEF WiringInv, WiringTypeOK
<1>4. /\ Ops' = Ops /\ Candidates' = Candidates
      /\ \A f : Looked(f)' = Looked(f)
      /\ \A hooks : Installed(hooks)' = Installed(hooks)
  BY DEF Ops, Candidates, Looked, Installed
<1>5. ASSUME NEW j \in Installers PROVE InsIsSound(j)'
  <2>1. InsIsSound(j) /\ (j = i => ins[j].at \in Going)  BY DEF WiringInv
  <2>2. /\ ins'[j].target = ins[j].target /\ ins'[j].got = ins[j].got /\ ins'[j].out = ins[j].out
        /\ ins'[j].at \in Going => ins[j].at \in Going
    BY <1>2, <2>1
  <2>3. QED  BY <1>4, <2>1, <2>2 DEF InsIsSound, Single, UserPart, Missed
<1>6. QED  BY <1>3, <1>5 DEF WiringInv

\* The file is read and merged.
LEMMA ReadKeeps ==
  ASSUME WiringInv, NEW i \in Installers, NEW user \in BOOLEAN,
         ReadAndMerge(i, user)
  PROVE  WiringInv'
<1>. DEFINE f == Target(user)
            doc == IF Missed(settings[f]) THEN NoDoc ELSE settings[f]
            exe == ins[i].exe
            I == [at : InsStages, exe : NewExes, target : SettingsFiles,
                  got : SettingsContents, out : Docs]
            new == IF doc = Broken THEN Ins("failed", exe, f, NoSettings, NoDoc)
                   ELSE Ins("merged", exe, f, settings[f], Merge(doc, exe))
<1>1. /\ ins \in [Installers -> I] /\ exe \in NewExes
      /\ ins' = [ins EXCEPT ![i] = new] /\ UNCHANGED <<platform, settings, backup, edits>>
  BY DEF ReadAndMerge, WiringInv, WiringTypeOK
<1>2. f \in SettingsFiles /\ Looked(f) /\ settings[f] \in SettingsContents
  BY TargetIsLookedAt DEF WiringInv, WiringTypeOK
<1>3. NoDoc \in Docs /\ NoDoc.hooks = <<>> /\ NoDoc.keys = {} /\ Single(<<>>)
  BY DEF NoDoc, Docs, Single, Of
<1>4. doc # Broken => doc \in Docs /\ Single(doc.hooks)
  <2>1. settings[f] \notin NotRead => settings[f] \in Docs /\ Single(settings[f].hooks)
    BY <1>2 DEF SettingsContents, WiringInv, OneHook, HooksOf
  <2>2. QED  BY <1>3, <2>1 DEF Missed, NotRead
<1>5. /\ new \in I /\ Single(new.out.hooks)
      /\ new.at \in Going => /\ new.target = f /\ Installed(new.out.hooks) /\ new.got # Broken
                             /\ ~Missed(new.got) => UserPart(new.out) = UserPart(new.got)
  <2>1. CASE doc = Broken
    <3>1. new = Ins("failed", exe, f, NoSettings, NoDoc)  BY <2>1
    <3>2. QED  BY <1>1, <1>2, <1>3, <3>1 DEF Ins, Going, InsStages, SettingsContents, NotRead
  <2>2. CASE doc # Broken
    <3>1. new = Ins("merged", exe, f, settings[f], Merge(doc, exe))  BY <2>2
    <3>2. /\ Merge(doc, exe) \in Docs /\ Single(Merge(doc, exe).hooks)
          /\ Installed(Merge(doc, exe).hooks) /\ UserPart(Merge(doc, exe)) = UserPart(doc)
      BY <1>1, <1>4, <2>2, MergeIs
    <3>3. settings[f] # Broken /\ (~Missed(settings[f]) => doc = settings[f])
      BY <2>2, WiringAssumption DEF Missed
    <3>. HIDE DEF doc, f, exe
    <3>4. QED  BY <1>1, <1>2, <3>1, <3>2, <3>3 DEF Ins, Going, InsStages
  <2>3. QED  BY <2>1, <2>2
<1>. HIDE DEF new, f, doc
<1>6. ins' \in [Installers -> I] /\ ins'[i] = new /\ \A j \in Installers : j # i => ins'[j] = ins[j]
  <2>1. new \in I  BY <1>5
  <2>. HIDE DEF I
  <2>2. QED  BY <1>1, <2>1
<1>7. WiringTypeOK' /\ OneHook'
  BY <1>1, <1>6 DEF WiringInv, WiringTypeOK, OneHook, HooksOf
<1>8. /\ Ops' = Ops /\ Candidates' = Candidates
      /\ \A g : Looked(g)' = Looked(g)
      /\ \A hooks : Installed(hooks)' = Installed(hooks)
  BY <1>1 DEF Ops, Candidates, Looked, Installed
<1>9. ASSUME NEW j \in Installers PROVE InsIsSound(j)'
  <2>1. CASE j = i
    <3>1. /\ Single(ins'[j].out.hooks)
          /\ ins'[j].at \in Going =>
               /\ Looked(ins'[j].target) /\ Installed(ins'[j].out.hooks)
               /\ ins'[j].got # Broken
               /\ ~Missed(ins'[j].got) => UserPart(ins'[j].out) = UserPart(ins'[j].got)
      BY <1>2, <1>5, <1>6, <2>1
    <3>2. QED  BY <1>8, <3>1 DEF InsIsSound, Single, UserPart, Missed
  <2>2. CASE j # i
    <3>1. InsIsSound(j) /\ ins'[j] = ins[j]  BY <1>6, <2>2 DEF WiringInv
    <3>2. QED  BY <1>8, <3>1 DEF InsIsSound, Single, UserPart, Missed
  <2>3. QED  BY <2>1, <2>2
<1>10. QED  BY <1>7, <1>9 DEF WiringInv
\* The user's edit of a file adds no hook of an op.
LEMMA EditKeeps ==
  ASSUME WiringInv, NEW f \in SettingsFiles, Edit(f) PROVE WiringInv'
<1>1. PICK doc \in SettingsContents :
        /\ settings' = [settings EXCEPT ![f] = doc]
        /\ doc \in NotRead \/ Single(doc.hooks)
  <2>1. PICK doc \in NotRead \cup
          (IF settings[f] \in NotRead THEN {}
           ELSE {[settings[f] EXCEPT !.canon = FALSE, !.keys = Keys \ @,
                                     !.hooks = Append(@, Hook("none", "other", TRUE, TRUE))]}) :
          settings' = [settings EXCEPT ![f] = doc]
    BY DEF Edit
  <2>2. CASE doc \in NotRead  BY <2>1, <2>2 DEF SettingsContents
  <2>3. CASE doc \notin NotRead
    <3>. DEFINE was == settings[f]
                h == Hook("none", "other", TRUE, TRUE)
                r == Append(was.hooks, h)
    <3>1. /\ was \in Docs /\ Single(was.hooks)
          /\ doc = [was EXCEPT !.canon = FALSE, !.keys = Keys \ @, !.hooks = r]
      BY <2>1, <2>3 DEF WiringInv, WiringTypeOK, SettingsContents, OneHook, HooksOf
    <3>2. h \in Entries /\ h.op = "none"  BY DEF Hook, Entries
    <3>. HIDE DEF was, h
    <3>3. was.hooks \in Seq(Entries)  BY <3>1 DEF Docs
    <3>4. r \in Seq(Entries) /\ Len(r) = Len(was.hooks) + 1 /\ r[Len(was.hooks) + 1] = h
          /\ \A k \in 1..Len(was.hooks) : r[k] = was.hooks[k]
      BY <3>2, <3>3, AppendProperties
    <3>. HIDE DEF r
    <3>5. \A op \in OpNames : Of(op, r) = Of(op, was.hooks)
      BY <3>2, <3>3, <3>4, SMTT(60) DEF Of, OpNames
    <3>6. doc \in Docs /\ doc.hooks = r  BY <3>1, <3>4 DEF Docs
    <3>7. QED  BY <2>1, <3>1, <3>5, <3>6 DEF SettingsContents, Single
  <2>4. QED  BY <2>2, <2>3
<1>2. settings \in [SettingsFiles -> SettingsContents] /\ edits' = edits + 1 /\ edits < MaxEdits
      /\ UNCHANGED <<platform, backup, ins>>
  BY DEF Edit, WiringInv, WiringTypeOK
<1>3. settings' \in [SettingsFiles -> SettingsContents] /\ settings'[f] = doc
      /\ \A g \in SettingsFiles : g # f => settings'[g] = settings[g]
  BY <1>1, <1>2
<1>4. WiringTypeOK'  BY <1>2, <1>3, WiringAssumption DEF WiringInv, WiringTypeOK
<1>5. OneHook'
  <2>1. ASSUME NEW g \in SettingsFiles PROVE Single(HooksOf(g)')
    <3>1. Single(HooksOf(g)) /\ Single(<<>>)  BY DEF WiringInv, OneHook, Single, Of
    <3>2. QED  BY <1>1, <1>3, <3>1 DEF HooksOf
  <2>2. QED  BY <2>1 DEF OneHook, Single
<1>6. /\ Ops' = Ops /\ Candidates' = Candidates
      /\ \A g : Looked(g)' = Looked(g)
      /\ \A hooks : Installed(hooks)' = Installed(hooks)
  BY <1>2 DEF Ops, Candidates, Looked, Installed
<1>7. ASSUME NEW j \in Installers PROVE InsIsSound(j)'
  <2>1. InsIsSound(j) /\ ins'[j] = ins[j]  BY <1>2 DEF WiringInv
  <2>2. QED  BY <1>6, <2>1 DEF InsIsSound, Single, UserPart, Missed
<1>8. QED  BY <1>4, <1>5, <1>7 DEF WiringInv

\* The files' contents change only to what is about to be written.
LEMMA StepsKeep ==
  ASSUME WiringInv, NEW i \in Installers,
         Compare(i) \/ Stat(i) \/ Copy(i) \/ AtomicWrite(i) \/ Finish(i)
  PROVE  WiringInv'
<1>0. /\ settings \in [SettingsFiles -> SettingsContents]
      /\ backup \in [SettingsFiles -> SettingsContents]
      /\ ins[i].target \in SettingsFiles /\ ins[i].out \in SettingsContents /\ OneHook
      /\ ins[i].out \notin NotRead => Single(ins[i].out.hooks)
  BY DEF WiringInv, WiringTypeOK, SettingsContents, InsIsSound
<1>1. UNCHANGED settings => OneHook'
  BY <1>0 DEF OneHook, HooksOf
<1>2. CASE Compare(i)
  <2>. DEFINE stage == IF Missed(ins[i].got) THEN "write"
                       ELSE IF settings[ins[i].target] = ins[i].out THEN "finish" ELSE "stat"
  <2>1. ins[i].at \in Going /\ stage \in Going /\ InsGoto(i, stage)
        /\ UNCHANGED <<platform, settings, backup, edits>>
    BY <1>2 DEF Compare, InsAt, Going
  <2>. HIDE DEF stage
  <2>2. QED  BY <1>0, <1>1, <2>1, GotoKeeps
<1>3. CASE Stat(i)
  <2>. DEFINE stage == IF backup[ins[i].target] = NoSettings THEN "copy" ELSE "write"
  <2>1. ins[i].at \in Going /\ stage \in Going /\ InsGoto(i, stage)
        /\ UNCHANGED <<platform, settings, backup, edits>>
    BY <1>3 DEF Stat, InsAt, Going
  <2>. HIDE DEF stage
  <2>2. QED  BY <1>0, <1>1, <2>1, GotoKeeps
<1>4. CASE Copy(i)
  <2>1. ins[i].at \in Going /\ "write" \in Going /\ InsGoto(i, "write")
        /\ UNCHANGED <<platform, settings, edits>>
        /\ backup' \in [SettingsFiles -> SettingsContents]
    BY <1>0, <1>4 DEF Copy, InsAt, Going
  <2>2. QED  BY <1>0, <1>1, <2>1, GotoKeeps
<1>5. CASE AtomicWrite(i)
  <2>1. ins[i].at \in Going /\ "finish" \in Going /\ InsGoto(i, "finish")
        /\ UNCHANGED <<platform, backup, edits>>
        /\ settings' = [settings EXCEPT ![ins[i].target] = ins[i].out]
    BY <1>5 DEF AtomicWrite, InsAt, Going
  <2>2. settings' \in [SettingsFiles -> SettingsContents] /\ settings'[ins[i].target] = ins[i].out
        /\ \A g \in SettingsFiles : g # ins[i].target => settings'[g] = settings[g]
    BY <1>0, <2>1
  <2>3. ASSUME NEW g \in SettingsFiles PROVE Single(HooksOf(g)')
    <3>1. Single(HooksOf(g)) /\ Single(<<>>)  BY <1>0 DEF OneHook, Single, Of
    <3>2. CASE g = ins[i].target  BY <1>0, <2>2, <3>1, <3>2 DEF HooksOf
    <3>3. CASE g # ins[i].target  BY <2>2, <3>1, <3>3 DEF HooksOf
    <3>4. QED  BY <3>2, <3>3
  <2>4. OneHook'  BY <2>3 DEF OneHook, Single
  <2>5. QED  BY <1>0, <2>1, <2>2, <2>4, GotoKeeps
<1>6. CASE Finish(i)
  <2>1. ins[i].at \in Going /\ InsGoto(i, "done") /\ UNCHANGED <<platform, settings, backup, edits>>
    BY <1>6 DEF Finish, InsAt, Going
  <2>2. QED  BY <1>0, <1>1, <2>1, GotoKeeps
<1>7. QED  BY <1>2, <1>3, <1>4, <1>5, <1>6
-----------------------------------------------------------------------------
\* What the installs hold and the files' hooks are so in every state.
THEOREM WiringInvHolds == WiringSpec => []WiringInv
<1>1. ASSUME WiringInit PROVE WiringInv
  <2>1. NoDoc \in Docs /\ Single(NoDoc.hooks) /\ Single(<<>>)
    BY DEF NoDoc, Docs, Single, Of
  <2>2. ASSUME NEW doc \in Before
        PROVE  doc \in SettingsContents /\ (doc \notin NotRead => Single(doc.hooks))
    <3>1. CASE doc \in NotRead  BY <3>1 DEF SettingsContents
    <3>2. CASE doc \notin NotRead
      <4>1. PICK x \in Gone :
              doc = [keys |-> Keys, canon |-> FALSE,
                     hooks |-> <<Hook("none", "other", FALSE, TRUE),
                                 Hook("post", x, FALSE, FALSE)>>]
        BY <2>2, <3>2 DEF Before
      <4>. DEFINE a == Hook("none", "other", FALSE, TRUE)
                  b == Hook("post", x, FALSE, FALSE)
      <4>2. a \in Entries /\ b \in Entries /\ a.op = "none" /\ b.op = "post"
        BY WiringAssumption DEF Hook, Entries, OpNames
      <4>. HIDE DEF a, b
      <4>3. doc.hooks = <<a, b>> /\ doc.keys = Keys /\ doc.canon = FALSE  BY <4>1 DEF a, b
      <4>4. <<a, b>> \in Seq(Entries)  BY <4>2
      <4>5. doc \in Docs  BY <4>1, <4>4 DEF Docs, a, b
      <4>6. \A op \in OpNames : Of(op, <<a, b>>) \subseteq {2}
        BY <4>2 DEF Of, OpNames
      <4>7. Single(<<a, b>>)  BY <4>6 DEF Single
      <4>8. QED  BY <4>3, <4>5, <4>7 DEF SettingsContents
    <3>3. QED  BY <3>1, <3>2
  <2>3. ASSUME NEW x \in NewExes
        PROVE  Idle(x) \in [at : InsStages, exe : NewExes, target : SettingsFiles,
                            got : SettingsContents, out : Docs]
               /\ Idle(x).at = "idle" /\ Idle(x).out = NoDoc
    BY <2>1 DEF Idle, Ins, InsStages, SettingsFiles, SettingsContents, NotRead
  <2>4. WiringTypeOK
    BY <1>1, <2>2, <2>3, WiringAssumption
       DEF WiringInit, WiringTypeOK, SettingsContents, NotRead
  <2>5. OneHook
    BY <1>1, <2>1, <2>2 DEF WiringInit, OneHook, HooksOf
  <2>6. ASSUME NEW i \in Installers PROVE InsIsSound(i)
    <3>1. PICK x \in NewExes : ins[i] = Idle(x)  BY <1>1 DEF WiringInit
    <3>2. QED  BY <2>1, <2>3, <3>1 DEF InsIsSound, Going
  <2>7. QED  BY <2>4, <2>5, <2>6 DEF WiringInv
<1>2. WiringInv /\ [WiringNext]_wiringVars => WiringInv'
  <2>. SUFFICES ASSUME WiringInv, [WiringNext]_wiringVars PROVE WiringInv'
    OBVIOUS
  <2>1. ASSUME NEW i \in Installers, NEW user \in BOOLEAN, ReadAndMerge(i, user)
        PROVE  WiringInv'
    BY <2>1, ReadKeeps
  <2>2. ASSUME NEW i \in Installers, Compare(i) \/ Stat(i) \/ Copy(i) \/ AtomicWrite(i) \/ Finish(i)
        PROVE  WiringInv'
    BY <2>2, StepsKeep
  <2>3. ASSUME NEW f \in SettingsFiles, Edit(f) PROVE WiringInv'  BY <2>3, EditKeeps
  <2>4. CASE UNCHANGED wiringVars
    <3>1. UNCHANGED <<platform, settings, backup, ins, edits>>  BY <2>4 DEF wiringVars
    <3>2. WiringTypeOK' /\ OneHook'
      BY <3>1 DEF WiringInv, WiringTypeOK, OneHook, HooksOf
    <3>3. /\ Ops' = Ops /\ \A f : Looked(f)' = Looked(f)
          /\ \A hooks : Installed(hooks)' = Installed(hooks)
      BY <3>1 DEF Ops, Candidates, Looked, Installed
    <3>4. ASSUME NEW i \in Installers PROVE InsIsSound(i)'
      <4>1. InsIsSound(i) /\ ins'[i] = ins[i]  BY <3>1 DEF WiringInv
      <4>2. QED  BY <3>3, <4>1 DEF InsIsSound, Single, UserPart, Missed
    <3>5. QED  BY <3>2, <3>4 DEF WiringInv
  <2>5. QED  BY <2>1, <2>2, <2>3, <2>4 DEF WiringNext
<1>3. QED  BY <1>1, <1>2, PTL DEF WiringSpec

\* OneHook for any installs, binaries and edits: no file ever has two hooks of one op.
THEOREM HooksAreSingle == WiringSpec => []OneHook
<1>1. WiringInv => OneHook  BY DEF WiringInv
<1>2. QED  BY <1>1, WiringInvHolds, PTL

\* UserPartKept for any installs, binaries and edits: what an install writes has the
\* user's keys, and what bashback knows of the user's hooks, as it read them.
THEOREM UsersPartIsKept == WiringSpec => UserPartKept
<1>1. WiringInv => UserPartStays
  <2>1. ASSUME WiringInv, NEW i \in Installers, AtomicWrite(i), Parses(ins[i].target),
               ~Missed(ins[i].got),
               UserPart(settings[ins[i].target]) = UserPart(ins[i].got)
        PROVE  UserPart(settings'[ins[i].target]) = UserPart(settings[ins[i].target])
    <3>1. ins[i].at \in Going /\ InsIsSound(i) /\ ins[i].target \in SettingsFiles
      BY <2>1 DEF WiringInv, WiringTypeOK, AtomicWrite, InsAt, Going
    <3>2. settings'[ins[i].target] = ins[i].out
      BY <2>1, <3>1 DEF AtomicWrite, WiringInv, WiringTypeOK
    <3>3. UserPart(ins[i].out) = UserPart(ins[i].got)  BY <2>1, <3>1 DEF InsIsSound
    <3>4. QED  BY <2>1, <3>2, <3>3
  <2>2. QED  BY <2>1 DEF UserPartStays
<1>2. QED  BY <1>1, WiringInvHolds, PTL DEF WiringSpec, UserPartKept

\* InstalledIsSeen for any installs, binaries and edits: the check looks at every file an
\* install writes, and only an earlier one can hide it.
THEOREM InstallsAreSeen == WiringSpec => []InstalledIsSeen
<1>1. ASSUME WiringInv PROVE InstalledIsSeen
  <2>1. ASSUME NEW i \in Installers, InsAt(i, "finish"), settings[ins[i].target] = ins[i].out,
               NEW op \in Ops, Status(op) # "ok"
        PROVE  /\ Status(op) = "stale path"
               /\ \E k, l \in DOMAIN Candidates :
                    /\ k < l /\ Candidates[l] = ins[i].target
                    /\ \E e \in Range(HooksOf(Candidates[k])) : e.op = op /\ e.exe \in Gone
    <3>. DEFINE having == {k \in DOMAIN Candidates : Of(op, HooksOf(Candidates[k])) # {}}
                m == Min(having)
                hooks == HooksOf(Candidates[m])
                first == Min(Of(op, hooks))
    <3>1. /\ ins[i].at \in Going /\ InsIsSound(i) /\ ins[i].out \in Docs
          /\ \A f \in SettingsFiles : HooksOf(f) \in Seq(Entries)
      <4>1. \A f \in SettingsFiles : settings[f] \in SettingsContents
        BY <1>1 DEF WiringInv, WiringTypeOK
      <4>2. QED
        BY <1>1, <2>1, <4>1
           DEF WiringInv, WiringTypeOK, InsAt, Going, HooksOf, SettingsContents, Docs
    <3>2. PICK l \in DOMAIN Candidates : Candidates[l] = ins[i].target
      BY <3>1 DEF InsIsSound, Looked
    <3>3. HooksOf(Candidates[l]) = ins[i].out.hooks
      BY <2>1, <3>1, <3>2, WiringAssumption DEF HooksOf, NotRead
    <3>4. /\ DOMAIN Candidates \subseteq Nat
          /\ \A k \in DOMAIN Candidates : Candidates[k] \in SettingsFiles
      BY DEF Candidates, SettingsFiles
    <3>5. l \in having  BY <3>1, <3>3 DEF InsIsSound, Installed
    <3>6. m \in having /\ m <= l  BY <3>4, <3>5, MinIs
    <3>7. hooks \in Seq(Entries) /\ Of(op, hooks) # {}  BY <3>1, <3>4, <3>6
    <3>8. first \in Of(op, hooks)
      <4>. HIDE DEF hooks
      <4>1. Of(op, hooks) \in SUBSET Nat  BY <3>7 DEF Of
      <4>2. QED  BY <3>7, <4>1, MinIs
    <3>9. Status(op) = (IF hooks[first].exe \in Gone THEN "stale path" ELSE "ok")
      BY <3>5 DEF Status
    <3>. HIDE DEF having, m, hooks, first
    <3>10. hooks[first].exe \in Gone /\ Status(op) = "stale path"  BY <2>1, <3>9
    <3>11. first \in DOMAIN hooks /\ hooks[first].op = op  BY <3>8 DEF Of
    <3>12. m # l
      <4>1. SUFFICES ASSUME m = l PROVE FALSE  OBVIOUS
      <4>2. hooks = ins[i].out.hooks  BY <3>3, <4>1 DEF hooks
      <4>3. hooks[first].exe \in NewExes  BY <3>1, <3>8, <4>2 DEF InsIsSound, Installed
      <4>4. QED  BY <3>10, <4>3, WiringAssumption
    <3>13. m \in DOMAIN Candidates /\ m < l  BY <3>4, <3>6, <3>12 DEF having
    <3>14. hooks[first] \in Range(HooksOf(Candidates[m]))
      BY <3>11 DEF Range, hooks
    <3>15. QED  BY <3>2, <3>10, <3>11, <3>13, <3>14
  <2>2. QED  BY <2>1 DEF InstalledIsSeen
<1>2. QED  BY <1>1, WiringInvHolds, PTL
=============================================================================
