---------------------------- MODULE PartsProofs -----------------------------
(* Parts of the program on their own, for any processes, commands and bounds: *)
(* who claims the socket (Listen), what captures of background commands leave *)
(* behind (BgFinal), and meta.json (Meta); and, with the theorems about the   *)
(* other three, all of them together as MCParts checks them.                  *)
EXTENDS MCParts, UnlockedProofs, EngineProofs
-----------------------------------------------------------------------------
(* Listen: the lock is its holder's, and the path the server's.               *)

LEMMA InitClaim == Init => ClaimInv
  BY ProcsAssumption
  DEF Init, ClaimInv, TypeOK, LockHeld, BoundOwnsPath, CheckedIsFree, Bound,
      Critical, Stages

\* No step assigns a variable a value of another kind.
LEMMA ClaimTypes == TypeOK /\ [Next]_vars => TypeOK'
<1>1. SUFFICES ASSUME TypeOK, [Next]_vars PROVE TypeOK'
  OBVIOUS
<1>2. CASE UNCHANGED vars
  BY <1>1, <1>2 DEF TypeOK, vars
<1>3. ASSUME NEW p \in Procs,
             Start(p) \/ CleanLooks(p) \/ CleanRemoves(p) \/ Acquire(p)
               \/ AcquireTimesOut(p) \/ Check(p)
      PROVE  TypeOK'
  BY <1>1, <1>3 DEF TypeOK, Start, CleanLooks, CleanRemoves, Acquire,
     AcquireTimesOut, Check, Leave, Goto, Unlink, Stages, Critical
<1>4. ASSUME NEW p \in Procs,
             RemoveStale(p) \/ Bind(p) \/ Listening(p) \/ Close(p) \/ Exit(p) \/ Crash(p)
      PROVE  TypeOK'
  BY <1>1, <1>4 DEF TypeOK, RemoveStale, Bind, Listening, Close, Exit, Crash, Leave,
     Goto, Unlink, Stages, Critical
<1> QED
  BY <1>1, <1>2, <1>3, <1>4 DEF Next

\* The lock is held exactly by the process inside the claiming sequence.
LEMMA LockStep == TypeOK /\ LockHeld /\ [Next]_vars => LockHeld'
<1>1. SUFFICES ASSUME TypeOK, LockHeld, [Next]_vars PROVE LockHeld'
  OBVIOUS
<1> USE ProcsAssumption DEF TypeOK, LockHeld, Critical, Goto
<1>2. CASE UNCHANGED vars
  BY <1>1, <1>2 DEF vars
<1>3. ASSUME NEW p \in Procs,
             Start(p) \/ CleanLooks(p) \/ CleanRemoves(p) \/ Acquire(p)
      PROVE  LockHeld'
  BY <1>1, <1>3 DEF Start, CleanLooks, CleanRemoves, Acquire
<1>4. ASSUME NEW p \in Procs,
             AcquireTimesOut(p) \/ Check(p) \/ Exit(p) \/ Crash(p)
      PROVE  LockHeld'
  BY <1>1, <1>4 DEF AcquireTimesOut, Check, Exit, Crash, Leave
<1>5. ASSUME NEW p \in Procs, RemoveStale(p) \/ Bind(p) \/ Listening(p) \/ Close(p)
      PROVE  LockHeld'
  BY <1>1, <1>5 DEF RemoveStale, Bind, Listening, Close, Leave
<1> QED
  BY <1>1, <1>2, <1>3, <1>4, <1>5 DEF Next

\* As long as CleanStaleSockets has unlinked no socket in use, a bound process
\* owns the path, and none is bound while one is between its check and its bind.
LEMMA OwnerStep ==
  ClaimInv /\ [Next]_vars => BoundOwnsPath' /\ CheckedIsFree'
<1>1. SUFFICES ASSUME ClaimInv, [Next]_vars, ~clobbered'
               PROVE  /\ \A q \in Procs : Bound(q)' => file' = q
                      /\ \A q, r \in Procs :
                           stage'[q] \in {"remove", "bind"} => ~Bound(r)'
  BY DEF BoundOwnsPath, CheckedIsFree
<1>2. ~clobbered
  BY <1>1 DEF Next, vars, ClaimInv, TypeOK, Start, CleanLooks, CleanRemoves, Acquire,
     AcquireTimesOut, Check, RemoveStale, Bind, Listening, Close, Exit, Crash
<1>3. /\ \A q \in Procs : Bound(q) => file = q
      /\ \A q, r \in Procs : stage[q] \in {"remove", "bind"} => ~Bound(r)
  BY <1>1, <1>2 DEF ClaimInv, BoundOwnsPath, CheckedIsFree
<1>4. /\ TypeOK
      /\ \A q \in Procs : stage[q] \in Critical <=> bindlock = q
  BY <1>1 DEF ClaimInv, LockHeld
<1> USE DEF TypeOK, Bound, Goto
<1>5. CASE UNCHANGED vars
  BY <1>3, <1>5 DEF vars
<1>6. ASSUME NEW p \in Procs, Start(p) \/ CleanLooks(p) \/ Acquire(p)
      PROVE  /\ \A q \in Procs : Bound(q)' => file' = q
             /\ \A q, r \in Procs : stage'[q] \in {"remove", "bind"} => ~Bound(r)'
  BY <1>3, <1>4, <1>6 DEF Start, CleanLooks, Acquire
<1>7. ASSUME NEW p \in Procs, CleanRemoves(p) \/ RemoveStale(p) \/ Close(p)
      PROVE  /\ \A q \in Procs : Bound(q)' => file' = q
             /\ \A q, r \in Procs : stage'[q] \in {"remove", "bind"} => ~Bound(r)'
  \* The path is unlinked: nobody else was bound to it.
  <2>1. \A q \in Procs \ {p} : ~Bound(q)
    BY <1>1, <1>3, <1>4, <1>7, ProcsAssumption DEF CleanRemoves, RemoveStale, Close
  <2> QED
    BY <1>3, <1>4, <1>7, <2>1 DEF CleanRemoves, RemoveStale, Close
<1>8. ASSUME NEW p \in Procs, Check(p)
      PROVE  /\ \A q \in Procs : Bound(q)' => file' = q
             /\ \A q, r \in Procs : stage'[q] \in {"remove", "bind"} => ~Bound(r)'
  \* A bound process owns the path, and is past "listen", where it would hold
  \* the lock: the dial reaches it.
  <2>1. ~SocketAlive => \A q \in Procs : ~Bound(q)
    BY <1>3, <1>4, <1>8 DEF Check, SocketAlive, Critical
  <2> QED
    BY <1>3, <1>4, <1>8, <2>1 DEF Check, Leave
<1>9. ASSUME NEW p \in Procs, Bind(p) \/ Listening(p)
      PROVE  /\ \A q \in Procs : Bound(q)' => file' = q
             /\ \A q, r \in Procs : stage'[q] \in {"remove", "bind"} => ~Bound(r)'
  \* p holds the lock, so that nobody else is in the sequence.
  <2>1. \A q \in Procs \ {p} : stage[q] \notin Critical
    BY <1>4, <1>9 DEF Bind, Listening, Critical
  <2> QED
    BY <1>3, <1>4, <1>9, <2>1 DEF Bind, Listening, Leave, Critical
<1>10. ASSUME NEW p \in Procs, AcquireTimesOut(p) \/ Exit(p) \/ Crash(p)
       PROVE  /\ \A q \in Procs : Bound(q)' => file' = q
              /\ \A q, r \in Procs : stage'[q] \in {"remove", "bind"} => ~Bound(r)'
  BY <1>3, <1>4, <1>10 DEF AcquireTimesOut, Exit, Crash, Leave
<1> QED
  BY <1>1, <1>5, <1>6, <1>7, <1>8, <1>9, <1>10 DEF Next

\* The claim's invariant (listen.go, Listen) holds in every state.
THEOREM ClaimHolds == Spec => []ClaimInv
<1>1. Init => ClaimInv
  BY InitClaim
<1>2. ClaimInv /\ [Next]_vars => ClaimInv'
  BY ClaimTypes, LockStep, OwnerStep DEF ClaimInv
<1> QED
  BY <1>1, <1>2, PTL DEF Spec

\* However many processes race to claim the session, crash and close, the one
\* that serves owns the path every client dials, unless CleanStaleSockets, which
\* takes no lock, has unlinked a socket in use.
THEOREM ListenKeepsPath == Spec => []ServerOwnsPath
<1>1. ClaimInv => ServerOwnsPath
  BY DEF ClaimInv, BoundOwnsPath, ServerOwnsPath, Bound
<1> QED
  BY <1>1, ClaimHolds, PTL
-----------------------------------------------------------------------------
(* BgFinal: an entry that says a background command is captured or complete   *)
(* holds all that command wrote.  The command is over when a capture begins and *)
(* does not run again, so each step of a capture may look at a tree that others *)
(* change, but only by writes of their own.                                   *)

\* The command has been recorded and has ended.
Over(b) == post[b] # NoSHA /\ b \notin running

\* A capture is of a command that is over; what it is about to write holds all that
\* command wrote, and it notes only what is there.
CapsAreSound ==
  \A p \in Capturers : cap[p] # NoCap =>
    /\ Over(cap[p].b)
    /\ cap[p].at \in {"entry", "note"} =>
         cap[p].sha # NoSHA /\ Wrote(cap[p].b) \subseteq cap[p].sha
    /\ cap[p].at = "note" => final[cap[p].b] # NoSHA

\* A final entry holds all its command wrote, and the notes are true.
FinalsAreSound ==
  \A b \in Bgs :
    /\ final[b] # NoSHA => Over(b) /\ Wrote(b) \subseteq final[b]
    /\ note[b] = "completed" => Over(b) /\ Wrote(b) \subseteq post[b]
    /\ note[b] = "captured" => final[b] # NoSHA

BgInv == BgTypeOK /\ CapsAreSound /\ FinalsAreSound
-----------------------------------------------------------------------------
\* BgFinalAssumption as the steps need it: no snapshot is none.
LEMMA ConstantsOK == Bgs \cap Fgs = {} /\ MaxWrites \in Nat /\ NoSHA \notin Trees
  BY BgFinalAssumption

\* What begins or ends commands, records their posts and writes leaves BgInv true.
LEMMA CommandsKeep ==
  ASSUME BgInv,
         \/ \E c \in Runs : Starts(c) \/ Write(c) \/ End(c)
         \/ \E b \in Bgs : Posted(b)
         \/ Reclaimed
  PROVE  BgInv'
<1>1. CASE \E c \in Runs : Starts(c)
  <2>1. PICK c \in Runs : Starts(c)  BY <1>1
  <2>2. \A b \in Bgs : Over(b) => Over(b)'  BY <2>1 DEF Starts, Over
  <2>3. \A b \in Bgs : Wrote(b)' = Wrote(b)  BY <2>1 DEF Starts, Wrote
  <2>4. BgTypeOK'  BY <2>1 DEF BgInv, BgTypeOK, Starts, Runs
  <2>5. QED  BY <2>1, <2>2, <2>3, <2>4
             DEF BgInv, BgTypeOK, CapsAreSound, FinalsAreSound, Starts, Caps, Cap, NoCap
<1>2. CASE \E c \in Runs : Write(c)
  <2>1. PICK c \in Runs : Write(c)  BY <1>2
  <2>2. \A b \in Bgs : Over(b) => Over(b)' /\ b # c  BY <2>1 DEF Write, Over
  <2>3. \A b \in Bgs : b # c => Wrote(b)' = Wrote(b)  BY <2>1 DEF Write, Wrote
  <2>4. BgTypeOK'
    <3>1. Wrote(c) \subseteq {c} \X (1..MaxWrites)
      BY DEF BgInv, BgTypeOK, Trees, Wrote
    <3>2. IsFiniteSet(Wrote(c))
      <4>1. IsFiniteSet({c} \X (1..MaxWrites))
        <5>1. IsFiniteSet({c})  BY FS_Singleton
        <5>2. IsFiniteSet(1..MaxWrites)  BY FS_Interval, ConstantsOK
        <5>3. QED  BY <5>1, <5>2, FS_Product
      <4>2. QED  BY <3>1, <4>1, FS_Subset
    <3>3. Cardinality(Wrote(c)) + 1 \in 1..MaxWrites
      BY <2>1, <3>2, FS_CardinalityType, ConstantsOK DEF Write
    <3>4. QED  BY <2>1, <3>3 DEF BgInv, BgTypeOK, Write, Trees
  <2>5. QED  BY <2>1, <2>2, <2>3, <2>4
             DEF BgInv, BgTypeOK, CapsAreSound, FinalsAreSound, Write, Caps, Cap, NoCap
<1>3. CASE \E c \in Runs : End(c)
  <2>1. PICK c \in Runs : End(c)  BY <1>3
  <2>2. \A b \in Bgs : Over(b) => Over(b)'  BY <2>1 DEF End, Over
  <2>3. \A b \in Bgs : Wrote(b)' = Wrote(b)  BY <2>1 DEF End, Wrote
  <2>4. BgTypeOK'  BY <2>1 DEF BgInv, BgTypeOK, End
  <2>5. QED  BY <2>1, <2>2, <2>3, <2>4
             DEF BgInv, BgTypeOK, CapsAreSound, FinalsAreSound, End, Caps, Cap, NoCap
<1>4. CASE \E b \in Bgs : Posted(b)
  <2>1. PICK d \in Bgs : Posted(d)  BY <1>4
  <2>2. \A b \in Bgs : Over(b) => b # d /\ Over(b)' /\ post'[b] = post[b]
    BY <2>1 DEF Posted, Over, BgInv, BgTypeOK
  <2>3. \A b \in Bgs : Wrote(b)' = Wrote(b)  BY <2>1 DEF Posted, Wrote
  <2>4. BgTypeOK'  BY <2>1 DEF BgInv, BgTypeOK, Posted
  <2>5. QED  BY <2>1, <2>2, <2>3, <2>4
             DEF BgInv, BgTypeOK, CapsAreSound, FinalsAreSound, Posted, Caps, Cap, NoCap
<1>5. CASE Reclaimed
  BY <1>5 DEF BgInv, BgTypeOK, CapsAreSound, FinalsAreSound, Over, Wrote, Reclaimed
<1>6. QED  BY <1>1, <1>2, <1>3, <1>4, <1>5

\* What a capturer may turn to: nothing, or a capture as sound as the others.
LEMMA CapKeeps ==
  ASSUME BgInv, NEW p \in Capturers, NEW c \in Caps, Does(p, c), UNCHANGED <<tree, running, post>>,
         \A b \in Bgs : final[b] # NoSHA => final'[b] # NoSHA,
         c # NoCap => /\ Over(c.b)
                      /\ c.at \in {"entry", "note"} => c.sha # NoSHA /\ Wrote(c.b) \subseteq c.sha
                      /\ c.at = "note" => final'[c.b] # NoSHA
  PROVE  /\ CapsAreSound' /\ cap' \in [Capturers -> Caps]
         /\ \A b \in Bgs : Over(b)' = Over(b) /\ Wrote(b)' = Wrote(b)
<1>1. cap \in [Capturers -> Caps]  BY DEF BgInv, BgTypeOK
<1>2. cap' = [cap EXCEPT ![p] = c] /\ cap' \in [Capturers -> Caps]  BY <1>1 DEF Does
<1>3. \A x : Over(x)' = Over(x) /\ Wrote(x)' = Wrote(x)  BY DEF Over, Wrote
<1>4. ASSUME NEW q \in Capturers, cap'[q] # NoCap
      PROVE  /\ Over(cap'[q].b)
             /\ cap'[q].at \in {"entry", "note"} =>
                  cap'[q].sha # NoSHA /\ Wrote(cap'[q].b) \subseteq cap'[q].sha
             /\ cap'[q].at = "note" => final'[cap'[q].b] # NoSHA
  <2>1. CASE q = p  BY <1>1, <1>2, <1>4, <2>1
  <2>2. CASE q # p
    <3>1. cap'[q] = cap[q]  BY <1>1, <1>2, <2>2
    <3>2. cap[q].b \in Bgs  BY <1>1, <1>4, <3>1 DEF Caps, Cap
    <3>3. QED  BY <1>4, <3>1, <3>2 DEF BgInv, CapsAreSound
  <2>3. QED  BY <2>1, <2>2
<1>5. CapsAreSound'  BY <1>3, <1>4 DEF CapsAreSound, NoCap
<1>6. QED  BY <1>2, <1>3, <1>5

\* A capture by its fields.
LEMMA CapFields ==
  /\ NoCap \in Caps
  /\ \A at \in {"snap", "entry", "note"}, b \in Bgs, sha \in Trees \cup {NoSHA} :
       /\ Cap(at, b, sha) \in Caps /\ Cap(at, b, sha) # NoCap
       /\ Cap(at, b, sha).at = at /\ Cap(at, b, sha).b = b /\ Cap(at, b, sha).sha = sha
  /\ \A c \in Caps : c # NoCap =>
       /\ c.at \in {"snap", "entry", "note"} /\ c.b \in Bgs /\ c.sha \in Trees \cup {NoSHA}
       /\ [c EXCEPT !.at = "note"] = Cap("note", c.b, c.sha)
  /\ NoCap.at = "idle"
<1>1. NoCap \in Caps /\ NoCap.at = "idle"  BY DEF Caps, NoCap
<1>2. ASSUME NEW at \in {"snap", "entry", "note"}, NEW b \in Bgs, NEW sha \in Trees \cup {NoSHA}
      PROVE  /\ Cap(at, b, sha) \in Caps /\ Cap(at, b, sha) # NoCap
             /\ Cap(at, b, sha).at = at /\ Cap(at, b, sha).b = b /\ Cap(at, b, sha).sha = sha
  <2>1. Cap(at, b, sha) \in Caps  BY DEF Caps
  <2>2. Cap(at, b, sha).at = at /\ Cap(at, b, sha).b = b /\ Cap(at, b, sha).sha = sha
    BY DEF Cap
  <2>3. QED  BY <1>1, <2>1, <2>2
<1>3. ASSUME NEW c \in Caps, c # NoCap
      PROVE  /\ c.at \in {"snap", "entry", "note"} /\ c.b \in Bgs
             /\ c.sha \in Trees \cup {NoSHA}
             /\ [c EXCEPT !.at = "note"] = Cap("note", c.b, c.sha)
  <2>1. PICK at \in {"snap", "entry", "note"}, b \in Bgs, sha \in Trees \cup {NoSHA} :
          c = Cap(at, b, sha)
    BY <1>3 DEF Caps
  <2>2. [c EXCEPT !.at = "note"] = Cap("note", b, sha)  BY <2>1 DEF Cap
  <2>3. QED  BY <1>2, <2>1, <2>2
<1>4. QED  BY <1>1, <1>2, <1>3

\* A capture's steps leave BgInv true.
LEMMA CapturesKeep ==
  ASSUME BgInv, NEW p \in Capturers,
         Snapshot(p) \/ Entry(p) \/ Note(p) \/ Fails(p) \/ \E b \in Bgs : Look(p, b)
  PROVE  BgInv'
<1>. DEFINE b == cap[p].b
            sha == cap[p].sha
<1>0. /\ cap[p] \in Caps /\ tree \in Trees /\ tree # NoSHA
      /\ final \in [Bgs -> Trees \cup {NoSHA}] /\ note \in [Bgs -> Notes]
  BY ConstantsOK DEF BgInv, BgTypeOK
<1>1. CASE \E d \in Bgs : Look(p, d)
  <2>1. PICK d \in Bgs : Look(p, d)  BY <1>1
  <2>2. UNCHANGED <<tree, running, post, final, exists>> /\ Over(d)
    BY <2>1 DEF Look, Trigger, Over
  <2>3. CASE exists
    <3>1. Does(p, Cap("snap", d, NoSHA)) /\ note' = note  BY <2>1, <2>3 DEF Look
    <3>2. /\ CapsAreSound' /\ cap' \in [Capturers -> Caps]
          /\ \A e \in Bgs : Over(e)' = Over(e) /\ Wrote(e)' = Wrote(e)
      <4>. DEFINE c == Cap("snap", d, NoSHA)
      <4>1. c \in Caps /\ c.at = "snap" /\ c.b = d  BY CapFields
      <4>. HIDE DEF c
      <4>2. QED  BY <2>2, <3>1, <4>1, CapKeeps DEF c
    <3>3. QED  BY <2>2, <3>1, <3>2 DEF BgInv, BgTypeOK, FinalsAreSound
  <2>4. CASE ~exists
    <3>1. note' = [note EXCEPT ![d] = "not captured"] /\ cap' = cap
      BY <2>1, <2>4 DEF Look
    <3>2. \A e : Over(e)' = Over(e) /\ Wrote(e)' = Wrote(e)  BY <2>2 DEF Over, Wrote
    <3>3. note' \in [Bgs -> Notes]  BY <1>0, <3>1 DEF Notes
    <3>4. CapsAreSound'  BY <2>2, <3>1, <3>2 DEF BgInv, CapsAreSound, NoCap
    <3>5. FinalsAreSound'  BY <1>0, <2>2, <3>1, <3>2 DEF BgInv, FinalsAreSound
    <3>6. QED  BY <2>2, <3>1, <3>3, <3>4, <3>5 DEF BgInv, BgTypeOK
  <2>5. QED  BY <2>3, <2>4
<1>2. CASE Snapshot(p)
  <2>1. /\ UNCHANGED <<tree, running, post, final, exists>>
        /\ IF tree = post[b] THEN note' = [note EXCEPT ![b] = "completed"] /\ Does(p, NoCap)
                             ELSE Does(p, Cap("entry", b, tree)) /\ note' = note
    BY <1>2 DEF Snapshot
  <2>2. cap[p] # NoCap  BY <1>2, CapFields DEF Snapshot, At
  <2>3. b \in Bgs /\ Over(b)  BY <1>0, <2>2, CapFields DEF BgInv, CapsAreSound
  <2>4. Wrote(b) \subseteq tree  BY DEF Wrote
  <2>. HIDE DEF b
  <2>5. CASE tree = post[b]
    <3>1. /\ CapsAreSound' /\ cap' \in [Capturers -> Caps]
          /\ \A e \in Bgs : Over(e)' = Over(e) /\ Wrote(e)' = Wrote(e)
      BY <2>1, <2>5, CapFields, CapKeeps
    <3>2. note' \in [Bgs -> Notes]  BY <1>0, <2>1, <2>5 DEF Notes
    <3>3. FinalsAreSound'
      BY <1>0, <2>1, <2>3, <2>4, <2>5, <3>1 DEF BgInv, FinalsAreSound
    <3>4. QED  BY <2>1, <3>1, <3>2, <3>3 DEF BgInv, BgTypeOK
  <2>6. CASE tree # post[b]
    <3>. DEFINE c == Cap("entry", b, tree)
    <3>1. c \in Caps /\ c.at = "entry" /\ c.b = b /\ c.sha = tree
      BY <1>0, <2>3, CapFields
    <3>2. Does(p, c) /\ note' = note  BY <2>1, <2>6
    <3>. HIDE DEF c
    <3>3. /\ CapsAreSound' /\ cap' \in [Capturers -> Caps]
          /\ \A e \in Bgs : Over(e)' = Over(e) /\ Wrote(e)' = Wrote(e)
      BY <1>0, <2>1, <2>3, <2>4, <3>1, <3>2, CapKeeps
    <3>4. QED  BY <2>1, <3>2, <3>3 DEF BgInv, BgTypeOK, FinalsAreSound
  <2>7. QED  BY <2>5, <2>6
<1>3. CASE Entry(p)
  <2>1. cap[p] # NoCap /\ cap[p].at = "entry"  BY <1>3, CapFields DEF Entry, At
  <2>2. b \in Bgs /\ sha \in Trees \cup {NoSHA}  BY <1>0, <2>1, CapFields
  <2>3. Over(b) /\ sha # NoSHA /\ Wrote(b) \subseteq sha
    BY <2>1 DEF BgInv, CapsAreSound
  <2>4. /\ final' = [final EXCEPT ![b] = sha] /\ Does(p, Cap("note", b, sha))
        /\ UNCHANGED <<tree, running, post, note, exists>>
    BY <1>0, <1>3, <2>1, CapFields DEF Entry
  <2>. DEFINE c == Cap("note", b, sha)
  <2>5. c \in Caps /\ c.at = "note" /\ c.b = b /\ c.sha = sha  BY <2>2, CapFields
  <2>. HIDE DEF b, sha
  <2>6. /\ final' \in [Bgs -> Trees \cup {NoSHA}] /\ final'[b] = sha
        /\ \A e \in Bgs : e # b => final'[e] = final[e]
    BY <1>0, <2>2, <2>4
  <2>7. Does(p, c)  BY <2>4
  <2>. HIDE DEF c
  <2>8. /\ CapsAreSound' /\ cap' \in [Capturers -> Caps]
        /\ \A e \in Bgs : Over(e)' = Over(e) /\ Wrote(e)' = Wrote(e)
    BY <2>2, <2>3, <2>4, <2>5, <2>6, <2>7, CapKeeps
  <2>9. FinalsAreSound'
    BY <2>2, <2>3, <2>4, <2>6, <2>8 DEF BgInv, FinalsAreSound
  <2>10. QED  BY <2>4, <2>6, <2>8, <2>9 DEF BgInv, BgTypeOK
<1>4. CASE Note(p)
  <2>1. cap[p] # NoCap /\ cap[p].at = "note"  BY <1>4, CapFields DEF Note, At
  <2>2. b \in Bgs /\ final[b] # NoSHA
    BY <1>0, <2>1, CapFields DEF BgInv, CapsAreSound
  <2>3. /\ note' = [note EXCEPT ![b] = "captured"] /\ Does(p, NoCap)
        /\ UNCHANGED <<tree, running, post, final, exists>>
    BY <1>4 DEF Note
  <2>. HIDE DEF b
  <2>4. /\ CapsAreSound' /\ cap' \in [Capturers -> Caps]
        /\ \A e \in Bgs : Over(e)' = Over(e) /\ Wrote(e)' = Wrote(e)
    BY <2>3, CapFields, CapKeeps
  <2>5. note' \in [Bgs -> Notes]  BY <1>0, <2>3 DEF Notes
  <2>6. FinalsAreSound'
    BY <1>0, <2>2, <2>3, <2>4 DEF BgInv, FinalsAreSound
  <2>7. QED  BY <2>3, <2>4, <2>5, <2>6 DEF BgInv, BgTypeOK
<1>5. CASE Fails(p)
  <2>1. Does(p, NoCap) /\ UNCHANGED <<tree, running, post, final, note, exists>>
    BY <1>5 DEF Fails
  <2>2. /\ CapsAreSound' /\ cap' \in [Capturers -> Caps]
        /\ \A e \in Bgs : Over(e)' = Over(e) /\ Wrote(e)' = Wrote(e)
    BY <2>1, CapFields, CapKeeps
  <2>3. QED  BY <2>1, <2>2 DEF BgInv, BgTypeOK, FinalsAreSound
<1>6. QED  BY <1>1, <1>2, <1>3, <1>4, <1>5

\* The commands and the captures leave BgInv true for good.
THEOREM BgInvHolds == BgSpec => []BgInv
<1>1. ASSUME BgInit PROVE BgInv
  <2>1. NoCap \in Caps /\ {} \in Trees  BY CapFields DEF Trees
  <2>2. BgTypeOK  BY <1>1, <2>1 DEF BgInit, BgTypeOK, Notes
  <2>3. CapsAreSound /\ FinalsAreSound
    BY <1>1 DEF BgInit, CapsAreSound, FinalsAreSound
  <2>4. QED  BY <2>2, <2>3 DEF BgInv
<1>2. BgInv /\ [BgNext]_bgVars => BgInv'
  <2>1. BgInv /\ BgNext => BgInv'  BY CommandsKeep, CapturesKeep DEF BgNext
  <2>2. BgInv /\ UNCHANGED bgVars => BgInv'
    BY DEF BgInv, BgTypeOK, CapsAreSound, FinalsAreSound, Over, Wrote, bgVars
  <2>3. QED  BY <2>1, <2>2
<1>3. QED  BY <1>1, <1>2, PTL DEF BgSpec

\* FinalHoldsAll for any commands, capturers and bounds: what is said to be captured
\* or complete is all there, however captures are interleaved, repeated or cut off.
THEOREM FinalsHoldAll == BgSpec => []FinalHoldsAll
<1>1. BgInv => FinalHoldsAll
  BY DEF BgInv, FinalsAreSound, FinalHoldsAll
<1>2. QED  BY <1>1, BgInvHolds, PTL
-----------------------------------------------------------------------------
(* Meta: as long as its snapshots and config commands do not overlap, no reader *)
(* finds half a file, nobody fails, and the value set last is in force.       *)

\* An inode that has a name is not to be made any more.
NamesAreMade ==
  \A p \in MetaProcs :
    metaFile = p \/ tmpFile = p => op[p].at \notin {"idle", "open"}

\* The two names are never of one inode.
NamesDiffer == metaFile # tmpFile \/ metaFile = NoFile

\* meta.json is whole, and holds what was set last; without it nothing was set.
FileIsWhole ==
  /\ metaFile # NoFile => inode[metaFile] # Half /\ inode[metaFile] = wanted
  /\ metaFile = NoFile => wanted = 0

\* Who is at work is alone, and what it writes has the temporary file's name.
WriterIsAlone ==
  \A p \in MetaProcs :
    /\ Working(p) => \A q \in MetaProcs : Working(q) => q = p
    /\ op[p].at \in {"write", "rename"} => tmpFile # NoFile /\ op[p].fd = tmpFile
    /\ op[p].at = "rename" => inode[tmpFile] = op[p].value
    /\ Working(p) /\ p \notin Setters => metaFile = NoFile /\ op[p].value = 0
    /\ op[p].at # "failed"

\* Who has not begun has nothing to write.
IdleIsBlank == \A p \in MetaProcs : op[p].at = "idle" => op[p].value = 0

MetaInv ==
  /\ MetaTypeOK
  /\ IdleIsBlank
  /\ NamesAreMade
  /\ NamesDiffer
  /\ ~overlap => FileIsWhole /\ WriterIsAlone
-----------------------------------------------------------------------------
\* The types, which every step keeps.
LEMMA MetaTypes == MetaTypeOK /\ [MetaNext]_metaVars => MetaTypeOK'
<1>. SUFFICES ASSUME MetaTypeOK, [MetaNext]_metaVars PROVE MetaTypeOK'
  OBVIOUS
<1>. USE DEF MetaTypeOK, MetaStages, Content, Moves, Begins
<1>1. ASSUME NEW p \in Snappers, Ensure(p) PROVE MetaTypeOK'
  BY <1>1 DEF Ensure, MetaProcs
<1>2. ASSUME NEW p \in Setters, NEW v \in Values, Set(p, v) PROVE MetaTypeOK'
  BY <1>2 DEF Set, Op, MetaProcs
<1>3. ASSUME NEW p \in MetaProcs, Open(p) PROVE MetaTypeOK'
  <2>1. PICK i \in MetaProcs : /\ inode' = [inode EXCEPT ![i] = Half]
                               /\ tmpFile' = i
                               /\ op' = [op EXCEPT ![p].at = "write", ![p].fd = i]
    BY <1>3 DEF Open, TmpName
  <2>2. op' \in [MetaProcs -> [at : MetaStages, value : Values \cup {0},
                               fd : MetaProcs \cup {NoFile}]]
    <3>. DEFINE Op1 == [at : MetaStages, value : Values \cup {0}, fd : MetaProcs \cup {NoFile}]
    <3>1. op \in [MetaProcs -> Op1] /\ "write" \in MetaStages  OBVIOUS
    <3>2. [op[p] EXCEPT !.at = "write", !.fd = i] \in Op1  BY <3>1
    <3>3. op' = [op EXCEPT ![p] = [op[p] EXCEPT !.at = "write", !.fd = i]]  BY <2>1, <3>1
    <3>. HIDE DEF Op1
    <3>4. op' \in [MetaProcs -> Op1]  BY <3>1, <3>2, <3>3
    <3>5. QED  BY <3>4 DEF Op1
  <2>3. inode' \in [MetaProcs -> Content]  BY <2>1
  <2>4. QED  BY <1>3, <2>1, <2>2, <2>3 DEF Open
<1>4. ASSUME NEW p \in MetaProcs, Fill(p) PROVE MetaTypeOK'
  BY <1>4 DEF Fill
<1>5. ASSUME NEW p \in MetaProcs, Rename(p) PROVE MetaTypeOK'
  BY <1>5 DEF Rename
<1>6. ASSUME NEW p \in MetaProcs, Killed(p) PROVE MetaTypeOK'
  BY <1>6 DEF Killed
<1>7. CASE UNCHANGED metaVars
  BY <1>7 DEF metaVars
<1>8. QED  BY <1>1, <1>2, <1>3, <1>4, <1>5, <1>6, <1>7 DEF MetaNext

\* A process that begins: alone, or from then on overlap is true.
LEMMA BeginKeeps ==
  ASSUME MetaInv, MetaTypeOK', NEW p \in MetaProcs, Begins(p),
         NEW at \in {"open", "failed", "done"}, NEW v \in Values \cup {0},
         op' = [op EXCEPT ![p] = Op(at, v, op[p].fd)]
               \/ op' = [op EXCEPT ![p] = Op(at, v, NoFile)],
         at = "failed" => Unreadable,
         at = "open" /\ p \notin Setters => metaFile = NoFile /\ v = 0,
         UNCHANGED <<metaFile, tmpFile, inode, wanted>>
  PROVE  MetaInv'
<1>1. /\ op[p].at = "idle" /\ op'[p].at = at /\ op'[p].value = v
      /\ \A q \in MetaProcs : q # p => op'[q] = op[q]
  BY DEF MetaInv, MetaTypeOK, Begins, Op
<1>2. IdleIsBlank' /\ NamesAreMade' /\ NamesDiffer'
  BY <1>1 DEF MetaInv, IdleIsBlank, NamesAreMade, NamesDiffer
<1>3. ASSUME ~overlap' PROVE FileIsWhole' /\ WriterIsAlone'
  <2>1. ~overlap /\ \A q \in MetaProcs : ~Working(q)
    BY <1>3 DEF Begins, MetaInv, MetaTypeOK
  <2>2. FileIsWhole /\ WriterIsAlone /\ at # "failed"
    BY <2>1 DEF MetaInv, FileIsWhole, Unreadable
  <2>3. FileIsWhole'  BY <2>2 DEF FileIsWhole
  <2>4. \A q \in MetaProcs : Working(q)' => q = p
    BY <1>1, <2>1 DEF Working
  <2>5. ASSUME NEW q \in MetaProcs
        PROVE  /\ Working(q)' => \A r \in MetaProcs : Working(r)' => r = q
               /\ op'[q].at \in {"write", "rename"} => tmpFile' # NoFile /\ op'[q].fd = tmpFile'
               /\ op'[q].at = "rename" => inode'[tmpFile'] = op'[q].value
               /\ Working(q)' /\ q \notin Setters => metaFile' = NoFile /\ op'[q].value = 0
               /\ op'[q].at # "failed"
    <3>1. CASE q = p  BY <1>1, <2>2, <2>4, <3>1 DEF Working
    <3>2. CASE q # p  BY <1>1, <2>1, <2>2, <2>4, <3>2 DEF Working, WriterIsAlone
    <3>3. QED  BY <3>1, <3>2
  <2>6. QED  BY <2>3, <2>5 DEF WriterIsAlone
<1>4. QED  BY <1>2, <1>3 DEF MetaInv

\* WriteMeta's steps: who is not alone has made overlap true; who is alone finds its
\* own file under the temporary name, whole when it renames it.
LEMMA WriteKeeps ==
  ASSUME MetaInv, MetaTypeOK', NEW p \in MetaProcs,
         Open(p) \/ Fill(p) \/ Rename(p) \/ Killed(p)
  PROVE  MetaInv'
<1>. USE DEF Working, Moves
<1>0. MetaTypeOK /\ IdleIsBlank /\ NamesAreMade /\ NamesDiffer
  BY DEF MetaInv
<1>1. Working(p) /\ \A q \in MetaProcs : q # p => op'[q] = op[q]
  BY <1>0 DEF MetaTypeOK, Open, Fill, Rename, Killed
<1>2. overlap' = overlap
  BY DEF Open, Fill, Rename, Killed
<1>3. op'[p].at # "idle" /\ op'[p].value = op[p].value
  BY <1>0 DEF MetaTypeOK, Open, Fill, Rename, Killed
<1>4. IdleIsBlank'
  BY <1>0, <1>1, <1>3 DEF IdleIsBlank
<1>5. ASSUME ~overlap
      PROVE  /\ FileIsWhole /\ WriterIsAlone
             /\ \A q \in MetaProcs : q # p => ~Working(q) /\ ~Working(q)'
  BY <1>0, <1>1, <1>5 DEF MetaInv, WriterIsAlone
<1>6. CASE Open(p)
  <2>1. PICK i \in MetaProcs : /\ i = IF tmpFile = NoFile THEN p ELSE tmpFile
                               /\ inode' = [inode EXCEPT ![i] = Half]
                               /\ tmpFile' = i
                               /\ op' = [op EXCEPT ![p].at = "write", ![p].fd = i]
    BY <1>0, <1>6 DEF Open, TmpName, MetaTypeOK
  <2>2. op[p].at = "open" /\ metaFile' = metaFile /\ wanted' = wanted  BY <1>6 DEF Open
  <2>3. op'[p].at = "write" /\ op'[p].fd = i  BY <1>0, <2>1 DEF MetaTypeOK
  <2>4. i # metaFile /\ i # NoFile
    BY <1>0, <2>1, <2>2, MetaAssumption DEF NamesAreMade, NamesDiffer
  <2>5. NamesAreMade'
    BY <1>0, <1>1, <2>1, <2>2, <2>3 DEF NamesAreMade
  <2>6. NamesDiffer'  BY <2>1, <2>2, <2>4 DEF NamesDiffer
  <2>7. ASSUME ~overlap PROVE FileIsWhole' /\ WriterIsAlone'
    <3>1. FileIsWhole'
      BY <1>0, <1>5, <2>1, <2>2, <2>4, <2>7 DEF FileIsWhole, MetaTypeOK
    <3>2. WriterIsAlone'
      <4>1. ASSUME NEW q \in MetaProcs
            PROVE  /\ Working(q)' => \A r \in MetaProcs : Working(r)' => r = q
                   /\ op'[q].at \in {"write", "rename"} => tmpFile' # NoFile /\ op'[q].fd = tmpFile'
                   /\ op'[q].at = "rename" => inode'[tmpFile'] = op'[q].value
                   /\ Working(q)' /\ q \notin Setters => metaFile' = NoFile /\ op'[q].value = 0
                   /\ op'[q].at # "failed"
        <5>1. CASE q = p
          <6>1. \A r \in MetaProcs : Working(r)' => r = q  BY <1>5, <2>7, <5>1
          <6>2. Working(p) /\ p \notin Setters => metaFile = NoFile /\ op[p].value = 0
            BY <1>5, <2>7 DEF WriterIsAlone
          <6>3. QED  BY <1>1, <1>3, <2>1, <2>2, <2>3, <2>4, <5>1, <6>1, <6>2
        <5>2. CASE q # p
          <6>1. op'[q] = op[q] /\ ~Working(q) /\ ~Working(q)'  BY <1>1, <1>5, <2>7, <5>2
          <6>2. op[q].at # "failed"  BY <1>5, <2>7 DEF WriterIsAlone
          <6>3. QED  BY <6>1, <6>2
        <5>3. QED  BY <5>1, <5>2
      <4>2. QED  BY <4>1 DEF WriterIsAlone
    <3>3. QED  BY <3>1, <3>2
  <2>8. QED  BY <1>2, <1>4, <2>5, <2>6, <2>7 DEF MetaInv
<1>7. CASE Fill(p)
  <2>1. /\ op[p].at = "write" /\ op'[p].at = "rename" /\ op'[p].fd = op[p].fd
        /\ inode' = [inode EXCEPT ![op[p].fd] = op[p].value]
        /\ UNCHANGED <<metaFile, tmpFile, wanted>>
    BY <1>0, <1>7 DEF Fill, MetaTypeOK
  <2>2. NamesAreMade' /\ NamesDiffer'
    BY <1>0, <1>1, <2>1 DEF NamesAreMade, NamesDiffer
  <2>3. ASSUME ~overlap PROVE FileIsWhole' /\ WriterIsAlone'
    <3>1. op[p].fd = tmpFile /\ tmpFile # NoFile /\ tmpFile \in MetaProcs
      BY <1>0, <1>5, <2>1, <2>3 DEF WriterIsAlone, MetaTypeOK
    <3>2. FileIsWhole'
      BY <1>0, <1>5, <2>1, <2>3, <3>1 DEF FileIsWhole, MetaTypeOK, NamesDiffer
    <3>3. inode'[tmpFile'] = op'[p].value
      BY <1>0, <1>3, <2>1, <3>1 DEF MetaTypeOK
    <3>4. WriterIsAlone'
      BY <1>1, <1>3, <1>5, <2>1, <2>3, <3>1, <3>3 DEF WriterIsAlone
    <3>5. QED  BY <3>2, <3>4
  <2>4. QED  BY <1>2, <1>4, <2>2, <2>3 DEF MetaInv
<1>8. CASE Rename(p)
  <2>1. op[p].at = "rename" /\ inode' = inode  BY <1>8 DEF Rename
  <2>2. op'[p].at \in {"done", "failed"}  BY <1>0, <1>8 DEF Rename, MetaTypeOK
  <2>3. NamesAreMade'
    BY <1>0, <1>1, <1>8, <2>1, <2>2, MetaAssumption DEF NamesAreMade, Rename
  <2>4. NamesDiffer'  BY <1>0, <1>8 DEF NamesDiffer, Rename
  <2>5. ASSUME ~overlap PROVE FileIsWhole' /\ WriterIsAlone'
    <3>1. tmpFile # NoFile /\ tmpFile \in MetaProcs /\ inode[tmpFile] = op[p].value
      BY <1>0, <1>5, <2>1, <2>5 DEF WriterIsAlone, MetaTypeOK
    <3>2. /\ metaFile' = tmpFile /\ tmpFile' = NoFile /\ op'[p].at = "done"
          /\ wanted' = IF p \in Setters THEN op[p].value ELSE wanted
      BY <1>0, <1>8, <3>1 DEF Rename, MetaTypeOK
    <3>3. op[p].value = wanted'
      BY <1>1, <1>5, <2>5, <3>2 DEF WriterIsAlone, FileIsWhole
    <3>4. op[p].value # Half  BY <1>0, MetaAssumption DEF MetaTypeOK
    <3>5. FileIsWhole'  BY <2>1, <3>1, <3>2, <3>3, <3>4 DEF FileIsWhole
    <3>6. WriterIsAlone'
      BY <1>1, <1>5, <2>1, <2>5, <3>2 DEF WriterIsAlone
    <3>7. QED  BY <3>5, <3>6
  <2>6. QED  BY <1>2, <1>4, <2>3, <2>4, <2>5 DEF MetaInv
<1>9. CASE Killed(p)
  <2>1. op'[p].at = "crashed" /\ UNCHANGED <<metaFile, tmpFile, inode, wanted>>
    BY <1>0, <1>9 DEF Killed, MetaTypeOK
  <2>2. NamesAreMade' /\ NamesDiffer'
    BY <1>0, <1>1, <2>1 DEF NamesAreMade, NamesDiffer
  <2>3. ASSUME ~overlap PROVE FileIsWhole' /\ WriterIsAlone'
    BY <1>1, <1>5, <2>1, <2>3 DEF FileIsWhole, WriterIsAlone
  <2>4. QED  BY <1>2, <1>4, <2>2, <2>3 DEF MetaInv
<1>10. QED  BY <1>6, <1>7, <1>8, <1>9

\* Every part of MetaInv in every state.
THEOREM MetaInvHolds == MetaSpec => []MetaInv
<1>1. MetaInit => MetaInv
  <2>. SUFFICES ASSUME MetaInit PROVE MetaInv
    OBVIOUS
  <2>1. \A p \in MetaProcs : op[p].at = "idle" /\ op[p].value = 0
    BY DEF MetaInit, Op
  <2>2. MetaTypeOK
    BY DEF MetaInit, MetaTypeOK, MetaStages, Content, Op
  <2>3. IdleIsBlank /\ NamesAreMade /\ NamesDiffer /\ FileIsWhole
    BY <2>1, MetaAssumption
       DEF MetaInit, IdleIsBlank, NamesAreMade, NamesDiffer, FileIsWhole
  <2>4. WriterIsAlone
    BY <2>1 DEF WriterIsAlone, Working
  <2>5. QED  BY <2>2, <2>3, <2>4 DEF MetaInv
<1>2. MetaInv /\ [MetaNext]_metaVars => MetaInv'
  <2>. SUFFICES ASSUME MetaInv, [MetaNext]_metaVars PROVE MetaInv'
    OBVIOUS
  <2>1. MetaTypeOK /\ MetaTypeOK'  BY MetaTypes DEF MetaInv
  <2>2. ASSUME NEW p \in Snappers, Ensure(p) PROVE MetaInv'
    <3>. DEFINE at == IF metaFile = NoFile THEN "open" ELSE IF Unreadable THEN "failed" ELSE "done"
    <3>1. p \in MetaProcs /\ op[p].at = "idle" /\ Begins(p)
      BY <2>2 DEF MetaProcs, Ensure, Begins
    <3>2. op[p].value = 0  BY <3>1 DEF MetaInv, IdleIsBlank
    <3>3. at \in {"open", "failed", "done"} /\ (at = "failed" => Unreadable)
          /\ (at = "open" => metaFile = NoFile)
      OBVIOUS
    <3>4. op' = [op EXCEPT ![p].at = at]  BY <2>2 DEF Ensure, Moves
    <3>. HIDE DEF at
    <3>5. op[p] \in [at : MetaStages, value : Values \cup {0}, fd : MetaProcs \cup {NoFile}]
      BY <2>1, <3>1 DEF MetaTypeOK
    <3>6. [op[p] EXCEPT !.at = at] = Op(at, 0, op[p].fd)  BY <3>2, <3>5 DEF Op
    <3>7. op' = [op EXCEPT ![p] = Op(at, 0, op[p].fd)]  BY <3>4, <3>6
    <3>8. QED  BY <2>1, <2>2, <3>1, <3>3, <3>7, BeginKeeps DEF Ensure
  <2>3. ASSUME NEW p \in Setters, NEW v \in Values, Set(p, v) PROVE MetaInv'
    <3>. DEFINE at == IF Unreadable THEN "failed" ELSE "open"
    <3>1. p \in MetaProcs /\ Begins(p)  BY <2>3 DEF MetaProcs, Set
    <3>2. op' = [op EXCEPT ![p] = Op(at, v, NoFile)]  BY <2>3 DEF Set
    <3>3. at \in {"open", "failed", "done"} /\ (at = "failed" => Unreadable)
      OBVIOUS
    <3>. HIDE DEF at
    <3>4. QED  BY <2>1, <2>3, <3>1, <3>2, <3>3, BeginKeeps DEF Set
  <2>4. ASSUME NEW p \in MetaProcs, Open(p) \/ Fill(p) \/ Rename(p) \/ Killed(p)
        PROVE  MetaInv'
    BY <2>1, <2>4, WriteKeeps
  <2>5. CASE UNCHANGED metaVars
    BY <2>5 DEF MetaInv, MetaTypeOK, IdleIsBlank, NamesAreMade, NamesDiffer, FileIsWhole,
                WriterIsAlone, Working, metaVars
  <2>6. QED  BY <2>2, <2>3, <2>4, <2>5 DEF MetaNext
<1>3. QED  BY <1>1, <1>2, PTL DEF MetaSpec

\* AloneIsSafe for any processes and values: until two writers overlap, meta.json is
\* whole and no command or snapshot fails, whoever was killed before.
THEOREM LoneWritersAreSafe == MetaSpec => []AloneIsSafe
<1>1. MetaInv => AloneIsSafe
  BY DEF MetaInv, FileIsWhole, WriterIsAlone, AloneIsSafe, Unreadable
<1>2. QED  BY <1>1, MetaInvHolds, PTL

\* SettingInForce for any processes and values: what the last command set is what
\* Resolve finds.
THEOREM SettingsAreInForce == MetaSpec => []SettingInForce
<1>1. MetaInv => SettingInForce
  BY MetaAssumption
     DEF MetaInv, MetaTypeOK, FileIsWhole, SettingInForce, Effective
<1>2. QED  BY <1>1, MetaInvHolds, PTL
-----------------------------------------------------------------------------
(* The parts together, as MCParts has them: what is proved of each holds of the *)
(* behaviours the run explores.                                               *)

\* An install that has not begun, of whatever binary, and the empty repository are among
\* the states the installers and the engine may start from.
LEMMA PartsStart ==
  PartsInit => Init /\ GCInit /\ WiringInit /\ BgInit /\ EngineInit /\ MetaInit
<1>. SUFFICES ASSUME PartsInit
              PROVE  Init /\ GCInit /\ WiringInit /\ BgInit /\ EngineInit /\ MetaInit
  OBVIOUS
<1>1. WiringInit
  <2>1. CASE part = "install"  BY <2>1 DEF PartsInit
  <2>2. CASE part # "install"
    <3>. DEFINE exe == CHOOSE x \in NewExes : TRUE
    <3>1. exe \in NewExes  BY PartsAssumption
    <3>. HIDE DEF exe
    <3>2. /\ platform = "claude" /\ edits = 0
          /\ settings = [f \in SettingsFiles |-> NoSettings] /\ backup = settings
          /\ ins = [i \in Installers |-> Idle(exe)]
      BY <2>2 DEF PartsInit, exe
    <3>3. settings \in [SettingsFiles -> Before]  BY <3>2 DEF Before, NotRead
    <3>4. ins \in [Installers -> {Idle(x) : x \in NewExes}]  BY <3>1, <3>2
    <3>5. QED  BY <3>2, <3>3, <3>4 DEF WiringInit, Platforms
  <2>3. QED  BY <2>1, <2>2
<1>2. EngineInit
  <2>1. CASE part = "snap"  BY <2>1 DEF PartsInit
  <2>2. CASE part # "snap"  BY <2>2 DEF PartsInit, EngineInit, Nothing
  <2>3. QED  BY <2>1, <2>2
<1>3. QED  BY <1>1, <1>2 DEF PartsInit

\* Each part takes a step of its own or none.
LEMMA PartsStep ==
  [PartsNext]_partsVars =>
    /\ [Next]_vars /\ [GCNext]_gcVars /\ [WiringNext]_wiringVars
    /\ [BgNext]_bgVars /\ [EngineNext]_engineVars /\ [MetaNext]_metaVars
  BY DEF PartsNext, partsVars

\* What MCParts checks together is a behaviour of each part.
THEOREM PartsAreThemselves ==
  PartsSpec => Spec /\ GCSpec /\ WiringSpec /\ BgSpec /\ EngineSpec /\ MetaSpec
  BY PartsStart, PartsStep, PTL
     DEF PartsSpec, Spec, GCSpec, WiringSpec, BgSpec, EngineSpec, MetaSpec

\* Type correctness of the parts, from their inductive invariants.
THEOREM PartsTypesHold == PartsSpec => []PartsTypeOK
<1>1. ClaimInv /\ BgInv /\ MetaInv /\ GCInv /\ WiringInv /\ EngineInv => PartsTypeOK
  BY DEF ClaimInv, BgInv, MetaInv, GCInv, WiringInv, EngineInv, PartsTypeOK
<1>2. QED
  BY <1>1, PartsAreThemselves, ClaimHolds, BgInvHolds, MetaInvHolds, GCInvHolds,
     WiringInvHolds, EngineInvHolds, PTL

\* And so everything the parts are checked for holds of them together.
THEOREM PartsAreSafe ==
  PartsSpec =>
    /\ [](ClaimInv /\ ServerOwnsPath /\ OneHook /\ InstalledIsSeen
          /\ FinalHoldsAll /\ AloneIsSafe /\ SettingInForce)
    /\ ActiveKept /\ RecentKept /\ LastKept /\ UserPartKept
    /\ HoldsWhatStood /\ BigStaysOut /\ FailsOnlyFor
  BY PartsAreThemselves, ClaimHolds, ListenKeepsPath, HooksAreSingle, InstallsAreSeen,
     FinalsHoldAll, LoneWritersAreSafe, SettingsAreInForce, ActiveIsKept, RecentIsKept,
     LastIsKept, UsersPartIsKept, HeldIsWhatStood, BigIsLeftOut, FailuresHaveCause, PTL
=============================================================================
