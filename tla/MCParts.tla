------------------------------ MODULE MCParts ------------------------------
(* The parts that do not share state with one another, each on an instance of *)
(* its own: the claim of the socket, garbage collection, the installers, the  *)
(* final snapshots of background commands, one snapshot in detail, and        *)
(* meta.json.  A behaviour is about one part; the others stay as they began.  *)
EXTENDS Listen, GC, Wiring, BgFinal, Engine, Meta, TLC

\* There is a binary that installs.
ASSUME PartsAssumption == NewExes # {}

\* The top-level file "f" has a namesake "h", in a directory of its own, whose own path
\* has metacharacters and does not match it.
Below == {{"h"}}
Patterns == [x \in Files |-> CASE x = "f" -> {"f", "h"} [] x = "h" -> {} [] OTHER -> {x}]

\* What they hold at first; anything else comes by a change.
Initially == [x \in Files |-> IF x = "g" THEN {"a"} ELSE {"a", "big", "locked"}]

VARIABLE part   \* what it is about

partsVars == <<part, vars, gcVars, wiringVars, bgVars, engineVars, metaVars>>

PartsInit ==
  /\ part \in {"listen", "collect", "install", "final", "snap", "meta"}
  /\ Init /\ BgInit /\ MetaInit /\ GCInit
  /\ IF part = "install" THEN WiringInit /\ \A f \in {"up", "home"} : settings[f] # Denied
     ELSE /\ platform = "claude" /\ edits = 0
          /\ settings = [f \in SettingsFiles |-> NoSettings] /\ backup = settings
          /\ ins = [i \in Installers |-> Idle(CHOOSE x \in NewExes : TRUE)]
  /\ IF part = "snap" THEN EngineInit /\ \A x \in Files : work[x] \in Initially[x]
     ELSE /\ work = Nothing /\ index = work
          /\ head = NoHead /\ exclude = <<>> /\ lock = "none" /\ protect = FALSE
          /\ snaps = [w \in Writers |-> NoSnap] /\ writes = 0 /\ taken = 0

PartsNext ==
  /\ UNCHANGED part
  /\ \/ /\ part = "listen" /\ Next
        /\ UNCHANGED <<gcVars, wiringVars, bgVars, engineVars, metaVars>>
     \/ /\ part = "collect" /\ GCNext
        /\ UNCHANGED <<vars, wiringVars, bgVars, engineVars, metaVars>>
     \/ /\ part = "install" /\ WiringNext
        /\ UNCHANGED <<vars, gcVars, bgVars, engineVars, metaVars>>
     \/ /\ part = "final" /\ BgNext
        /\ UNCHANGED <<vars, gcVars, wiringVars, engineVars, metaVars>>
     \/ /\ part = "snap" /\ EngineNext
        /\ UNCHANGED <<vars, gcVars, wiringVars, bgVars, metaVars>>
     \/ /\ part = "meta" /\ MetaNext
        /\ UNCHANGED <<vars, gcVars, wiringVars, bgVars, engineVars>>

PartsSpec == PartsInit /\ [][PartsNext]_partsVars

\* The second of two repositories takes twice what the first does.
Sizes == [s \in Sessions |-> s]
-----------------------------------------------------------------------------
\* Every variable holds a value of its kind.
PartsTypeOK ==
  TypeOK /\ BgTypeOK /\ MetaTypeOK /\ GCTypeOK /\ WiringTypeOK /\ EngineTypeOK
=============================================================================
