------------------------------- MODULE Wiring -------------------------------
(* Wiring bashback's hooks into an agent's settings: `bashback install` for   *)
(* Claude, Codex and Cursor (cli/install.go, install_codex.go,                *)
(* install_cursor.go) and the check doctor and install make of the result     *)
(* (cli/wiring.go).  Several installs, of different binaries, and a user's    *)
(* editor read and write the same files; nothing is locked.                   *)
(* The events of a settings file are merged one by one and alike, so one that *)
(* takes two hooks stands for all: PostToolUse.  A group of hooks is its      *)
(* entries; formatting is kept only as far as install compares it.            *)
EXTENDS Naturals, Sequences, SequencesExt

CONSTANTS Installers,   \* runs of `bashback install`
          Exes,         \* paths of bashback binaries
          Gone,         \* those of them that do not resolve any more
          NewExes,      \* those that are run
          Keys,         \* other top-level keys of a settings file
          NoSettings, Broken,  \* no file; a file that does not parse
          Denied,       \* a file that is there and cannot be read
          MaxEdits      \* bound: edits of the user while installs run

OpNames == {"post", "bg"}

\* The project's settings, its settings.local.json, those of a directory above it
\* and the user's.
SettingsFiles == {"work", "local", "up", "home"}
Platforms     == {"claude", "codex", "cursor"}

\* A hook: the op whose " hook <op>" its command contains ("none": no op's), the
\* binary it runs ("other": none of bashback's), whether its matcher is the one the
\* wiring asks for, and whether it has fields that bashback does not know: hookMatcher
\* and hookCmd have five, cursorHookEntry two.
Entries == [op : OpNames \cup {"none"}, exe : Exes \cup {"other"}, matches : BOOLEAN,
            extra : BOOLEAN]

\* A settings file; canon: byte for byte as install writes it.
Docs == [keys : SUBSET Keys, hooks : Seq(Entries), canon : BOOLEAN]
NoDoc == [keys |-> {}, hooks |-> <<>>, canon |-> FALSE]

InsStages == {"idle", "merged", "stat", "copy", "write", "finish", "done", "failed"}

ASSUME WiringAssumption ==
  /\ Gone \subseteq Exes /\ NewExes \subseteq Exes \ Gone
  /\ NoSettings # Broken /\ NoSettings # Denied /\ Broken # Denied
  /\ {NoSettings, Broken, Denied} \cap Docs = {}
  /\ MaxEdits \in Nat

VARIABLES platform,
          settings,  \* per file: its content
          backup,    \* per file: its .bashback-bak
          ins,       \* per install: its stage, binary, target, what it read, what it writes
          edits      \* edits made so far

wiringVars == <<platform, settings, backup, ins, edits>>

\* expectedWirings, codexWirings and cursorWirings, of that event.
Ops == IF platform = "claude" THEN {"post", "bg"} ELSE {"post"}

NotRead == {NoSettings, Broken, Denied}
SettingsContents == Docs \cup NotRead
Ins(at, exe, target, got, out) ==
  [at |-> at, exe |-> exe, target |-> target, got |-> got, out |-> out]
Idle(exe) == Ins("idle", exe, "work", NoSettings, NoDoc)

WiringTypeOK ==
  /\ platform \in Platforms
  /\ settings \in [SettingsFiles -> SettingsContents]
  /\ backup \in [SettingsFiles -> SettingsContents]
  /\ ins \in [Installers -> [at : InsStages, exe : NewExes, target : SettingsFiles,
                             got : SettingsContents, out : Docs]]
  /\ edits \in 0..MaxEdits

\* What a user has in a settings file before bashback's first install, or from an
\* earlier version of it.
Hook(op, exe, matches, extra) ==
  [op |-> op, exe |-> exe, matches |-> matches, extra |-> extra]
Before ==
  NotRead
  \cup {[keys |-> Keys, canon |-> FALSE,
         hooks |-> <<Hook("none", "other", FALSE, TRUE), Hook("post", x, FALSE, FALSE)>>] :
          x \in Gone}

WiringInit ==
  /\ platform \in Platforms
  /\ settings \in [SettingsFiles -> Before]
  /\ platform # "claude" => settings["local"] = NoSettings /\ settings["up"] = NoSettings
  /\ backup = [f \in SettingsFiles |-> NoSettings]
  /\ ins \in [Installers -> {Idle(x) : x \in NewExes}]
  /\ edits = 0
-----------------------------------------------------------------------------
(* The merge and the check, as functions of contents.                         *)

\* Mutant of Wired: only this binary's own command is recognised.
WiredExact(e, op, exe) == e.op = op /\ e.exe = exe

\* strings.Contains(command, " hook " + op)
Wired(e, op, exe) == e.op = op

\* The first entry of the op is rewritten, its matcher only for Cursor; without one
\* a hook is appended.
Wire(hooks, op, exe) ==
  LET found == {k \in DOMAIN hooks : Wired(hooks[k], op, exe)}
  IN  IF found = {} THEN Append(hooks, Hook(op, exe, TRUE, FALSE))
      ELSE [hooks EXCEPT ![Min(found)].exe = exe,
                         ![Min(found)].matches = @ \/ platform = "cursor"]

\* mergeWiringsInto and mergeCursorWirings: one op after the other.
WireAll(hooks, exe) ==
  IF platform = "claude" THEN Wire(Wire(hooks, "post", exe), "bg", exe)
                         ELSE Wire(hooks, "post", exe)

\* Mutant of Merge: the hooks block is written anew.
MergeFresh(doc, exe) == [keys |-> doc.keys, canon |-> TRUE, hooks |-> WireAll(<<>>, exe)]

\* Every entry of a file, the user's too, goes through hookMatcher and hookCmd, or
\* cursorHookEntry, and comes out without the fields they lack.
Known(hooks) == [k \in DOMAIN hooks |-> [hooks[k] EXCEPT !.extra = FALSE]]

\* What install makes of a file.
Merge(doc, exe) ==
  [keys |-> doc.keys, canon |-> TRUE, hooks |-> WireAll(Known(doc.hooks), exe)]

\* settingsCandidates; Codex and Cursor have the project's file and the user's.
Candidates == IF platform = "claude" THEN <<"work", "local", "up", "home">>
                                     ELSE <<"work", "home">>

\* The hooks of a file, if it is there and can be read, and those of them of an op.
HooksOf(f) == IF settings[f] \in NotRead THEN <<>> ELSE settings[f].hooks
Of(op, hooks) == {k \in DOMAIN hooks : hooks[k].op = op}

\* checkWiring and classifyWirings: the first hook of an op, in the order of the
\* candidates, decides.
Status(op) ==
  LET having == {k \in DOMAIN Candidates : Of(op, HooksOf(Candidates[k])) # {}}
      hooks  == HooksOf(Candidates[Min(having)])
  IN  IF having = {} THEN "missing"
      ELSE IF hooks[Min(Of(op, hooks))].exe \in Gone THEN "stale path" ELSE "ok"

\* Mutant of Target: a file above the project's is taken though the project has one.
TargetUp(user) ==
  IF user THEN "home"
  ELSE IF platform = "claude" /\ settings["up"] # NoSettings THEN "up" ELSE "local"

\* installTarget, codexTarget and cursorTarget.
Target(user) ==
  IF user THEN "home"
  ELSE IF platform = "claude" /\ settings["work"] = NoSettings /\ settings["up"] # NoSettings
       THEN "up" ELSE "work"
-----------------------------------------------------------------------------
(* An install.                                                                *)

InsAt(i, stage) == ins[i].at = stage
InsGoto(i, stage) == ins' = [ins EXCEPT ![i].at = stage]

\* The file is read and merged; one that does not parse ends the install, and one that
\* cannot be read (any error of ReadFile) is taken for none.
Missed(content) == content \in {NoSettings, Denied}

ReadAndMerge(i, user) ==
  /\ InsAt(i, "idle")
  /\ LET f == Target(user)
         doc == IF Missed(settings[f]) THEN NoDoc ELSE settings[f]
     IN  ins' = [ins EXCEPT ![i] =
           IF doc = Broken THEN Ins("failed", @.exe, f, NoSettings, NoDoc)
           ELSE Ins("merged", @.exe, f, settings[f], Merge(doc, @.exe))]
  /\ UNCHANGED <<platform, settings, backup, edits>>

\* The file is read again: what it holds already is not written.
Compare(i) ==
  /\ InsAt(i, "merged")
  /\ InsGoto(i, IF Missed(ins[i].got) THEN "write"
             ELSE IF settings[ins[i].target] = ins[i].out THEN "finish" ELSE "stat")
  /\ UNCHANGED <<platform, settings, backup, edits>>

\* The first backup is kept ...
Stat(i) ==
  /\ InsAt(i, "stat")
  /\ InsGoto(i, IF backup[ins[i].target] = NoSettings THEN "copy" ELSE "write")
  /\ UNCHANGED <<platform, settings, backup, edits>>

\* ... or made of what the file holds now.
Copy(i) ==
  /\ InsAt(i, "copy")
  /\ backup' = [backup EXCEPT ![ins[i].target] =
       IF Missed(settings[ins[i].target]) THEN @ ELSE settings[ins[i].target]]
  /\ InsGoto(i, "write")
  /\ UNCHANGED <<platform, settings, edits>>

\* atomicWriteFile
AtomicWrite(i) ==
  /\ InsAt(i, "write")
  /\ settings' = [settings EXCEPT ![ins[i].target] = ins[i].out]
  /\ InsGoto(i, "finish")
  /\ UNCHANGED <<platform, backup, edits>>

\* printWiringResult, then the end.
Finish(i) ==
  /\ InsAt(i, "finish")
  /\ InsGoto(i, "done")
  /\ UNCHANGED <<platform, settings, backup, edits>>

\* The user edits or removes a settings file while an install is about to write it.
Edit(f) ==
  /\ edits < MaxEdits
  /\ \E i \in Installers : ins[i].target = f /\ ins[i].at \in {"merged", "stat", "copy", "write"}
  /\ edits' = edits + 1
  /\ \E doc \in NotRead \cup
          (IF settings[f] \in NotRead THEN {}
           ELSE {[settings[f] EXCEPT !.canon = FALSE, !.keys = Keys \ @,
                                     !.hooks = Append(@, Hook("none", "other", TRUE, TRUE))]}) :
       settings' = [settings EXCEPT ![f] = doc]
  /\ UNCHANGED <<platform, backup, ins>>

WiringNext ==
  \/ \E i \in Installers :
       \/ \E user \in BOOLEAN : ReadAndMerge(i, user)
       \/ Compare(i) \/ Stat(i) \/ Copy(i) \/ AtomicWrite(i) \/ Finish(i)
  \/ \E f \in SettingsFiles : Edit(f)

WiringSpec == WiringInit /\ [][WiringNext]_wiringVars
-----------------------------------------------------------------------------
(* Properties.                                                                *)

\* What is the user's in a settings file: the other keys, and at their places the
\* hooks, as far as bashback knows their fields.
UserPart(doc) ==
  <<doc.keys, [k \in Of("none", doc.hooks) |-> Known(doc.hooks)[k]]>>
Parses(f) == settings[f] \notin NotRead

\* No two hooks of one op.
Single(hooks) == \A op \in OpNames : \A k, l \in Of(op, hooks) : k = l

\* However often, by however many binaries and however concurrently bashback is
\* installed, a file never holds two hooks of one op, which would run bashback
\* twice for a command (install.go: "a stale binary path is rewritten rather than
\* duplicated").
OneHook == \A f \in SettingsFiles : Single(HooksOf(f))

\* An install writes the user's keys, and the fields it knows of the user's hooks, back
\* at their places (install.go, "a merge that leaves unrelated keys intact"), other
\* installs between its reading and its writing included; only what the user changed in
\* between is lost.  It says nothing of the other fields of those hooks, which are lost
\* (Known), nor of a file that cannot be read, which is written over (Missed).
UserPartStays ==
  \A i \in Installers :
    LET f == ins[i].target
    IN  AtomicWrite(i) /\ Parses(f) /\ ~Missed(ins[i].got)
          /\ UserPart(settings[f]) = UserPart(ins[i].got)
        => UserPart(settings'[f]) = UserPart(settings[f])

\* No step of a behaviour breaks it.
UserPartKept == [][UserPartStays]_wiringVars

\* What an install has written is seen by the check that follows it: installTarget
\* and settingsCandidates agree, for every platform and level.  Only an older hook
\* in a file that comes before the target can make it report a stale path.
InstalledIsSeen ==
  \A i \in Installers :
    InsAt(i, "finish") /\ settings[ins[i].target] = ins[i].out =>
      \A op \in Ops :
        \/ Status(op) = "ok"
        \/ /\ Status(op) = "stale path"
           /\ \E k, l \in DOMAIN Candidates :
                /\ k < l /\ Candidates[l] = ins[i].target
                /\ \E e \in Range(HooksOf(Candidates[k])) : e.op = op /\ e.exe \in Gone
=============================================================================
