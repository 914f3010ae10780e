------------------------------- MODULE Skills -------------------------------
(***************************************************************************)
(* The skills of the agent: what is found on the project's disk            *)
(* (grok-build-skills.ts), what the manager of a session keeps of it and   *)
(* tells the model (grok-build-skill-manager.ts, with main.ts), and what   *)
(* the user may type after a slash (grok-build-slash-commands.ts).         *)
(*                                                                         *)
(* The disk changes under the manager: it is read when a session begins,   *)
(* when the bundle is synced, near what a tool call touches and when the   *)
(* conversation is summarized.  A skill with paths is held until a call     *)
(* touches a file they match; here they all match the one deep file.       *)
(***************************************************************************)
EXTENDS Naturals, FiniteSets, Sequences, SequencesExt

CONSTANTS
  SkillPaths,    \* skill files in the order of discovery: their place and their directory's name
  SkillTexts,    \* what each may hold: a name, whether it is gated by paths and shown to the model
  FlowNames,     \* names of the saved workflows, no two the same
  Builtins,      \* names and aliases of the built-in commands that are enabled
  PagerNames,    \* names of the native client's own commands
  MaxSkillWrites \* bound: changes of skill files

SkillFiles == Range(SkillPaths)
Page == [in |-> "page", dir |-> "none"] \* a file of the project no skill's paths match
Deep == [in |-> "deep", dir |-> "none"] \* one they match, in a directory with skills of its own
NoText == [name |-> "none", gated |-> FALSE, shown |-> FALSE]
SkillNames == {t.name : t \in UNION {SkillTexts[f] : f \in SkillFiles}} \cup {f.dir : f \in SkillFiles}

ASSUME SkillAssumption ==
  /\ SkillPaths \in Seq(SkillFiles)
  /\ \A f \in SkillFiles : \A t \in SkillTexts[f] : t.gated \in BOOLEAN /\ t.shown \in BOOLEAN
  /\ \A f \in SkillFiles : f.in \in {"local", "bundled", "near"}
  /\ \A f \in SkillFiles : NoText \notin SkillTexts[f]
  /\ IsInjective(SkillPaths)
  /\ MaxSkillWrites \in Nat

VARIABLES
  text,         \* the skill files as they are
  skillManager, \* rootSkillManager and its tables; NoManager before the first run
  listed,       \* skills the conversation lists
  named,        \* history: names its reminders have given since it began or was summarized
  namedTwice,   \* history: a reminder after a tool call named one of them again
  summarized,    \* history: the conversation has been summarized
  writes

skillVars == <<text, skillManager, listed, named, namedTwice, summarized, writes>>

NoManager == [startup |-> {}, held |-> {}, found |-> {}, activated |-> {}, dynamic |-> {},
              known |-> {}, announced |-> {}, checked |-> FALSE, begun |-> FALSE]

\* The paths of the gated skills match the one deep file.
PathsMatch(s, target) == s.gated /\ target = Deep

FilesOf(skills) == {s.file : s \in skills}
NamesOf(skills) == {s.name : s \in skills}
Shown(skills) == {s \in skills : s.shown}

-----------------------------------------------------------------------------
(***************************************************************************)
(* Discovery                                                               *)
(***************************************************************************)

Parsed(f) == [file |-> f, name |-> text[f].name, gated |-> text[f].gated, shown |-> text[f].shown]
OnDisk == {f \in SkillFiles : text[f] # NoText}

\* Of two files that declare one name the first found is the skill.
FoundSkills ==
  {Parsed(f) : f \in {SkillPaths[i] : i \in {j \in DOMAIN SkillPaths :
     LET file == SkillPaths[j] IN
       /\ file \in OnDisk /\ file.in # "near"
       /\ \A k \in 1..(j - 1) :
            LET earlier == SkillPaths[k] IN
              earlier \in OnDisk /\ earlier.in # "near" => text[earlier].name # text[file].name}}}

\* What is found from a path that a call touched.  A skill file itself is read alone, and only
\* under a root that can hold one; a directory is scanned once.
FoundAt(target) ==
  CASE target \in SkillFiles /\ target.in \in {"local", "near"} -> {Parsed(target)}
    [] target = Deep /\ ~skillManager.checked ->
         {Parsed(f) : f \in {g \in OnDisk : g.in = "near"}}
    [] OTHER -> {}

-----------------------------------------------------------------------------
(***************************************************************************)
(* The manager of a session                                                *)
(***************************************************************************)

\* What a reminder lists enters the conversation.
Lists(skills) == listed' = listed \cup Shown(skills)

BeginsSession ==
  LET ungated == {s \in FoundSkills : ~s.gated} IN
  /\ ~skillManager.begun
  /\ skillManager' = [NoManager EXCEPT !.begun = TRUE, !.startup = ungated,
                        !.held = FoundSkills \ ungated, !.known = FilesOf(FoundSkills),
                        !.announced = NamesOf(ungated)]
  /\ Lists(ungated)
  /\ named' = NamesOf(Shown(ungated))
  /\ UNCHANGED <<text, namedTwice, summarized, writes>>

\* As BundleUpdated, but what it brings is not entered among the known files.
BundleUpdated_Unrebuilt ==
  LET m == skillManager
      gated == {s \in FoundSkills : s.gated /\ s.file \notin m.activated}
      kept == {s \in m.held : s.file \in m.dynamic /\ s.file \notin FilesOf(FoundSkills)}
  IN /\ m.begun
     /\ skillManager' = [m EXCEPT !.startup = FoundSkills \ gated, !.held = kept \cup gated]
     /\ Lists(FoundSkills \ gated)
     /\ UNCHANGED <<text, named, namedTwice, summarized, writes>>

\* A new bundle owns the files it brings; a skill found near a file stays held.
BundleUpdated ==
  LET m == skillManager
      gated == {s \in FoundSkills : s.gated /\ s.file \notin m.activated}
      kept == {s \in m.held : s.file \in m.dynamic /\ s.file \notin FilesOf(FoundSkills)}
      startup == FoundSkills \ gated
      held == kept \cup gated
  IN /\ m.begun
     /\ skillManager' = [m EXCEPT !.startup = startup, !.held = held,
                           !.known = FilesOf(startup \cup held \cup m.found)]
     /\ Lists(startup)
     /\ UNCHANGED <<text, named, namedTwice, summarized, writes>>

\* Held skills are activated before others are found, so that a gated skill waits for a later
\* call; of several new ones with one name the first is announced.
ToolCalled(target, scans) ==
  LET m == skillManager
      ripe == {s \in m.held : PathsMatch(s, target) /\ s.file \notin m.activated}
      fresh == IF scans THEN {s \in FoundAt(target) : s.file \notin m.known} ELSE {}
      gated == {s \in fresh : s.gated}
      found == m.found \cup {s \in ripe : s.file \notin FilesOf(m.found)} \cup (fresh \ gated)
      candidates == {s \in ripe \cup (fresh \ gated) : s.name \notin m.announced}
  IN \E announced \in SUBSET candidates :
       /\ NamesOf(announced) = NamesOf(candidates)
       /\ Cardinality(announced) = Cardinality(NamesOf(candidates))
       /\ skillManager' = [m EXCEPT !.activated = @ \cup FilesOf(ripe), !.found = found,
                             !.held = @ \cup gated, !.dynamic = @ \cup FilesOf(gated),
                             !.known = @ \cup FilesOf(fresh),
                             !.announced = @ \cup NamesOf(announced),
                             !.checked = @ \/ (scans /\ target = Deep)]
       /\ Lists(announced)
       /\ named' = named \cup NamesOf(Shown(announced))
       /\ namedTwice' = (namedTwice \/ NamesOf(Shown(announced)) \cap named # {})

\* A call that failed changes nothing; one that writes is not taken to have looked around.
CallSucceeds ==
  /\ skillManager.begun
  /\ \/ \E target \in {Page, Deep} \cup OnDisk : ToolCalled(target, TRUE)
     \/ ToolCalled(Deep, FALSE)
  /\ UNCHANGED <<text, summarized, writes>>

\* The summary begins with a listing of what is on disk then.
CompactsContext ==
  /\ skillManager.begun
  /\ listed' = Shown(FoundSkills)
  /\ skillManager' = [skillManager EXCEPT !.announced = {}, !.checked = FALSE]
  /\ named' = {} /\ summarized' = TRUE
  /\ UNCHANGED <<text, namedTwice, writes>>

\* The project's agent is reset, and the next run begins another session.
ResetsSkills ==
  /\ skillManager.begun
  /\ skillManager' = NoManager /\ listed' = {}
  /\ named' = {} /\ summarized' = FALSE
  /\ UNCHANGED <<text, namedTwice, writes>>

\* The user, the agent or a sync of the bundle writes or removes a skill file.
ChangesSkill(f) ==
  /\ writes < MaxSkillWrites
  /\ \E t \in SkillTexts[f] \cup {NoText} : t # text[f] /\ text' = [text EXCEPT ![f] = t]
  /\ writes' = writes + 1
  /\ UNCHANGED <<skillManager, listed, named, namedTwice, summarized>>

SkillInit ==
  /\ text = [f \in SkillFiles |-> NoText]
  /\ skillManager = NoManager /\ listed = {} /\ named = {}
  /\ namedTwice = FALSE /\ summarized = FALSE /\ writes = 0

SkillNext ==
  \/ BeginsSession \/ BundleUpdated \/ CallSucceeds \/ CompactsContext \/ ResetsSkills
  \/ \E f \in SkillFiles : ChangesSkill(f)

SkillSpec == SkillInit /\ [][SkillNext]_skillVars

-----------------------------------------------------------------------------
(***************************************************************************)
(* A read that fails under a name the manager knows                        *)
(***************************************************************************)

Entries(f) ==
  LET known == IF f \in FilesOf(skillManager.startup) THEN skillManager.startup
               ELSE IF f \in FilesOf(skillManager.held) THEN skillManager.held
               ELSE skillManager.found
  IN {s \in known : s.file = f}

\* As Suggested, but a file that two tables hold counts twice.
Suggested_PerTable(name) ==
  LET tables == [t \in {"startup", "held", "found"} |-> skillManager[t]]
      matches == {m \in (DOMAIN tables) \X UNION Range(tables) :
                    m[2] \in tables[m[1]] /\ name \in {m[2].file.dir, m[2].name}}
  IN IF Cardinality(matches) = 1 THEN {m[2].file : m \in matches} \cap OnDisk ELSE {}

\* One file counts once, whichever tables hold it, and two that answer to the name leave no
\* suggestion.
Suggested(name) ==
  LET tables == skillManager.startup \cup skillManager.held \cup skillManager.found
      matches == {f \in FilesOf(tables) : f.dir = name \/ name \in NamesOf(Entries(f))}
  IN IF Cardinality(matches) = 1 THEN matches \cap OnDisk ELSE {}

-----------------------------------------------------------------------------
(***************************************************************************)
(* Slash commands                                                          *)
(***************************************************************************)

Bare(name) == <<"bare", name>>
Qualified(s) == <<s.file.in, s.name>>
TakenNames == PagerNames \cup Builtins

\* A skill's own name where nothing else has it, and its name with its scope otherwise.
\* Names of skills are folded and discovered once, so only other commands can take one.
SkillCommand(s) == IF s.name \notin TakenNames THEN Bare(s.name) ELSE Qualified(s)
SkillCommands == {[typed |-> SkillCommand(s), kind |-> "skill", is |-> s.name] : s \in FoundSkills}

\* As FreeFlows, but a skill's name leaves the workflow's free.
FreeFlows_OfSkills == FlowNames \ TakenNames

\* Workflows whose names no command, skill or command of the native client has.
FreeFlows == FlowNames \ (TakenNames \cup NamesOf(FoundSkills))

AvailableCommands ==
  {[typed |-> Bare(b), kind |-> "builtin", is |-> b] : b \in Builtins}
  \cup SkillCommands
  \cup {[typed |-> Bare(w), kind |-> "workflow", is |-> w] : w \in FreeFlows}

\* The built-in commands, then the skills, then the workflows, else the text as it is.
TypedResolves(typed) ==
  LET skills == {c \in SkillCommands : c.typed = typed}
      builtins == {b \in Builtins : typed = Bare(b)}
      flows == {w \in FreeFlows : typed = Bare(w)}
  IN CASE builtins # {} -> [typed |-> typed, kind |-> "builtin", is |-> typed[2]]
       [] builtins = {} /\ skills # {} -> CHOOSE c \in skills : TRUE
       [] builtins = {} /\ skills = {} /\ flows # {} ->
            [typed |-> typed, kind |-> "workflow", is |-> typed[2]]
       [] OTHER -> [typed |-> typed, kind |-> "text", is |-> "none"]

-----------------------------------------------------------------------------
(***************************************************************************)
(* Properties                                                              *)
(***************************************************************************)

Skills == [file : SkillFiles, name : SkillNames, gated : BOOLEAN, shown : BOOLEAN]

SkillTypeOK ==
  /\ \A f \in SkillFiles : text[f] \in SkillTexts[f] \cup {NoText}
  /\ skillManager.startup \cup skillManager.held \cup skillManager.found \cup listed
       \subseteq Skills
  /\ skillManager.activated \cup skillManager.dynamic \cup skillManager.known \subseteq SkillFiles
  /\ skillManager.announced \cup named \subseteq SkillNames
  /\ {skillManager.checked, skillManager.begun, namedTwice, summarized} \subseteq BOOLEAN
  /\ writes \in 0..MaxSkillWrites

\* The files the manager takes as known are those of its tables, no file is both offered from
\* the start and held, and what is offered under a gate has been touched for.
TablesAgree ==
  LET m == skillManager IN
  /\ m.known = FilesOf(m.startup \cup m.held \cup m.found)
  /\ FilesOf(m.startup) \cap FilesOf(m.held) = {}
  /\ \A s \in m.startup \cup m.found : s.gated => s.file \in m.activated
  /\ \A s \in m.held : s.gated

\* Until the conversation is summarized it lists no gated skill that no call has touched for,
\* and no reminder after a call repeats a name.
ListsWhatIsNew ==
  /\ ~namedTwice
  /\ ~summarized => \A s \in listed : s.gated => s.file \in skillManager.activated

\* One registered file of a name is suggested for it, also when two tables hold the file.
OneIsSuggested ==
  \A f \in OnDisk :
    LET m == skillManager
        all == m.startup \cup m.held \cup m.found
        fits == {s \in all : s.file.dir = f.dir \/ s.name = f.dir}
    IN f \in FilesOf(all) /\ FilesOf(fits) = {f} => Suggested(f.dir) = {f}

\* What a list of commands offers is what comes of typing it, and no two are typed alike.
OfferedIsResolved ==
  \A c \in AvailableCommands :
    /\ TypedResolves(c.typed) = c
    /\ \A d \in AvailableCommands : d.typed = c.typed => d = c

\* What the agent is told of its skills agrees with what its manager keeps and what can be typed.
SkillsStayTrue == TablesAgree /\ ListsWhatIsNew /\ OneIsSuggested /\ OfferedIsResolved

\* The test "withholds paths-gated skills until a successful matching file tool call": not so
\* after a compaction, whose listing is of all that is on disk.
GatedAreWithheld == \A s \in listed : s.gated => s.file \in skillManager.activated

\* A skill that was found and shown is still listed, or can be found again: not so after a
\* compaction, which forgets its name and keeps its path as known.
FoundStayListed ==
  \A s \in skillManager.found : s.shown =>
    s.name \in NamesOf(listed) \/ s.file \notin skillManager.known
=============================================================================
