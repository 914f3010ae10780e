----------------------------- MODULE SubagentRuns -----------------------------
(***************************************************************************)
(* A subagent's run: which definition, role and persona it takes, which    *)
(* tools it is given (grok-build-subagent-runner.ts, -agents.ts,           *)
(* -subagent-config.ts), its hooks and the tool it is required to call     *)
(* (-custom-agent.ts), and the session that is kept for a later run.       *)
(*                                                                         *)
(* The files of the project may be anything at each start.  Tools are      *)
(* named by kind: of several of one kind the model keeps one.              *)
(***************************************************************************)
EXTENDS Naturals, FiniteSets

CONSTANTS SubRuns,     \* the subagents' identifiers
          NoRun,
          MaxRetries,  \* recovery.maxRetries of a completion requirement
          MaxRounds,   \* maxTurns of a definition: how often a stop hook may send it back
          MaxStopped   \* bound: runs that are stopped

ASSUME SubagentAssumption ==
  /\ NoRun \notin SubRuns /\ MaxRetries \in Nat /\ MaxRounds \in Nat \ {0}
  /\ MaxStopped \in Nat

VARIABLES subRun,      \* each run: how far it is, what it is, its tools and its counts
          kept,        \* sessions: what a later run may resume
          startsOwed,  \* pendingStarts
          stoppedRuns  \* runs whose signal is aborted

subagentVars == <<subRun, kept, startsOwed, stoppedRuns>>

-----------------------------------------------------------------------------
(***************************************************************************)
(* Capability modes and tools                                              *)
(***************************************************************************)

Modes == {"read-only", "read-write", "execute", "all"}
Unset == "unset"

ReadTools  == {"read_file", "grep", "todo_write", "web_search", "enter_plan_mode"}
WriteTools == {"search_replace", "write"}
ExecuteTools == {"run_terminal_command"}
AllTools   == ReadTools \cup WriteTools \cup ExecuteTools \cup {"monitor", "use_tool"}
OptionalTools == {"web_search", "write", "enter_plan_mode"}
MemoryTools == {"read_file", "search_replace", "write"}

Within(mode) ==
  CASE mode = "read-only" -> ReadTools
    [] mode = "read-write" -> ReadTools \cup WriteTools
    [] mode = "execute" -> ReadTools \cup ExecuteTools
    [] OTHER -> AllTools

\* As Intersect, but of two modes that differ the requested one.
Intersect_Requested(requested, ceiling) ==
  IF requested \in {Unset, "all"} THEN ceiling ELSE requested

Intersect(requested, ceiling) ==
  IF requested = Unset THEN ceiling
  ELSE IF ceiling = Unset THEN requested
  ELSE IF requested = "all" THEN ceiling
  ELSE IF ceiling \in {"all", requested} THEN requested ELSE "read-only"

Types == {"explore", "custom"}

ToolsOfType(type) == IF type = "explore" THEN {"read_file", "grep"} ELSE AllTools

(***************************************************************************)
(* Definitions.  `listed` is the frontmatter's tools, empty when it has    *)
(* none; a name of it that is not offered voids the list.                  *)
(***************************************************************************)

Plain == [injects |-> TRUE, listed |-> {}, denied |-> {}, ceiling |-> Unset, memory |-> FALSE,
          requires |-> FALSE]

\* What project and user files may define, beside one that cannot be read.
Definitions ==
  {[Plain EXCEPT !.ceiling = "read-write", !.requires = TRUE],
   [Plain EXCEPT !.injects = FALSE, !.listed = {"search_replace", "run_terminal_command"}],
   [Plain EXCEPT !.ceiling = "read-only", !.memory = TRUE, !.denied = {"grep"},
                 !.listed = {"run_terminal_command", "unknown"}]}

Absent == [Plain EXCEPT !.ceiling = "absent"]
Malformed == [Plain EXCEPT !.ceiling = "malformed"]
WellFormed(d) == d \notin {Absent, Malformed}

\* A file that is not well formed is as if it were not there.
ReadDefinition(d) == IF WellFormed(d) THEN d ELSE Absent

\* project over user over bundled; a type of the product's own gives way to the project's only.
Discovered(type, inProject, inUser) ==
  LET project == ReadDefinition(inProject)
      user == ReadDefinition(inUser)
  IN IF project # Absent THEN project
     ELSE IF type # "custom" THEN Plain ELSE user

DefinitionTools(type, d) ==
  LET offered == IF d.injects THEN ToolsOfType(type) \cup OptionalTools
                 ELSE ToolsOfType(type) \ OptionalTools
      explicit == (d.listed \cap offered) \cup (offered \cap {"use_tool"})
  IN (IF d.listed = {} \/ ~(d.listed \subseteq offered) THEN offered ELSE explicit) \ d.denied

\* subagentToolNames, and the tools of a definition with a memory.
ToolNames(type, mode, d) ==
  (DefinitionTools(type, d) \cap Within(mode)) \cup (IF d.memory THEN MemoryTools ELSE {})

(***************************************************************************)
(* Roles and personas.  A role is found by the type or by the persona.     *)
(***************************************************************************)

Personas == {"none", "reviewer"}

\* The default capability mode of a role: the project's file over the user's.
RoleMode(inProject, inUser) == IF inProject # "absent" THEN inProject ELSE inUser

ModeFor(requested, roleMode, d) == Intersect(Intersect(requested, roleMode), d.ceiling)

-----------------------------------------------------------------------------
\* `given` is what a run was started with; it is kept until its first prompt and does not change.
NothingGiven == [tools |-> {}, ceilings |-> {}, memory |-> FALSE]

\* `result` is what the last prompt came to.
Fresh == [at |-> "none", given |-> NothingGiven, requires |-> FALSE, result |-> "none",
          retries |-> 0, rounds |-> 0]

NotKept == [status |-> "none", type |-> "none", persona |-> "none"]

SubRunEnds(r) == subRun' = [subRun EXCEPT ![r] = [Fresh EXCEPT !.at = "over"]]
MovesOn(r, stage) == subRun' = [subRun EXCEPT ![r].at = stage]
Keep(r, status) == kept' = [kept EXCEPT ![r].status = status]
MarkStarted(r) == startsOwed' = startsOwed \ {r}

\* createSubagentTask: the start is owed before the task begins.
Reserve(r) ==
  /\ subRun[r].at = "none"
  /\ MovesOn(r, "reserved")
  /\ startsOwed' = startsOwed \cup {r}
  /\ UNCHANGED <<kept, stoppedRuns>>

\* The person, the agent or the end of its parent: the run's signal is aborted.
StopsRun(r) ==
  /\ subRun[r].at \notin {"none", "over"} /\ r \notin stoppedRuns
  /\ Cardinality(stoppedRuns) < MaxStopped
  /\ stoppedRuns' = stoppedRuns \cup {r}
  /\ UNCHANGED <<subRun, kept, startsOwed>>

\* run: a signal that is already aborted makes the admission throw before anything is marked.
Admitted(r) ==
  /\ subRun[r].at = "reserved"
  /\ IF r \in stoppedRuns THEN SubRunEnds(r) ELSE MovesOn(r, "admitted")
  /\ UNCHANGED <<kept, startsOwed, stoppedRuns>>

\* What is asked for is refused before a session exists.
Refused(r) ==
  /\ SubRunEnds(r)
  /\ MarkStarted(r)
  /\ UNCHANGED <<kept, stoppedRuns>>

\* validateGrokBuildSubagentResume, of a session that is kept and at rest.
MayResume(p, type, persona) ==
  /\ kept[p].status = "completed"
  /\ kept[p].type = type
  /\ persona \in {"none", kept[p].persona}

\* What a run asks for: `there` says that its model, its directory and its persona's
\* instructions can be had and that it asks for no worktree.
SubRequests ==
  {q \in [from : SubRuns \cup {NoRun}, type : Types, persona : Personas, there : BOOLEAN,
          mode : {Unset, "read-write", "all"}] : q.type = "custom" \/ q.persona = "none"}

\* runAdmitted: the definition, role and persona of now, whatever the resumed run had.
Resolves(r, q, d, roleMode) ==
  /\ subRun[r].at = "admitted"
  /\ IF d = Absent \/ ~q.there \/ (q.from # NoRun /\ ~MayResume(q.from, q.type, q.persona))
       THEN Refused(r)
       ELSE /\ subRun' = [subRun EXCEPT ![r] =
                 [Fresh EXCEPT !.at = "hooks", !.requires = d.requires,
                    !.given = [tools    |-> ToolNames(q.type, ModeFor(q.mode, roleMode, d), d),
                               ceilings |-> {q.mode, roleMode, d.ceiling} \ {Unset},
                               memory   |-> d.memory]]]
            /\ kept' = [kept EXCEPT ![r] = [status |-> "running", type |-> q.type, persona |-> q.persona]]
            /\ UNCHANGED <<startsOwed, stoppedRuns>>

\* SessionStart hooks fail open.
SessionStarts(r) ==
  /\ subRun[r].at = "hooks"
  /\ subRun' = [subRun EXCEPT ![r].at = "prompt", ![r].given = NothingGiven]
  /\ UNCHANGED <<kept, startsOwed, stoppedRuns>>

\* UserPromptSubmit may deny the prompt; a hook that fails, or is cut off, denies nothing.
PromptGate(r, denied) ==
  /\ subRun[r].at = "prompt"
  /\ denied => r \notin stoppedRuns
  /\ subRun' = [subRun EXCEPT ![r].at = IF denied THEN "judged" ELSE "sampling",
                              ![r].result = IF denied THEN "failed" ELSE "none"]
  /\ UNCHANGED <<kept, startsOwed, stoppedRuns>>

\* The session's turns end, with or without a call of the tool that is required; they are
\* "broken" when they fail after it.  They may fail before the first answer begins.
Samples(r, result) ==
  /\ subRun[r].at = "sampling"
  /\ r \in stoppedRuns => result \in {"failed", "broken"}
  /\ result \in {"uncalled", "broken"} => subRun[r].requires
  /\ \/ MarkStarted(r)
     \/ result = "failed" /\ UNCHANGED startsOwed
  /\ subRun' = [subRun EXCEPT ![r].at = "judged", ![r].result = result]
  /\ UNCHANGED <<kept, stoppedRuns>>

\* GrokBuildCompletionTracker: try again with the reminder, unless it is done or has tried enough.
TriesAgain(r) ==
  /\ subRun[r].requires
  /\ subRun[r].result \in {"failed", "uncalled"}
  /\ subRun[r].retries < MaxRetries

\* The catch of runAdmitted: a run that was stopped leaves its session as it is.
Fails(r) ==
  /\ SubRunEnds(r)
  /\ IF r \in stoppedRuns THEN UNCHANGED kept ELSE Keep(r, "completed")
  /\ MarkStarted(r)

\* The wait before a retry is cut off by the signal.
Judged(r) ==
  /\ subRun[r].at = "judged"
  /\ IF TriesAgain(r)
       THEN IF r \in stoppedRuns
              THEN Fails(r)
              ELSE /\ subRun' = [subRun EXCEPT ![r].at = "prompt", ![r].retries = @ + 1, ![r].result = "none"]
                   /\ UNCHANGED <<kept, startsOwed>>
       ELSE IF subRun[r].result \in {"failed", "broken"}
              THEN Fails(r)
              ELSE /\ subRun' = [subRun EXCEPT ![r].at = IF subRun[r].result = "limit" THEN "done" ELSE "stopping",
                                               ![r].result = "none"]
                   /\ UNCHANGED <<kept, startsOwed>>
  /\ UNCHANGED stoppedRuns

\* A SubagentStop hook may send it back to work, each time with all its retries.
StopGate(r, sentBack) ==
  /\ subRun[r].at = "stopping"
  /\ sentBack => r \notin stoppedRuns /\ subRun[r].rounds < MaxRounds
  /\ subRun' = [subRun EXCEPT ![r].at = IF sentBack THEN "prompt" ELSE "done",
                              ![r].rounds = IF sentBack THEN @ + 1 ELSE @,
                              ![r].retries = IF sentBack THEN 0 ELSE @]
  /\ UNCHANGED <<kept, startsOwed, stoppedRuns>>

\* Its session rests, and may be resumed.
Completes(r) ==
  /\ subRun[r].at = "done"
  /\ SubRunEnds(r)
  /\ Keep(r, "completed")
  /\ MarkStarted(r)
  /\ UNCHANGED stoppedRuns

-----------------------------------------------------------------------------

SubagentInit ==
  /\ subRun = [r \in SubRuns |-> Fresh]
  /\ kept = [r \in SubRuns |-> NotKept]
  /\ startsOwed = {} /\ stoppedRuns = {}

FileDefinitions == Definitions \cup {Absent, Malformed}
RoleModes == {RoleMode(p, u) : p \in {"absent", "all"}, u \in {Unset, "execute"}}

SubagentNext ==
  \E r \in SubRuns :
    \/ Reserve(r) \/ StopsRun(r) \/ Admitted(r)
    \/ /\ subRun[r].at = "admitted"
       /\ \E q \in SubRequests, roleMode \in RoleModes :
            \E d \in {Discovered(q.type, p, u) : p, u \in FileDefinitions} : Resolves(r, q, d, roleMode)
    \/ SessionStarts(r)
    \/ \E denied \in BOOLEAN : PromptGate(r, denied)
    \/ \E result \in {"called", "uncalled", "limit", "failed", "broken"} : Samples(r, result)
    \/ Judged(r)
    \/ \E sentBack \in BOOLEAN : StopGate(r, sentBack)
    \/ Completes(r)

SubagentSpec == SubagentInit /\ [][SubagentNext]_subagentVars

-----------------------------------------------------------------------------
SubagentTypeOK ==
  /\ \A r \in SubRuns : /\ subRun[r].at \in {"none", "reserved", "admitted", "hooks", "prompt", "sampling",
                                             "judged", "stopping", "done", "over"}
                        /\ subRun[r].given.tools \subseteq AllTools
                        /\ subRun[r].retries <= MaxRetries /\ subRun[r].rounds <= MaxRounds
                        /\ kept[r].status \in {"none", "running", "completed"}
  /\ startsOwed \cup stoppedRuns \subseteq SubRuns

(***************************************************************************)
(* A subagent is given no tool that the mode it was started with, its      *)
(* role's or its definition's forbids, whichever of them is set and        *)
(* wherever its files were found, but for the files of its memory.         *)
(***************************************************************************)
ToolsWithinCeilings ==
  \A r \in SubRuns : LET given == subRun[r].given
                     IN \A mode \in given.ceilings :
                          given.tools \ Within(mode) \subseteq (IF given.memory THEN MemoryTools ELSE {})

(***************************************************************************)
(* No start is owed by a run that is over.  It does not hold: a run that   *)
(* is stopped before the admission sees it is never marked as started, and *)
(* a turn's telemetry waits for it.                                        *)
(***************************************************************************)
StartsAreOwedByRuns == \A r \in startsOwed : subRun[r].at # "over"
=============================================================================
