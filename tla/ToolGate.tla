------------------------------- MODULE ToolGate -------------------------------
(***************************************************************************)
(* What a tool call of the browser agent passes before it runs:            *)
(* grok-build-runtime.ts (execute, plan mode, its file and its approval)   *)
(* and grok-build-permissions.ts (policy, grants, one prompt at a time).   *)
(*                                                                         *)
(* Calls of a batch, and of subagents, run side by side on one manager.    *)
(* A call stands at the awaits of the code: "waits" for its prompt's turn, *)
(* "asked" while its dialog is open, "entering" and "presented" during the *)
(* dialogs of plan mode.  A command is the set of its segments; calls of   *)
(* MCP tools and fetches are remembered like a command of one segment.     *)
(***************************************************************************)
EXTENDS Naturals, Sequences, SequencesExt

CONSTANTS
  GateCalls,
  SafeParts, PlainParts, DangerousParts, \* the segments a command is made of
  Unparsed,                              \* a command the parser does not prove word-only
  Settings,                              \* policies: what the project's settings may say
  MaxGateEvents                          \* bound on stops, reloads and switches

ASSUME GateAssumption ==
  /\ MaxGateEvents \in Nat
  /\ \A p \in Settings : p.prompt \in {"ask", "deny"} /\ p.bypass \in BOOLEAN

VARIABLES
  at,           \* per call, where it stands
  request,      \* per call, what it asks for and its signal
  line,         \* promptTail: calls whose slot is not released, in order
  alwaysApprove, editsAllowed, allowed, denied, \* the manager's grants
  stored,       \* what the manager last persisted
  policy,       \* the settings: rules, policy
  planMode, awaiting, \* of the runtime
  planFile,     \* plan-mode.json: what a reload restores
  planWritten,  \* whether plan.md has content
  freshPage,    \* no session was made since the page was loaded
  resuming,     \* the dialog of a plan that an earlier page presented
  rejected,     \* history: the segments the person said never to run
  gateEvents

grants   == <<alwaysApprove, editsAllowed, allowed, denied, stored, rejected>>
plan     == <<planMode, awaiting, planFile>>
pageVars == <<policy, freshPage, resuming, gateEvents>>
gateVars == <<at, request, line, grants, plan, planWritten, pageVars>>

\* The policy of a project without settings.
DefaultSettings == {[rules |-> {}, prompt |-> "ask", bypass |-> FALSE]}

Parts    == SafeParts \cup PlainParts \cup DangerousParts
ShellCommands == (SUBSET Parts \ {{}}) \cup {{Unparsed}}
Paths    == {"file", "hook", "plan"}
Request  ==
  [kind : {"read", "edit", "bash", "enter", "exit"}, path : Paths, parts : ShellCommands \cup {{}},
   signal : {"turn", "subagent"}]
Stages   == {"new", "waits", "asked", "entering", "presented", "ran", "refused"}
Signals  == {"turn", "subagent"}
NoRequest == [kind |-> "read", path |-> "file", parts |-> {}, signal |-> "turn"]
Keys     == Parts \cup {Unparsed, "edit:*", "read:file"}

GateTypeOK ==
  /\ at \in [GateCalls -> Stages]
  /\ request \in [GateCalls -> Request]
  /\ line \in Seq(GateCalls) /\ IsInjective(line)
  /\ allowed \cup denied \subseteq Keys /\ rejected \subseteq Parts \cup {Unparsed}
  /\ stored \in [allowed : SUBSET Keys, denied : SUBSET Keys]
  /\ policy \in Settings
  /\ {alwaysApprove, editsAllowed, planMode, awaiting, planWritten, freshPage, resuming}
       \subseteq BOOLEAN
  /\ planFile \in [active : BOOLEAN, awaiting : BOOLEAN]

GateInit ==
  /\ at = [c \in GateCalls |-> "new"]
  /\ request = [c \in GateCalls |-> NoRequest]
  /\ line = <<>>
  /\ alwaysApprove = FALSE /\ editsAllowed = FALSE /\ allowed = {} /\ denied = {}
  /\ stored = [allowed |-> {}, denied |-> {}]
  /\ policy \in Settings
  /\ planMode = FALSE /\ awaiting = FALSE /\ planFile = [active |-> FALSE, awaiting |-> FALSE]
  /\ planWritten = FALSE /\ freshPage = TRUE /\ resuming = FALSE /\ rejected = {}
  /\ gateEvents = 0

-----------------------------------------------------------------------------
SetPlanState(active, waiting) ==
  /\ planMode' = active
  /\ awaiting' = (active /\ waiting)
  /\ planFile' = [active |-> active, awaiting |-> active /\ waiting]

\* What analyzeGrokBuildBash finds in a command.  A command it cannot parse is one segment,
\* which has to be asked.
NeedsPrompt(r) == r.parts \ SafeParts
Floor(r) == r.kind = "bash" /\ r.parts \cap (DangerousParts \cup {Unparsed}) # {}

ToolMatches(u, r) == u.tool \in {"any", r.kind}
RequestMatches(u, r) == u.part = "*" \/ (r.kind = "bash" /\ u.part \in r.parts)

\* evaluate: deny before ask before allow, and a command that is not understood is asked
\* when some rule restricts commands.
Verdict(r) ==
  LET hits == {u \in policy.rules : ToolMatches(u, r) /\ RequestMatches(u, r)}
      Says(action) == \E u \in hits : u.action = action
      restricted == \E u \in policy.rules : u.tool \in {"any", "bash"} /\ u.action # "allow" IN
  IF Says("deny") THEN "deny"
  ELSE IF Says("ask") \/ (r.parts = {Unparsed} /\ restricted) THEN "ask"
  ELSE IF Says("allow") THEN "allow" ELSE "none"

\* The keys a remembered answer is kept under: the segments that were asked for.
ToolKey(r) == IF r.kind = "edit" THEN "edit:*" ELSE "read:file"
KeysOf(r) == IF r.kind = "bash" THEN NeedsPrompt(r) ELSE {ToolKey(r)}
IsDenied(r) == (IF r.kind = "bash" THEN r.parts ELSE {ToolKey(r)}) \cap denied # {}
IsGranted(r) == KeysOf(r) \subseteq allowed /\ ~Floor(r)

\* What authorize decides without the person; "prompt" when it has to ask.
Decision(r) ==
  LET verdict == Verdict(r)
      forced == verdict = "ask"
      protected == r.kind = "edit" /\ r.path = "hook" IN
  IF verdict = "deny" THEN "refused"
  ELSE IF \/ ~forced /\ (alwaysApprove \/ policy.bypass \/ r.kind = "read")
          \/ ~forced /\ r.kind = "edit" /\ editsAllowed /\ ~protected THEN "ran"
  ELSE IF IsDenied(r) THEN "refused"
  ELSE IF \/ ~forced /\ r.kind = "bash" /\ NeedsPrompt(r) = {}
          \/ verdict = "allow" /\ ~protected /\ ~Floor(r)
          \/ ~forced /\ ~protected /\ IsGranted(r) THEN "ran"
  ELSE IF policy.prompt = "deny" THEN "refused" ELSE "prompt"

\* The turn of a prompt comes when every slot before its own is released.
Turns(stages, slots) ==
  IF slots # <<>> /\ stages[Head(slots)] = "waits"
  THEN [stages EXCEPT ![Head(slots)] = "asked"] ELSE stages

PlanEdit(r)  == r.kind = "edit" /\ r.path = "plan"
OtherEdit(r) == r.kind = "edit" /\ r.path # "plan"

\* A call runs.  A file edit takes effect at once; exit parks its plan and shows it.
Runs(c, r) ==
  /\ planWritten' = (planWritten \/ PlanEdit(r))
  /\ at' = [at EXCEPT ![c] = "ran"]

\* execute: plan mode refuses edits but of its file, which needs no leave; what the manager
\* does not decide at once joins the line.
Gated(c, r) ==
  /\ r.kind \notin {"enter", "exit"}
  /\ UNCHANGED <<plan, grants>>
  /\ IF planMode /\ OtherEdit(r) THEN
       at' = [at EXCEPT ![c] = "refused"] /\ UNCHANGED <<line, planWritten>>
     ELSE IF (planMode /\ PlanEdit(r)) \/ Decision(r) = "ran" THEN
       Runs(c, r) /\ UNCHANGED line
     ELSE
       /\ line' = IF Decision(r) = "prompt" THEN Append(line, c) ELSE line
       /\ at' = IF Decision(r) = "prompt" THEN Turns([at EXCEPT ![c] = "waits"], line')
                ELSE [at EXCEPT ![c] = "refused"]
       /\ UNCHANGED planWritten

\* enter_plan_mode and exit_plan_mode show their dialogs; a presented plan is parked first.
Entering(c, r) ==
  /\ r.kind = "enter"
  /\ at' = [at EXCEPT ![c] = "entering"]
  /\ UNCHANGED <<plan, line, planWritten, grants>>

Presents(c, r) ==
  /\ r.kind = "exit"
  /\ at' = [at EXCEPT ![c] = "presented"]
  /\ SetPlanState(TRUE, TRUE)
  /\ UNCHANGED <<line, planWritten, grants>>

\* The agent calls a tool, in a turn or in a subagent (which has no plan mode).
Execute(c) ==
  /\ ~freshPage /\ ~resuming
  /\ at[c] = "new"
  /\ \E r \in Request :
       /\ r.kind = "bash" <=> r.parts # {}
       /\ r.kind # "edit" => r.path = "file"
       /\ r.signal = "subagent" => r.kind = "bash"
       /\ request' = [request EXCEPT ![c] = r]
       /\ Gated(c, r) \/ Entering(c, r) \/ Presents(c, r)
  /\ UNCHANGED pageVars

-----------------------------------------------------------------------------
Persist == stored' = [allowed |-> allowed', denied |-> denied']

\* A mutant of Grant: a denial is kept for the page only.
Grant_PageOnly(outcome, r) ==
  IF outcome = "reject-always"
  THEN /\ denied' = denied \cup KeysOf(r)
       /\ rejected' = rejected \cup KeysOf(r)
       /\ UNCHANGED <<alwaysApprove, editsAllowed, allowed, stored>>
  ELSE UNCHANGED grants

\* What the person's answer grants.
Grant(outcome, r) ==
  CASE outcome = "enable-always-approve" ->
         alwaysApprove' = TRUE /\ UNCHANGED <<editsAllowed, allowed, denied, stored, rejected>>
    [] outcome = "allow-edits-session" ->
         editsAllowed' = TRUE /\ UNCHANGED <<alwaysApprove, allowed, denied, stored, rejected>>
    [] outcome = "allow-always" ->
         /\ allowed' = allowed \cup KeysOf(r)
         /\ UNCHANGED <<alwaysApprove, editsAllowed, denied, rejected>> /\ Persist
    [] outcome = "reject-always" ->
         /\ denied' = denied \cup KeysOf(r)
         /\ rejected' = rejected \cup KeysOf(r)
         /\ UNCHANGED <<alwaysApprove, editsAllowed, allowed>> /\ Persist
    [] OTHER -> UNCHANGED grants

Offered(r) ==
  {"allow-once", "enable-always-approve", "reject-once"}
    \cup (IF r.kind = "edit" THEN {"allow-edits-session"} ELSE {"allow-always"})
    \cup (IF r.kind = "bash" THEN {"reject-always"} ELSE {})

\* The person answers: the slot is released, the next prompt shown, and the call runs, also
\* when plan mode was entered or another answer denied it since it began.
AnswerPrompt(c) ==
  /\ at[c] = "asked"
  /\ line' = Tail(line)
  /\ \E outcome \in Offered(request[c]) :
       LET runs == outcome \notin {"reject-once", "reject-always"} IN
       /\ at' = Turns([at EXCEPT ![c] = IF runs THEN "ran" ELSE "refused"], line')
       /\ planWritten' = (planWritten \/ (runs /\ PlanEdit(request[c])))
       /\ Grant(outcome, request[c])
  /\ UNCHANGED <<request, plan, pageVars>>

AnswerEntry(c) ==
  /\ at[c] = "entering"
  /\ \/ /\ at' = [at EXCEPT ![c] = "ran"]
        /\ SetPlanState(TRUE, FALSE)
     \/ at' = [at EXCEPT ![c] = "refused"] /\ UNCHANGED plan
  /\ UNCHANGED <<request, line, grants, planWritten, pageVars>>

\* What the person says of a plan: go on planning, or it is approved or abandoned.
Decide == \E more \in BOOLEAN : SetPlanState(more, FALSE)

AnswerExit(c) ==
  /\ at[c] = "presented"
  /\ at' = [at EXCEPT ![c] = "ran"]
  /\ Decide
  /\ UNCHANGED <<request, line, grants, planWritten, pageVars>>

\* The dialog is lost, not aborted: the call fails and the plan stays parked.
ExitIsLost(c) ==
  /\ at[c] = "presented"
  /\ at' = [at EXCEPT ![c] = "refused"]
  /\ UNCHANGED <<request, line, grants, plan, planWritten, pageVars>>

-----------------------------------------------------------------------------
Open == {"waits", "asked", "entering", "presented"}

\* A signal is aborted (Stop, or the end of a subagent): each of its calls fails where it
\* stands.  A dialog releases its slot; a call that waits for its turn throws before the
\* `try` that would.
Abort(signal) ==
  LET gone == {c \in GateCalls : at[c] \in Open /\ request[c].signal = signal}
      rest == [c \in GateCalls |-> IF c \in gone THEN "refused" ELSE at[c]] IN
  /\ gone # {} \/ (resuming /\ signal = "turn")
  /\ gateEvents < MaxGateEvents
  /\ gateEvents' = gateEvents + 1
  /\ line' = IF \E c \in gone : at[c] = "asked" THEN Tail(line) ELSE line
  /\ at' = Turns(rest, line')
  /\ IF resuming /\ signal = "turn"
     THEN resuming' = FALSE /\ SetPlanState(TRUE, TRUE)
     ELSE /\ UNCHANGED resuming
          /\ IF \E c \in gone : at[c] = "presented" THEN SetPlanState(TRUE, FALSE)
             ELSE UNCHANGED plan
  /\ UNCHANGED <<request, grants, planWritten, policy, freshPage>>

\* A page is loaded: the files are there (ProjectStore), what was in memory is not.
ReloadPage ==
  /\ gateEvents < MaxGateEvents
  /\ gateEvents' = gateEvents + 1
  /\ at' = [c \in GateCalls |-> IF at[c] \in Open THEN "refused" ELSE at[c]]
  /\ line' = <<>>
  /\ alwaysApprove' = FALSE /\ editsAllowed' = FALSE
  /\ allowed' = stored.allowed /\ denied' = stored.denied
  /\ planMode' = planFile.active
  /\ awaiting' = (planFile.active /\ planFile.awaiting)
  /\ freshPage' = TRUE /\ resuming' = FALSE
  /\ UNCHANGED <<request, stored, planFile, planWritten, rejected, policy>>

\* The page's first run makes a session and shows again a plan that was parked, unless
\* nothing is written in it.
FirstRun ==
  /\ freshPage
  /\ freshPage' = FALSE
  /\ resuming' = (planMode /\ awaiting /\ planWritten)
  /\ IF planMode /\ awaiting /\ ~planWritten
     THEN SetPlanState(TRUE, FALSE) ELSE UNCHANGED plan
  /\ UNCHANGED <<at, request, line, grants, planWritten, policy, gateEvents>>

ResumeAnswered ==
  /\ resuming
  /\ resuming' = FALSE
  /\ Decide
  /\ UNCHANGED <<at, request, line, grants, planWritten, policy, freshPage, gateEvents>>

\* The slash command that switches approving everything on and off.
ToggleApprove ==
  /\ ~freshPage /\ gateEvents < MaxGateEvents
  /\ gateEvents' = gateEvents + 1
  /\ alwaysApprove' = ~alwaysApprove
  /\ UNCHANGED <<at, request, line, editsAllowed, allowed, denied, stored, rejected, plan, planWritten,
                 policy, freshPage, resuming>>

GateNext ==
  \/ \E c \in GateCalls :
       Execute(c) \/ AnswerPrompt(c) \/ AnswerEntry(c) \/ AnswerExit(c) \/ ExitIsLost(c)
  \/ \E s \in Signals : Abort(s)
  \/ ReloadPage \/ FirstRun \/ ResumeAnswered \/ ToggleApprove

GateSpec == GateInit /\ [][GateNext]_gateVars

-----------------------------------------------------------------------------
\* What the person said never to run is not run unasked, after whatever else was granted, in
\* whatever other command, and on every later page, until they approve everything
\* (reject-always, isDenied, persist).
RejectedIsAskedFirst ==
  [][\A c \in GateCalls :
       at[c] = "new" /\ at'[c] = "ran" /\ request'[c].parts \cap rejected # {} =>
         alwaysApprove \/ policy.bypass]_gateVars

\* Prompts are asked one after another: a call that waits for its turn waits for a dialog
\* that is open.
\* It does not hold: see the violated run of this module.
WaitsForADialog ==
  (\E c \in GateCalls : at[c] = "waits") => \E c \in GateCalls : at[c] = "asked"

\* No file but the plan's is edited in plan mode.
\* It does not hold (grok-build-runtime.ts:307).
PlanModeEditsNothing ==
  [][\A c \in GateCalls :
       planMode /\ at[c] # "ran" /\ at'[c] = "ran" => ~OtherEdit(request'[c])]_gateVars
=============================================================================
