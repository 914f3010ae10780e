------------------------------- MODULE MCAgents -------------------------------
(***************************************************************************)
(* Small instances, for TLC, of the components the browser agent is made   *)
(* of: its scheduler, the registry of its tasks, its workflows, the loop   *)
(* of one session, the gate its tool calls pass, its subagents' runs and   *)
(* its telemetry; of what a page begins with (its sign-in and settings,    *)
(* the published bundle, skills); of the development relay; and of the two *)
(* ends of the messenger, its bridge and the phone's link.  As in          *)
(* MCServices one run explores them side by side.                          *)
(***************************************************************************)
EXTENDS Scheduler, TaskRegistry, Workflows, AgentLoop, ToolGate, SubagentRuns, PhoneLink,
        Messenger, Telemetry, DevRelay, BundleSync, Startup, Skills, TLC

CONSTANTS c1, c2

ProjectSettings ==
  DefaultSettings \cup
  {[rules |-> {}, prompt |-> "ask", bypass |-> TRUE],
   [rules |-> {[action |-> "allow", tool |-> "any", part |-> "*"]},
    prompt |-> "ask", bypass |-> FALSE],
   [rules |-> {[action |-> "deny", tool |-> "bash", part |-> "rm"],
               [action |-> "ask", tool |-> "bash", part |-> "make"],
               [action |-> "allow", tool |-> "edit", part |-> "*"]},
    prompt |-> "deny", bypass |-> FALSE]}

PageSkills ==
  <<[in |-> "local", dir |-> "deploy"], [in |-> "bundled", dir |-> "plan"],
    [in |-> "near", dir |-> "review"]>>

SkillText(name, gated, shown) == [name |-> name, gated |-> gated, shown |-> shown]

PageTexts ==
  [f \in Range(PageSkills) |->
     CASE f.in = "local" ->
            {SkillText("deploy", FALSE, TRUE), SkillText("deploy", TRUE, TRUE)}
       [] f.in = "bundled" -> {SkillText("plan", FALSE, TRUE), SkillText("deploy", FALSE, TRUE)}
       [] f.in = "near" -> {SkillText("deploy", FALSE, TRUE), SkillText("review", TRUE, TRUE),
                            SkillText("review", FALSE, FALSE)}]

VARIABLE part \* the component that moves

Still(p, its) == part # p => UNCHANGED its

\* Only the variables of one component change.
OthersRest ==
  /\ UNCHANGED part
  /\ Still("scheduler", schedulerVars) /\ Still("registry", registryVars)
  /\ Still("workflow", wfVars) /\ Still("loop", loopVars)
  /\ Still("gate", gateVars) /\ Still("subagents", subagentVars) /\ Still("phone", phoneVars)
  /\ Still("messenger", messengerVars) /\ Still("telemetry", telemetryVars)
  /\ Still("relay", devVars) /\ Still("bundle", bundleVars) /\ Still("startup", startupVars)
  /\ Still("skills", skillVars)

Schedules == part = "scheduler" /\ SchedulerNext /\ OthersRest
Registers == part = "registry" /\ RegistryNext /\ OthersRest
Drives    == part = "workflow" /\ WorkflowNext /\ OthersRest
Loops     == part = "loop" /\ LoopNext /\ OthersRest
Gates     == part = "gate" /\ GateNext /\ OthersRest
Delegates == part = "subagents" /\ SubagentNext /\ OthersRest
Phones    == part = "phone" /\ PhoneNext /\ OthersRest
Bridges   == part = "messenger" /\ MessengerNext /\ OthersRest
Reports   == part = "telemetry" /\ TelemetryNext /\ OthersRest
Relays    == part = "relay" /\ DevRelayNext /\ OthersRest
Syncs     == part = "bundle" /\ BundleNext /\ OthersRest
Starts    == part = "startup" /\ StartupNext /\ OthersRest
Learns    == part = "skills" /\ SkillNext /\ OthersRest

AgentsInit ==
  /\ part \in {"scheduler", "registry", "workflow", "loop", "gate", "subagents", "phone",
              "messenger", "telemetry", "relay", "bundle", "startup", "skills"}
  /\ SchedulerInit /\ RegistryInit /\ WorkflowInit /\ LoopInit /\ GateInit /\ SubagentInit
  /\ PhoneInit /\ MessengerInit /\ TelemetryInit /\ DevRelayInit /\ BundleInit /\ StartupInit
  /\ SkillInit

AgentsNext ==
  Schedules \/ Registers \/ Drives \/ Loops \/ Gates \/ Delegates \/ Phones \/ Bridges
  \/ Reports \/ Relays \/ Syncs \/ Starts \/ Learns

AgentsSpec ==
  AgentsInit /\ [][AgentsNext]_<<part, schedulerVars, registryVars, wfVars, loopVars, gateVars,
                                subagentVars, phoneVars, messengerVars, telemetryVars, devVars,
                                bundleVars, startupVars, skillVars>>

AgentsTypeOK ==
  CASE part = "scheduler" -> SchedulerTypeOK
    [] part = "registry" -> RegistryTypeOK
    [] part = "workflow" -> WorkflowTypeOK
    [] part = "loop" -> LoopTypeOK
    [] part = "gate" -> GateTypeOK
    [] part = "subagents" -> SubagentTypeOK
    [] part = "phone" -> PhoneTypeOK
    [] part = "messenger" -> MessengerTypeOK
    [] part = "telemetry" -> TelemetryTypeOK
    [] part = "relay" -> DevRelayTypeOK
    [] part = "bundle" -> BundleTypeOK
    [] part = "startup" -> StartupTypeOK
    [] part = "skills" -> SkillTypeOK

\* A phone and the panel of the page follow what the daemon shows, and a tap's promise ends.
MessengerFollows ==
  /\ part = "phone" => PhoneFollows
  /\ part = "messenger" => BridgeSettles

\* What a page begins with: the published bundle, its sign-in, its settings and its skills.
PageBeginsWell ==
  /\ part = "bundle" => BundleKeepsOwnership
  /\ part = "startup" => StartupSettles
  /\ part = "skills" => SkillsStayTrue

Moving ==
  CASE part = "scheduler" -> <<part, schedulerVars>>
    [] part = "registry" -> <<part, registryVars>>
    [] part = "workflow" -> <<part, wfVars>>
    [] part = "loop" -> <<part, loopVars>>
    [] part = "gate" -> <<part, gateVars>>
    [] part = "subagents" -> <<part, subagentVars>>
    [] part = "phone" -> <<part, phoneVars>>
    [] part = "messenger" -> <<part, messengerVars>>
    [] part = "telemetry" -> <<part, telemetryVars>>
    [] part = "relay" -> <<part, devVars>>
    [] part = "bundle" -> <<part, bundleVars>>
    [] part = "startup" -> <<part, startupVars>>
    [] part = "skills" -> <<part, skillVars>>
=============================================================================
