------------------------------- MODULE MCServed -------------------------------
(***************************************************************************)
(* Small instances, for TLC, of the components that promise that something *)
(* happens: the reservations of the worker's rate gate, the agent's        *)
(* scheduled tasks, its calls of MCP servers and the turns that tell what  *)
(* ended in the background.  As in MCServices one run explores them side   *)
(* by side; the fairness is that of the component that moves.              *)
(***************************************************************************)
EXTENDS ChatRelay, Scheduler, McpClient, AgentTurns, TLC

CONSTANTS ann, bob, k1, k2, k3, c1, c2, w1, w2, noActor

\* Ann runs the agent twice.
ChatsOf == [k \in Chats |-> IF k = k3 THEN bob ELSE ann]

SmallGlobal == [k \in Kinds |-> IF k = "chat" THEN 2 ELSE 1]
SmallUser   == [k \in Kinds |-> IF k = "chat" THEN 2 ELSE 1]

VARIABLE part \* the component that moves

servedVars == <<part, chatVars, schedulerVars, mcpVars, agentVars>>

Relay    == part = "relay" /\ ChatNext /\ UNCHANGED <<part, schedulerVars, mcpVars, agentVars>>
Schedule == part = "scheduler" /\ SchedulerNext /\ UNCHANGED <<part, chatVars, mcpVars, agentVars>>
Mcp      == part = "mcp" /\ McpNext /\ UNCHANGED <<part, chatVars, schedulerVars, agentVars>>
Turns    == part = "turns" /\ TurnsNext /\ UNCHANGED <<part, chatVars, schedulerVars, mcpVars>>

ServedInit ==
  /\ part \in {"relay", "scheduler", "mcp", "turns"}
  /\ ChatInit /\ SchedulerInit /\ McpInit /\ TurnsInit

ServedNext == Relay \/ Schedule \/ Mcp \/ Turns

RelayFair ==
  /\ WF_chatVars(part = "relay" /\ Tick)
  /\ \A c \in Chats : WF_chatVars(part = "relay" /\ SendChat(c))
  /\ \A c \in Chats : WF_chatVars(part = "relay" /\ Finish(c))

ScheduleFair ==
  /\ WF_schedulerVars(part = "scheduler" /\ TimerFires)
  /\ WF_schedulerVars(part = "scheduler" /\ LoopTurn)
  /\ WF_schedulerVars(part = "scheduler" /\ LoopResumes)

McpFair ==
  /\ \A c \in McpCalls : WF_mcpVars(part = "mcp" /\ Joined(c))
  /\ \A m \in Agents : WF_mcpVars(part = "mcp" /\ Throws(m))
  /\ WF_mcpVars(part = "mcp" /\ \E r \in owedAnswers : Answers(r))

TurnsFair ==
  /\ \A m \in Actors : WF_agentVars(part = "turns" /\ TurnStep(m))
  /\ WF_agentVars(part = "turns" /\ DrainTakes)
  /\ WF_agentVars(part = "turns" /\ WakeReady)
  /\ WF_agentVars(part = "turns" /\ ForegroundWaits)
  /\ WF_agentVars(part = "turns" /\ ForegroundReady)

ServedSpec ==
  /\ ServedInit /\ [][ServedNext]_servedVars
  /\ RelayFair /\ ScheduleFair /\ McpFair /\ TurnsFair

ServedTypeOK ==
  CASE part = "relay" -> ChatTypeOK
    [] part = "scheduler" -> SchedulerTypeOK
    [] part = "mcp" -> McpTypeOK
    [] part = "turns" -> TurnsTypeOK
=============================================================================
