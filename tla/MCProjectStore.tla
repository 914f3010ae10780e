--------------------------- MODULE MCProjectStore ---------------------------
(***************************************************************************)
(* Small instances, for TLC, of what the page shares through the browser:  *)
(* with its other tabs the project (ProjectStore) and the tokens of MCP    *)
(* servers (McpAuth), with a frame of another origin the preview of the    *)
(* project (Sandbox).  The three share no state; one run explores each.    *)
(***************************************************************************)
EXTENDS ProjectStore, McpAuth, Sandbox, TLC

CONSTANTS tabA, tabB, starter, edited, edited2, q1, q2

VARIABLE part \* the component that moves

Stores     == part = "project" /\ StoreNext /\ UNCHANGED <<part, mcpAuthVars, sandboxVars>>
Authorizes == part = "tokens" /\ McpAuthNext /\ UNCHANGED <<part, storeVars, sandboxVars>>
Previews   == part = "preview" /\ SandboxNext /\ UNCHANGED <<part, storeVars, mcpAuthVars>>

KeptInit ==
  /\ part \in {"project", "tokens", "preview"}
  /\ StoreInit /\ McpAuthInit /\ SandboxInit
  /\ part # "tokens" => kept = NoToken

KeptNext == Stores \/ Authorizes \/ Previews

KeptSpec == KeptInit /\ [][KeptNext]_<<part, storeVars, mcpAuthVars, sandboxVars>>

KeptTypeOK ==
  CASE part = "project" -> StoreTypeOK
    [] part = "tokens" -> McpAuthTypeOK
    [] part = "preview" -> SandboxTypeOK

\* Tabs spend a token once and ask the person once, and the preview's frame and
\* the page do not lose each other's messages.
TabsAndFramesAgree ==
  /\ part = "tokens" => TokensComeInTurn
  /\ part = "preview" => SandboxIsSound

\* Tabs differ in nothing but their names, and so do the projects other than
\* the starter, and the calls of a server.
Symmetric == Permutations(Tabs) \cup Permutations(Contents \ {Starter}) \cup Permutations(McpRequests)
=============================================================================
