------------------------------ MODULE Companion ------------------------------
(***************************************************************************)
(* The native companion's side of an agent's browser call: the broker      *)
(* socket a caller (`vibewaiting mcp`) opens per call (browser-broker.ts)  *)
(* and the table of calls the companion waits for (native-host.ts).        *)
(***************************************************************************)
EXTENDS CallChannels

VARIABLE
  op   \* where each call stands for its caller (pendingBrowserOperations)

\* waiting: in pendingBrowserOperations, on the 35 s timer; asked: the same,
\* on the 110 s timer that follows a pending line.
Waiting == {"waiting", "asked"}

\* How a wait ended without an answer from the extension.
Unanswered == {"abandoned", "lost"}

CompanionTypeOK == op \in [Calls -> {"idle"} \cup Waiting \cup Unanswered \cup Outcomes]

CompanionInit == op = [c \in Calls |-> "idle"]

\* A caller's line reached the broker: the call is entered in the table and
\* written to the extension.
Dispatch(c) ==
  /\ connected
  /\ op[c] = "idle"
  /\ op' = [op EXCEPT ![c] = "waiting"]
  /\ toExtension' = Append(toExtension, Request(c))
  /\ UNCHANGED <<connected, toCompanion>>

\* The companion stops waiting and voids the call at the extension.
GiveUp(c) ==
  /\ connected
  /\ op[c] \in Waiting
  /\ op' = [op EXCEPT ![c] = "abandoned"]
  /\ toExtension' = Append(toExtension, Cancelled(c))
  /\ UNCHANGED <<connected, toCompanion>>

\* The caller's socket closed before the answer: the agent cancelled the call,
\* its process ended, or the socket's own timeout destroyed it.
AgentStops(c) == "agent stops" \in Events /\ GiveUp(c)

\* browserTimeout: 35 s after dispatch, or 110 s after the last pending line.
CompanionTimeout(c) == "companion timeout" \in Events /\ GiveUp(c)

\* browser-operation-pending restarts the wait and tells the caller.
ReceivePending(c) ==
  /\ toCompanion # <<>>
  /\ Head(toCompanion) = Pending(c)
  /\ toCompanion' = Tail(toCompanion)
  /\ op' = IF op[c] \in Waiting THEN [op EXCEPT ![c] = "asked"] ELSE op
  /\ UNCHANGED <<connected, toExtension>>

\* browser-operation-response answers the caller, once.
ReceiveResponse(c, outcome) ==
  /\ toCompanion # <<>>
  /\ Head(toCompanion) = Response(c, outcome)
  /\ toCompanion' = Tail(toCompanion)
  /\ op' = IF op[c] \in Waiting THEN [op EXCEPT ![c] = outcome] ELSE op
  /\ UNCHANGED <<connected, toExtension>>

\* The port between the two processes is gone: the companion process ended, or
\* the extension disconnected it to apply settings.  stopBrowserBroker resolves
\* every waiting caller with an error; it cannot write to the extension, and
\* the extension's onDisconnect only forgets the port.
PortLost ==
  /\ "port lost" \in Events
  /\ connected
  /\ connected' = FALSE
  /\ toExtension' = <<>>
  /\ toCompanion' = <<>>
  /\ op' = [c \in Calls |-> IF op[c] \in Waiting THEN "lost" ELSE op[c]]

\* ensureNative connects to a new companion process, which knows no call.
Reconnect ==
  /\ ~connected
  /\ connected' = TRUE
  /\ UNCHANGED <<toExtension, toCompanion, op>>

ReceiveFromExtension ==
  \E c \in Calls : ReceivePending(c) \/ \E outcome \in Outcomes : ReceiveResponse(c, outcome)
=============================================================================
