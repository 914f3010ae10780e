--------------------------- MODULE DebuggerRelay ---------------------------
(* A tab whose page forbids eval, driven over Chrome's debugger: the relay of the service
   worker (background.ts), its port to the offscreen document (offscreen.ts) and Chrome.
   Each port is numbered; a port's messages, the operations and their answers travel in
   order in one channel each way.  Chrome takes attach and detach in order, and its
   onDetach event is on its way to the worker meanwhile.

   A command is any one that attaches first.  Sessions, aliases and the messages
   themselves are not modelled, and an operation is routed and answered in any order. *)
EXTENDS Naturals, Sequences

CONSTANTS
  MaxOperations, \* bound on the operations
  MaxCuts        \* bound on what cuts the connection: the person, the host, lost access

ASSUME DebuggerAssumption == MaxOperations \in Nat /\ MaxCuts \in Nat

VARIABLES
  relayPort,     \* debuggerRelays: the relay's port, 0 when there is none
  attach,        \* relay.attach
  idleTimer,     \* debuggerIdleTimers
  inFlight,      \* operationsInFlight
  routed,        \* of those, the ones not sent yet
  offTarget,     \* the offscreen document's debuggerTabs
  offPort,       \* the last port it opened, and whether it still listens to it
  hostOps,       \* operations the Playwright host has
  toWorkerQ, toOffscreenQ, toChrome, fromChrome,
  attached,      \* Chrome's debugger is attached
  opCount, cuts

relayVars == <<relayPort, attach, idleTimer, inFlight, routed, offTarget, offPort, hostOps,
               toWorkerQ, toOffscreenQ, toChrome, fromChrome, attached, opCount, cuts>>
workerOps == <<inFlight, routed, opCount>>
offscreenSide == <<offTarget, offPort, hostOps>>

Ports == 1 .. MaxOperations
RelayMessages == ({"attach", "data", "gone"} \X Ports) \cup {<<"done", 0>>}

RelayTypeOK ==
  /\ relayPort \in 0 .. MaxOperations /\ attach \in {"none", "asked", "done", "failed"}
  /\ {idleTimer, attached} \subseteq BOOLEAN
  /\ inFlight \in 0 .. MaxOperations /\ routed \in 0 .. inFlight
  /\ offTarget \in 0 .. MaxOperations
  /\ offPort \in [last: 0 .. MaxOperations, open: BOOLEAN]
  /\ hostOps \in 0 .. MaxOperations
  /\ toWorkerQ \in Seq(RelayMessages)
  /\ toOffscreenQ \in Seq(({"close", "gone"} \X Ports) \cup {<<"op", 0>>})
  /\ toChrome \in Seq({"attach", "detach"}) /\ fromChrome \in Seq({"detached"})
  /\ opCount \in 0 .. MaxOperations /\ cuts \in 0 .. MaxCuts

RelayInit ==
  /\ relayPort = 0 /\ attach = "none" /\ idleTimer = FALSE
  /\ inFlight = 0 /\ routed = 0 /\ opCount = 0 /\ cuts = 0
  /\ offTarget = 0 /\ offPort = [last |-> 0, open |-> FALSE] /\ hostOps = 0
  /\ toWorkerQ = <<>> /\ toOffscreenQ = <<>> /\ toChrome = <<>> /\ fromChrome = <<>>
  /\ attached = FALSE

-----------------------------------------------------------------------------
\* closeRelay, when there is one: the port's other end is told, and Chrome detached.
CloseQuietly(detach, tell) ==
  /\ relayPort' = 0 /\ attach' = "none" /\ idleTimer' = FALSE
  /\ toChrome' = IF detach /\ attach # "none" THEN Append(toChrome, "detach") ELSE toChrome
  /\ UNCHANGED toOffscreenQ
CloseRelay(detach, tell) ==
  /\ relayPort' = 0 /\ attach' = "none" /\ idleTimer' = FALSE
  /\ toChrome' = IF detach /\ attach # "none" THEN Append(toChrome, "detach") ELSE toChrome
  /\ toOffscreenQ' = IF tell THEN toOffscreenQ \o <<<<"close", relayPort>>, <<"gone", relayPort>>>>
                     ELSE toOffscreenQ

\* debuggerBusy: an operation begins.
OperationBegins ==
  /\ opCount < MaxOperations
  /\ opCount' = opCount + 1 /\ inFlight' = inFlight + 1 /\ routed' = routed + 1
  /\ idleTimer' = FALSE
  /\ UNCHANGED <<relayPort, attach, offscreenSide, toWorkerQ, toOffscreenQ, toChrome, fromChrome,
                 attached, cuts>>

\* debuggerIdle: with the last operation the relay's timer is started.
EndsTimedWhenAttached ==
  /\ inFlight' = inFlight - 1
  /\ idleTimer' = (inFlight = 1 /\ relayPort # 0 /\ attach # "none")
OperationEnds ==
  /\ inFlight' = inFlight - 1
  /\ idleTimer' = (inFlight = 1 /\ relayPort # 0)

\* runOnTab: the operation is sent, or was cancelled by then.
OperationIsSent ==
  /\ routed > 0
  /\ routed' = routed - 1
  /\ \/ toOffscreenQ' = Append(toOffscreenQ, <<"op", 0>>) /\ UNCHANGED <<inFlight, idleTimer>>
     \/ OperationEnds /\ UNCHANGED toOffscreenQ
  /\ UNCHANGED <<relayPort, attach, offscreenSide, toWorkerQ, toChrome, fromChrome, attached,
                 opCount, cuts>>

IdleTimeout ==
  /\ idleTimer
  /\ CloseRelay(TRUE, TRUE)
  /\ UNCHANGED <<workerOps, offscreenSide, toWorkerQ, fromChrome, attached, cuts>>

\* syncSiteAccess closes every relay, and onRemoved the closed tab's.
AccessEnds ==
  /\ relayPort # 0 /\ cuts < MaxCuts
  /\ cuts' = cuts + 1
  /\ CloseRelay(TRUE, TRUE)
  /\ UNCHANGED <<workerOps, offscreenSide, toWorkerQ, fromChrome, attached>>

\* acceptDebuggerPort: a port's attach registers its relay, if there is none.
PortAttaches(n) ==
  /\ relayPort' = IF relayPort = 0 THEN n ELSE relayPort
  /\ toOffscreenQ' = IF relayPort = 0 THEN toOffscreenQ ELSE Append(toOffscreenQ, <<"gone", n>>)
  /\ UNCHANGED <<attach, idleTimer, toChrome>>

\* attachRelay: the first command attaches, and its outcome is kept.
PortCommands(n) ==
  /\ IF relayPort = n /\ attach = "none"
     THEN attach' = "asked" /\ toChrome' = Append(toChrome, "attach")
     ELSE UNCHANGED <<attach, toChrome>>
  /\ UNCHANGED <<relayPort, idleTimer, toOffscreenQ>>

PortCloses(n) ==
  \/ relayPort = n /\ CloseRelay(TRUE, FALSE)
  \/ relayPort # n /\ UNCHANGED <<relayPort, attach, idleTimer, toChrome, toOffscreenQ>>

WorkerReceives ==
  /\ toWorkerQ # <<>>
  /\ toWorkerQ' = Tail(toWorkerQ)
  /\ LET m == Head(toWorkerQ) IN
       \/ m[1] = "attach" /\ PortAttaches(m[2]) /\ UNCHANGED inFlight
       \/ m[1] = "data" /\ PortCommands(m[2]) /\ UNCHANGED inFlight
       \/ m[1] = "gone" /\ PortCloses(m[2]) /\ UNCHANGED inFlight
       \/ m[1] = "done" /\ OperationEnds /\ UNCHANGED <<relayPort, attach, toChrome, toOffscreenQ>>
  /\ UNCHANGED <<routed, opCount, offscreenSide, fromChrome, attached, cuts>>

-----------------------------------------------------------------------------
\* debuggerTarget: an operation's target, connected when there is none.
OperationArrives ==
  /\ hostOps' = hostOps + 1
  /\ \/ offTarget # 0 /\ UNCHANGED <<offTarget, offPort, toWorkerQ>>
     \/ /\ offTarget = 0
        /\ LET n == offPort.last + 1 IN
             /\ offTarget' = n
             /\ offPort' = [last |-> n, open |-> TRUE]
             /\ toWorkerQ' = Append(toWorkerQ, <<"attach", n>>)

\* The port's close or its disconnect: the tab's target goes, if it is still the port's.
PortIsOver(n) ==
  /\ offTarget' = IF offPort = [last |-> n, open |-> TRUE] THEN 0 ELSE offTarget
  /\ UNCHANGED <<offPort, toWorkerQ, hostOps>>

OffscreenReceives ==
  /\ toOffscreenQ # <<>>
  /\ toOffscreenQ' = Tail(toOffscreenQ)
  /\ LET m == Head(toOffscreenQ) IN
       \/ m[1] = "op" /\ OperationArrives
       \/ m[1] \in {"close", "gone"} /\ PortIsOver(m[2])
  /\ UNCHANGED <<relayPort, attach, idleTimer, workerOps, toChrome, fromChrome, attached, cuts>>

\* Playwright commands the tab, or its connection is cut; and it answers an operation.
HostCommands ==
  /\ hostOps > 0 /\ offTarget # 0
  /\ \A i \in DOMAIN toWorkerQ : toWorkerQ[i] # <<"data", offTarget>>
  /\ toWorkerQ' = Append(toWorkerQ, <<"data", offTarget>>)
  /\ UNCHANGED <<offscreenSide, cuts>>

HostCuts ==
  /\ offTarget # 0 /\ cuts < MaxCuts
  /\ cuts' = cuts + 1
  /\ offTarget' = 0 /\ offPort' = [offPort EXCEPT !.open = FALSE]
  /\ toWorkerQ' = Append(toWorkerQ, <<"gone", offTarget>>)
  /\ UNCHANGED hostOps

HostIsDone ==
  /\ hostOps > 0
  /\ hostOps' = hostOps - 1
  /\ toWorkerQ' = Append(toWorkerQ, <<"done", 0>>)
  /\ UNCHANGED <<offTarget, offPort, cuts>>

HostStep ==
  /\ HostCommands \/ HostCuts \/ HostIsDone
  /\ UNCHANGED <<relayPort, attach, idleTimer, workerOps, toOffscreenQ, toChrome, fromChrome, attached>>

-----------------------------------------------------------------------------
\* Chrome attaches, or does not (the tab closes, another debugger); it detaches.
ChromeTakes ==
  /\ toChrome # <<>>
  /\ toChrome' = Tail(toChrome)
  /\ \/ /\ Head(toChrome) = "attach"
        /\ \E ok \in {TRUE, attached} :
             /\ attached' = ok
             /\ attach' = IF attach = "asked" THEN IF ok THEN "done" ELSE "failed" ELSE attach
     \/ /\ Head(toChrome) = "detach"
        /\ attached' = FALSE
        /\ UNCHANGED attach
  /\ UNCHANGED <<relayPort, idleTimer, workerOps, offscreenSide, toWorkerQ, toOffscreenQ, fromChrome,
                 cuts>>

\* The person cancels Chrome's bar: the event is on its way.
PersonCancels ==
  /\ attached /\ cuts < MaxCuts
  /\ cuts' = cuts + 1
  /\ attached' = FALSE
  /\ fromChrome' = Append(fromChrome, "detached")
  /\ UNCHANGED <<relayPort, attach, idleTimer, workerOps, offscreenSide, toWorkerQ, toOffscreenQ,
                 toChrome>>

\* onDetach: whichever relay the tab has by then is closed, and nothing detached.
DetachIsHeard ==
  /\ fromChrome # <<>>
  /\ fromChrome' = Tail(fromChrome)
  /\ \/ relayPort # 0 /\ CloseRelay(FALSE, TRUE)
     \/ relayPort = 0 /\ UNCHANGED <<relayPort, attach, idleTimer, toChrome, toOffscreenQ>>
  /\ UNCHANGED <<workerOps, offscreenSide, toWorkerQ, attached, cuts>>

RelayNext ==
  \/ OperationBegins \/ OperationIsSent \/ IdleTimeout \/ AccessEnds \/ WorkerReceives
  \/ OffscreenReceives \/ HostStep
  \/ ChromeTakes \/ PersonCancels \/ DetachIsHeard

RelaySpec == RelayInit /\ [][RelayNext]_relayVars

-----------------------------------------------------------------------------
\* A relay that no operation uses is on its way out: its timer runs, so the debugger goes
\* "DEBUGGER_IDLE_MS after its last operation" whatever was cut and connected again
\* meanwhile (debuggerBusy, debuggerIdle, closeRelay, acceptDebuggerPort).
UnusedRelayIsTimed == relayPort # 0 /\ inFlight = 0 => idleTimer

\* Chrome's bar shows only while there is a relay to detach it, or a detach is on its way.
\* It does not hold (background.ts:951, :1004).
BarHasARelay ==
  attached => relayPort # 0 \/ \E i \in DOMAIN toChrome : toChrome[i] = "detach"

\* With nothing on its way, the tab's target and its relay are the same connection: no
\* operation is sent to a relay that is gone, none is refused for one that is left.
TargetIsTheRelay ==
  toWorkerQ = <<>> /\ toOffscreenQ = <<>> => offTarget = relayPort
=============================================================================
