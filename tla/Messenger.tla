------------------------------ MODULE Messenger ------------------------------
(***************************************************************************)
(* The messenger's bridge: every intent of the panel is given a number,    *)
(* the last one is watched until the daemon acknowledges it, a promise     *)
(* stands until the daemon reports it done, and an image until it comes    *)
(* or takes too long (widget/messenger.tsx).  The daemon handles intents   *)
(* side by side (native-host.ts, daemon.ts).                               *)
(***************************************************************************)
EXTENDS Naturals, Sequences, FiniteSets

CONSTANTS MaxIntents,  \* bound: intents of one panel
          MaxHostLoss  \* bound: times the daemon is restarted

ASSUME MessengerAssumption == MaxIntents \in Nat \ {0} /\ MaxHostLoss \in Nat

VARIABLES numbered,   \* intents so far
          watched,    \* pendingBridgeIntent, and whether bridgeAckTimer runs
          promises,   \* bridgeCompletions
          imagesDue,  \* imageResolutions
          bridgeLost, \* bridgeDisconnected
          rejoining,  \* bridgeReconnecting
          panelOpen,  \* the page has not been left
          toDaemon,   \* intents on their way
          inHand,     \* intents the daemon is handling
          toPanel,    \* patches on their way
          hostLosses  \* times the daemon went with all it had

panelOwn == <<numbered, watched, promises, imagesDue, bridgeLost, rejoining, panelOpen>>
bridgeWay == <<toDaemon, inHand, toPanel, hostLosses>>
messengerVars == <<panelOwn, bridgeWay>>

-----------------------------------------------------------------------------
(***************************************************************************)
(* Intents.  `draft` stands for ack too, `say` for all that the daemon     *)
(* acts upon for the conversation, terminals or sessions.                  *)
(***************************************************************************)

Kinds == {"mounted", "shown", "hidden", "draft", "say", "image"}
IsWatched(kind) == kind # "draft"
IsPromised(kind) == kind \in {"say", "image"}
IsAcknowledged(kind) == kind # "draft"
BringsState(kind) == kind \in {"mounted", "shown", "say"}

Unwatched == [id |-> 0, snapshot |-> FALSE, timed |-> FALSE]

Ack(id)   == [is |-> "ack", id |-> id]
Done(id)  == [is |-> "done", id |-> id]
Image(id) == [is |-> "image", id |-> id]
State     == [is |-> "state", id |-> 0]

-----------------------------------------------------------------------------
\* sendBridgeIntent and watchBridge: only the last one sent is watched.
SendBridgeIntent(kind) ==
  LET id == numbered + 1
  IN /\ panelOpen /\ numbered < MaxIntents
     /\ numbered' = id
     /\ toDaemon' = Append(toDaemon, [id |-> id, kind |-> kind])
     /\ watched' = IF IsWatched(kind)
                     THEN [id |-> id, snapshot |-> kind \in {"mounted", "shown"}, timed |-> TRUE]
                     ELSE watched
     /\ promises' = IF IsPromised(kind) THEN promises \cup {id} ELSE promises
     /\ imagesDue' = IF kind = "image" THEN imagesDue \cup {id} ELSE imagesDue
     /\ UNCHANGED <<bridgeLost, panelOpen, inHand, toPanel, hostLosses>>

PanelSends(kind) == SendBridgeIntent(kind) /\ UNCHANGED rejoining

\* reconnectBridge, from the notice that the bridge is lost.
Reconnects ==
  /\ bridgeLost /\ ~rejoining
  /\ rejoining' = TRUE
  /\ SendBridgeIntent("mounted")

\* As AckTimesOut, but a reconnection that is not answered goes on.
AckTimesOut_Rejoining ==
  /\ watched.timed
  /\ watched' = [watched EXCEPT !.timed = FALSE]
  /\ promises' = promises \ {watched.id}
  /\ bridgeLost' = TRUE
  /\ UNCHANGED <<numbered, imagesDue, rejoining, panelOpen, bridgeWay>>

AckTimesOut ==
  /\ watched.timed
  /\ watched' = [watched EXCEPT !.timed = FALSE]
  /\ promises' = promises \ {watched.id}
  /\ rejoining' = FALSE /\ bridgeLost' = TRUE
  /\ UNCHANGED <<numbered, imagesDue, panelOpen, bridgeWay>>

ImageTimesOut(id) ==
  /\ id \in imagesDue
  /\ imagesDue' = imagesDue \ {id}
  /\ UNCHANGED <<numbered, watched, promises, bridgeLost, rejoining, panelOpen, bridgeWay>>

\* As PromisesKept, but only of the intent that is watched.
PromisesKept_Watched(patch) ==
  IF patch.is = "done" /\ patch.id = watched.id THEN promises \ {patch.id} ELSE promises

PromisesKept(patch) == IF patch.is = "done" THEN promises \ {patch.id} ELSE promises

\* onPatch: any patch shows that the bridge is there.
PatchArrives ==
  /\ toPanel # <<>> /\ panelOpen
  /\ LET patch == Head(toPanel)
         acknowledged == patch.is = "ack" /\ patch.id = watched.id
         includesSnapshot == patch.is \in {"state", "image"}
     IN /\ promises' = PromisesKept(patch)
        /\ watched' = IF acknowledged \/ (watched.snapshot /\ includesSnapshot) THEN Unwatched ELSE watched
        /\ imagesDue' = IF patch.is = "image" THEN imagesDue \ {patch.id} ELSE imagesDue
  /\ rejoining' = FALSE /\ bridgeLost' = FALSE
  /\ toPanel' = Tail(toPanel)
  /\ UNCHANGED <<numbered, panelOpen, toDaemon, inHand, hostLosses>>

\* pagehide
PanelIsLeft ==
  /\ panelOpen
  /\ panelOpen' = FALSE
  /\ watched' = Unwatched /\ imagesDue' = {}
  /\ UNCHANGED <<numbered, promises, bridgeLost, rejoining, bridgeWay>>

-----------------------------------------------------------------------------
\* receive and bindIntentQueue: an intent is acknowledged as it is taken, whatever else is in hand.
DaemonTakes ==
  /\ toDaemon # <<>>
  /\ LET intent == Head(toDaemon)
     IN /\ inHand' = inHand \cup {intent}
        /\ toPanel' = IF IsAcknowledged(intent.kind) THEN Append(toPanel, Ack(intent.id)) ELSE toPanel
  /\ toDaemon' = Tail(toDaemon)
  /\ UNCHANGED <<panelOwn, hostLosses>>

\* The handler and onSettled, whether it succeeded or failed.
DaemonSettles(intent) ==
  /\ intent \in inHand
  /\ inHand' = inHand \ {intent}
  /\ toPanel' = toPanel
                  \o (IF BringsState(intent.kind) THEN <<State>> ELSE <<>>)
                  \o (IF intent.kind = "image" THEN <<Image(intent.id)>> ELSE <<>>)
                  \o (IF IsPromised(intent.kind) THEN <<Done(intent.id)>> ELSE <<>>)
  /\ UNCHANGED <<panelOwn, toDaemon, hostLosses>>

\* The native host goes with all it has; the next one pushes its state.
HostIsReplaced ==
  /\ hostLosses < MaxHostLoss
  /\ hostLosses' = hostLosses + 1
  /\ toDaemon' = <<>> /\ inHand' = {} /\ toPanel' = <<State>>
  /\ UNCHANGED panelOwn

-----------------------------------------------------------------------------

MessengerInit ==
  /\ numbered = 1 /\ watched = [id |-> 1, snapshot |-> TRUE, timed |-> TRUE]
  /\ promises = {} /\ imagesDue = {} /\ bridgeLost = FALSE /\ rejoining = FALSE /\ panelOpen = TRUE
  /\ toDaemon = <<[id |-> 1, kind |-> "mounted"]>> /\ inHand = {} /\ toPanel = <<>> /\ hostLosses = 0

MessengerNext ==
  \/ \E kind \in Kinds \ {"mounted"} : PanelSends(kind)
  \/ Reconnects \/ AckTimesOut
  \/ \E id \in imagesDue : ImageTimesOut(id)
  \/ PatchArrives \/ PanelIsLeft
  \/ DaemonTakes
  \/ \E intent \in inHand : DaemonSettles(intent)
  \/ HostIsReplaced

MessengerSpec == MessengerInit /\ [][MessengerNext]_messengerVars

-----------------------------------------------------------------------------
MessengerTypeOK ==
  /\ numbered \in 1 .. MaxIntents /\ promises \cup imagesDue \subseteq 1 .. numbered
  /\ watched.id \in 0 .. numbered
  /\ {bridgeLost, rejoining, panelOpen} \subseteq BOOLEAN

BridgeIsQuiet == toDaemon = <<>> /\ inHand = {} /\ toPanel = <<>>

(***************************************************************************)
(* While the daemon stays up, everything the panel waits for is settled    *)
(* once nothing is under way, however many intents overlapped and however  *)
(* late their answers were: no promise is left, no image, and no notice    *)
(* that the bridge is lost.                                                *)
(***************************************************************************)
PanelSettles ==
  (BridgeIsQuiet /\ hostLosses = 0 /\ panelOpen) => promises = {} /\ imagesDue = {} /\ ~bridgeLost

(***************************************************************************)
(* A reconnection that is shown is one that ends: the button is not left   *)
(* disabled, even when the daemon was replaced.                            *)
(***************************************************************************)
RejoiningEnds == (rejoining /\ panelOpen) => watched.timed

BridgeSettles == PanelSettles /\ RejoiningEnds

(***************************************************************************)
(* A promise is kept or watched even if the daemon is replaced.  It does   *)
(* not hold: an intent that was acknowledged, or that a later one took the *)
(* watch from, is lost with the daemon and its button stays busy.          *)
(***************************************************************************)
PromisesAreWatched == (BridgeIsQuiet /\ panelOpen) => promises \subseteq (IF watched.timed THEN {watched.id} ELSE {})
=============================================================================
