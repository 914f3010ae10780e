---------------------------- MODULE ExtensionLink ----------------------------
(***************************************************************************)
(* The extension's service worker between the pages' messengers and the    *)
(* native host: background.ts (ensureNative, sendIntent, the guest and     *)
(* content ports) and native-host.ts (the command queue, start, stop).     *)
(*                                                                         *)
(* A message is its kind; a patch is "state" when it names the harness, as *)
(* a full state does, and "note" when it does not (bridgeAck, bridgeDone,  *)
(* an image).  Commands reach the host in order and are handled one by     *)
(* one; a host whose port closed never answers into a later port.          *)
(***************************************************************************)
EXTENDS Integers, Sequences, FiniteSets, SequencesExt

CONSTANTS
  LinkTabs,     \* tabs with a content script
  PendingLimit, \* intents kept while the host is not ready, 100 in the code
  MaxActs,      \* bound on what people do in the messengers
  MaxConnects,  \* bound on connections to the host
  MaxSaves      \* bound on saves of the settings

ASSUME LinkAssumption ==
  /\ IsFiniteSet(LinkTabs)
  /\ PendingLimit \in Nat \ {0}
  /\ {MaxActs, MaxConnects, MaxSaves} \subseteq Nat

VARIABLES
  messengers,     \* the messenger of each tab: none, hidden or visible
  launcher,       \* whether each tab shows the launcher
  port,           \* nativePort: none or open
  connecting,     \* nativeConnecting: none, or the settings it has read
  ready,          \* nativeReady
  pendingIntents,
  lastPatch,      \* none, state or note
  saved,          \* the settings in chrome.storage, a version; 0 is none yet
  toHost, toWorker, \* the channels of the open port
  host,           \* the settings the host's daemon runs with, 0 for no daemon
  panelVisible,   \* the daemon's belief
  named,          \* history: a state with a harness was shown
  acts, connects

workerLink == <<port, connecting, ready, pendingIntents, lastPatch, saved, connects>>
pages      == <<messengers, launcher, named, acts>>
hostSide   == <<toHost, toWorker, host, panelVisible>>
linkVars   == <<workerLink, pages, hostSide>>

NotConnecting == -1
Intents  == {"mounted", "panelVisible", "panelHidden", "other"}
Starts   == {<<"start", n>> : n \in 1 .. MaxSaves + 1}
Messages == {"starting", "ready", "error", "state", "note"}

LinkTypeOK ==
  /\ messengers \in [LinkTabs -> {"none", "hidden", "visible"}]
  /\ launcher \in [LinkTabs -> BOOLEAN]
  /\ port \in {"none", "open"} /\ {ready, panelVisible, named} \subseteq BOOLEAN
  /\ connecting \in NotConnecting .. MaxSaves + 1
  /\ pendingIntents \in Seq(Intents) /\ Len(pendingIntents) <= PendingLimit
  /\ lastPatch \in {"none", "state", "note"}
  /\ toHost \in Seq(Starts \cup {<<i, 0>> : i \in Intents})
  /\ toWorker \in Seq(Messages)
  /\ {saved, host} \subseteq 0 .. MaxSaves + 1

LinkInit ==
  /\ messengers = [t \in LinkTabs |-> "none"] /\ launcher = [t \in LinkTabs |-> FALSE]
  /\ port = "none" /\ connecting = NotConnecting /\ ready = FALSE
  /\ pendingIntents = <<>> /\ lastPatch = "none" /\ saved = 1
  /\ toHost = <<>> /\ toWorker = <<>> /\ host = 0 /\ panelVisible = FALSE
  /\ named = FALSE /\ acts = 0 /\ connects = 0

-----------------------------------------------------------------------------
\* sendIntent: to a ready host, or kept; beyond the limit the oldest is dropped.
SendsIntent(intent) ==
  IF port = "open" /\ ready
  THEN toHost' = Append(toHost, <<intent, 0>>) /\ UNCHANGED pendingIntents
  ELSE /\ pendingIntents' =
            LET all == Append(pendingIntents, intent) IN
            IF Len(all) > PendingLimit THEN Tail(all) ELSE all
       /\ UNCHANGED toHost

VisibleIn(g) == Cardinality({t \in LinkTabs : g[t] = "visible"})

\* A messenger's visibility is told to the host when it is the first to show or the last to hide.
HeldBack(intent, g) == UNCHANGED <<toHost, pendingIntents>>
SendsVisibility(intent, g) ==
  IF (VisibleIn(messengers) = 0) # (VisibleIn(g) = 0)
  THEN SendsIntent(intent)
  ELSE UNCHANGED <<toHost, pendingIntents>>

GuestUnchanged == <<port, connecting, ready, lastPatch, saved, connects, toWorker, host, panelVisible, named>>

Acting == acts < MaxActs /\ acts' = acts + 1

\* A messenger connects; the interface it loads says that it mounted.
MessengerMounts(t) ==
  /\ messengers[t] = "none" /\ Acting
  /\ messengers' = [messengers EXCEPT ![t] = "hidden"]
  /\ SendsIntent("mounted")
  /\ UNCHANGED <<launcher, GuestUnchanged>>

GuestShows(t) ==
  /\ messengers[t] = "hidden" /\ Acting
  /\ messengers' = [messengers EXCEPT ![t] = "visible"]
  /\ SendsVisibility("panelVisible", messengers')
  /\ UNCHANGED <<launcher, GuestUnchanged>>

GuestHides(t) ==
  /\ messengers[t] = "visible" /\ Acting
  /\ messengers' = [messengers EXCEPT ![t] = "hidden"]
  /\ SendsVisibility("panelHidden", messengers')
  /\ UNCHANGED <<launcher, GuestUnchanged>>

\* A page goes away, and its messenger with it.
GoneSilently(g) == HeldBack("panelHidden", g)
Gone(g) == SendsVisibility("panelHidden", g)

GuestLeaves(t) ==
  /\ messengers[t] # "none" /\ Acting
  /\ messengers' = [messengers EXCEPT ![t] = "none"]
  /\ IF messengers[t] = "visible" THEN Gone(messengers') ELSE UNCHANGED <<toHost, pendingIntents>>
  /\ launcher' = [launcher EXCEPT ![t] = lastPatch = "state"]
  /\ UNCHANGED GuestUnchanged

GuestSends(t) ==
  /\ messengers[t] = "visible" /\ Acting
  /\ SendsIntent("other")
  /\ UNCHANGED <<messengers, launcher, GuestUnchanged>>

-----------------------------------------------------------------------------
\* ensureNative reads the settings, then connects with what it read.
Disconnected ==
  /\ toHost' = <<>> /\ toWorker' = <<>> /\ host' = 0 /\ panelVisible' = FALSE

EnsureNative ==
  /\ port = "none" /\ connecting = NotConnecting /\ connects < MaxConnects
  /\ connecting' = saved
  /\ connects' = connects + 1
  /\ UNCHANGED <<port, ready, pendingIntents, lastPatch, saved, pages, hostSide>>

Connects ==
  /\ connecting # NotConnecting
  /\ connecting' = NotConnecting
  /\ port' = "open" /\ ready' = FALSE
  /\ toHost' = <<<<"start", connecting>>>>
  /\ UNCHANGED <<pendingIntents, lastPatch, saved, connects, pages, toWorker, host, panelVisible>>

\* The host's process ends: what is kept for it stays.
HostEnds ==
  /\ port = "open" /\ connects < MaxConnects
  /\ port' = "none" /\ ready' = FALSE
  /\ Disconnected
  /\ UNCHANGED <<connecting, pendingIntents, lastPatch, saved, connects, pages>>

\* settings-changed, retry-native: disconnectNative forgets what was kept.
SettingsChange ==
  /\ saved <= MaxSaves /\ connects < MaxConnects
  /\ saved' = saved + 1
  /\ port' = "none" /\ ready' = FALSE /\ pendingIntents' = <<>> /\ lastPatch' = "none"
  /\ Disconnected
  /\ UNCHANGED <<connecting, connects, pages>>

\* handleNativeMessage: status and patch.
Receives ==
  /\ toWorker # <<>>
  /\ toWorker' = Tail(toWorker)
  /\ LET m == Head(toWorker) IN
       CASE m \in {"state", "note"} ->
              /\ lastPatch' = m
              /\ launcher' = [t \in LinkTabs |-> m = "state"]
              /\ named' = (named \/ m = "state")
              /\ UNCHANGED <<ready, pendingIntents, toHost>>
         [] m \in {"starting", "error"} ->
              ready' = FALSE /\ UNCHANGED <<lastPatch, launcher, named, pendingIntents, toHost>>
         [] m = "ready" ->
              /\ ready' = TRUE
              /\ toHost' = toHost \o [i \in DOMAIN pendingIntents |-> <<pendingIntents[i], 0>>]
              /\ pendingIntents' = <<>>
              /\ UNCHANGED <<lastPatch, launcher, named>>
  /\ UNCHANGED <<port, connecting, saved, connects, messengers, acts, host, panelVisible>>

-----------------------------------------------------------------------------
\* handle: one command of the queue, start being stopDaemon and startDaemon.
HostStarts ==
  /\ toHost # <<>> /\ Head(toHost) \in Starts
  /\ toHost' = Tail(toHost)
  /\ \/ /\ host' = Head(toHost)[2]
        /\ toWorker' = toWorker \o <<"starting", "state", "ready">>
     \/ /\ host' = 0
        /\ toWorker' = toWorker \o <<"starting", "error">>
  /\ panelVisible' = FALSE
  /\ UNCHANGED <<workerLink, pages>>

\* An intent: acknowledged, handled, and said to be done.  "mounted" starts as hidden and makes
\* a whole state; so does panelVisible.  None comes before a start that succeeded.
HostHandles ==
  /\ toHost # <<>> /\ Head(toHost) \notin Starts
  /\ toHost' = Tail(toHost)
  /\ LET i == Head(toHost)[1] IN
       /\ panelVisible' = CASE i = "panelVisible" -> TRUE
                            [] i \in {"panelHidden", "mounted"} -> FALSE
                            [] OTHER -> panelVisible
       /\ toWorker' = toWorker \o (CASE i \in {"mounted", "panelVisible"} -> <<"note", "state">>
                                     [] i = "panelHidden" -> <<"note">>
                                     [] OTHER -> <<"note", "note">>)
  /\ UNCHANGED <<host, workerLink, pages>>

\* The daemon's state changed.
HostPushes ==
  /\ host # 0 /\ lastPatch = "note" /\ toWorker = <<>>
  /\ toWorker' = <<"state">>
  /\ UNCHANGED <<toHost, host, panelVisible, workerLink, pages>>

LinkNext ==
  \/ \E t \in LinkTabs : MessengerMounts(t) \/ GuestShows(t) \/ GuestHides(t) \/ GuestLeaves(t) \/ GuestSends(t)
  \/ EnsureNative \/ Connects \/ HostEnds \/ SettingsChange \/ Receives
  \/ HostStarts \/ HostHandles \/ HostPushes

LinkSpec == LinkInit /\ [][LinkNext]_linkVars

-----------------------------------------------------------------------------
LinkSettled == host # 0 /\ ready /\ toHost = <<>> /\ toWorker = <<>>

\* A daemon believes the panel is open only while some messenger is, whatever was kept, dropped
\* or lost with a host that ended.
OpenPanelIsReal == LinkSettled /\ panelVisible => VisibleIn(messengers) > 0

\* daemon.ts:1005: while a messenger is open the daemon knows, and leaves the rows where they are.
\* It does not hold of the code.
OpenPanelIsKnown == LinkSettled /\ VisibleIn(messengers) > 0 => panelVisible

\* daemon.ts:854: the launcher stays once there is a harness to show.
\* It does not hold of the code.
LauncherStays == LinkSettled /\ named => \A t \in LinkTabs : launcher[t]
=============================================================================
