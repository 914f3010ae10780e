------------------------------ MODULE PhoneLink ------------------------------
(***************************************************************************)
(* The phone's page and its link to the remote messenger: the page that is *)
(* hidden, shown, offline and online (mobile/app.tsx), the web socket it   *)
(* opens again and again, what is kept while there is none, and the        *)
(* patches the daemon pushes to every panel (remote-messenger.ts).  The    *)
(* extension's panel is served by the same daemon at the same time.        *)
(***************************************************************************)
EXTENDS Naturals, Sequences

CONSTANTS MaxVersions,  \* bound: changes of the daemon's state
          MaxDrops,     \* bound: links that are lost
          MaxHidings,   \* bound: times the page is hidden, and times the network goes
          MaxTaps,      \* bound: intents of the person, on the phone and at the desk
          MaxPending    \* pending: 100 in the code

ASSUME PhoneAssumption ==
  {MaxDrops, MaxHidings, MaxTaps} \subseteq Nat /\ {MaxVersions, MaxPending} \subseteq Nat \ {0}

VARIABLES phonePage,   \* whether it is visible, online and destroyed
          phoneLink,   \* the socket: "none", "connecting" or "open"
          retryOn,     \* retryTimer
          unsent,      \* pending
          upstream,    \* intents on their way to the daemon
          downstream,  \* patches on their way to the phone
          lastPatch,   \* of the remote messenger: what a new socket is sent
          stateNow,    \* version of the daemon's state
          queuedState, \* lastQueuedFingerprint
          drawn,       \* version the phone shows
          answered,    \* the phone asked for the state over the socket it has, and was answered
          phoneSpent   \* how often each thing that is bounded happened

phoneVars == <<phonePage, phoneLink, retryOn, unsent, upstream, downstream, lastPatch, stateNow,
               queuedState, drawn, answered, phoneSpent>>

-----------------------------------------------------------------------------
(***************************************************************************)
(* The daemon's pushes.  A patch is a version of the whole state, or 0 for *)
(* one that is not: an acknowledgement, a completion, an image.            *)
(***************************************************************************)

Partial == 0

\* NativeWidgetBridge.push and RemoteMessengerServer.push, of one patch after the other.
Pushes(patches) ==
  /\ lastPatch' = IF patches = <<>> THEN lastPatch ELSE patches[Len(patches)]
  /\ downstream' = IF phoneLink = "open" THEN downstream \o patches ELSE downstream

\* As ServesPanel, but without force: what was pushed before is not pushed again.
ServesPanel_Unforced(intent) ==
  LET changed == IF stateNow # queuedState THEN <<stateNow>> ELSE <<>>
  IN CASE intent \in {"mounted", "visible"} -> <<Partial>> \o changed
       [] intent = "hidden" -> <<Partial>>
       [] OTHER -> <<Partial>> \o changed \o <<Partial>>

\* The intent queue: an acknowledgement, the state, and a completion of what is not about the panel.
ServesPanel(intent) ==
  LET changed == IF stateNow # queuedState THEN <<stateNow>> ELSE <<>>
  IN CASE intent \in {"mounted", "visible"} -> <<Partial, stateNow>>
       [] intent = "hidden" -> <<Partial>>
       [] OTHER -> <<Partial>> \o changed \o <<Partial>>

Serves(intent) ==
  /\ Pushes(ServesPanel(intent))
  /\ queuedState' = IF intent = "hidden" THEN queuedState ELSE stateNow

Spent(what, bound) ==
  /\ phoneSpent[what] < bound
  /\ phoneSpent' = [phoneSpent EXCEPT ![what] = @ + 1]

StateChanges ==
  /\ stateNow < MaxVersions
  /\ stateNow' = stateNow + 1
  /\ UNCHANGED <<phonePage, phoneLink, retryOn, unsent, upstream, downstream, lastPatch, queuedState,
                 drawn, answered, phoneSpent>>

\* pushNow, after the debounce.
StateIsPushed ==
  /\ stateNow # queuedState
  /\ Pushes(<<stateNow>>)
  /\ queuedState' = stateNow
  /\ UNCHANGED <<phonePage, phoneLink, retryOn, unsent, upstream, stateNow, drawn, answered, phoneSpent>>

\* An intent of the extension's panel: its acknowledgement goes to the phone too.
DeskActs ==
  /\ Spent("taps", MaxTaps)
  /\ Serves("tap")
  /\ UNCHANGED <<phonePage, phoneLink, retryOn, unsent, upstream, stateNow, drawn, answered>>

IntentArrives ==
  /\ upstream # <<>>
  /\ upstream' = Tail(upstream)
  /\ Serves(Head(upstream))
  /\ answered' = (answered \/ (phoneLink = "open" /\ Head(upstream) \in {"mounted", "visible"}))
  /\ UNCHANGED <<phonePage, phoneLink, retryOn, unsent, stateNow, drawn, phoneSpent>>

PhonePatched ==
  /\ downstream # <<>>
  /\ downstream' = Tail(downstream)
  /\ drawn' = IF Head(downstream) = Partial THEN drawn ELSE Head(downstream)
  /\ UNCHANGED <<phonePage, phoneLink, retryOn, unsent, upstream, lastPatch, stateNow, queuedState,
                 answered, phoneSpent>>

-----------------------------------------------------------------------------
(***************************************************************************)
(* The phone                                                               *)
(***************************************************************************)

\* send: what no open socket takes is kept, the oldest of too many is dropped.
SendsOver(intent) ==
  IF phoneLink = "open"
    THEN upstream' = Append(upstream, intent) /\ UNCHANGED unsent
    ELSE /\ UNCHANGED upstream
         /\ LET kept == Append(unsent, intent)
            IN unsent' = IF Len(kept) > MaxPending THEN Tail(kept) ELSE kept

\* connect
Connects(page, link) ==
  IF page.destroyed \/ ~page.visible \/ link # "none"
    THEN phoneLink' = link /\ UNCHANGED retryOn
    ELSE /\ retryOn' = FALSE
         /\ phoneLink' = IF page.online THEN "connecting" ELSE link

\* connect as the timer calls it, which has cleared itself.
RetryFires ==
  /\ retryOn
  /\ retryOn' = FALSE
  /\ phoneLink' = IF ~phonePage.destroyed /\ phonePage.visible /\ phonePage.online /\ phoneLink = "none"
                    THEN "connecting" ELSE phoneLink
  /\ UNCHANGED <<phonePage, unsent, upstream, downstream, lastPatch, stateNow, queuedState, drawn,
                 answered, phoneSpent>>

\* attachSocket sends the last patch; the page sends what it kept.
SocketOpens ==
  /\ phoneLink = "connecting"
  /\ phoneLink' = "open"
  /\ upstream' = unsent /\ unsent' = <<>>
  /\ downstream' = <<lastPatch>>
  /\ UNCHANGED <<phonePage, retryOn, lastPatch, stateNow, queuedState, drawn, answered, phoneSpent>>

\* What is under way is lost; scheduleReconnect.
SocketCloses ==
  /\ phoneLink # "none"
  /\ Spent("drops", MaxDrops)
  /\ phoneLink' = "none"
  /\ upstream' = <<>> /\ downstream' = <<>>
  /\ retryOn' = (~phonePage.destroyed /\ phonePage.visible /\ phonePage.online)
  /\ answered' = FALSE
  /\ UNCHANGED <<phonePage, unsent, lastPatch, stateNow, queuedState, drawn>>

\* visibilitychange: the panel says so, and no retry is made for a page that is not seen.
PhoneHides ==
  /\ phonePage.visible /\ ~phonePage.destroyed
  /\ Spent("hidings", MaxHidings)
  /\ phonePage' = [phonePage EXCEPT !.visible = FALSE]
  /\ SendsOver("hidden")
  /\ retryOn' = FALSE
  /\ UNCHANGED <<phoneLink, downstream, lastPatch, stateNow, queuedState, drawn, answered>>

\* As PhoneShows, but a socket is expected to be there.
PhoneShows_Waits ==
  /\ ~phonePage.visible /\ ~phonePage.destroyed
  /\ phonePage' = [phonePage EXCEPT !.visible = TRUE]
  /\ SendsOver("visible")
  /\ UNCHANGED <<phoneLink, retryOn, downstream, lastPatch, stateNow, queuedState, drawn, answered, phoneSpent>>

PhoneShows ==
  /\ ~phonePage.visible /\ ~phonePage.destroyed
  /\ phonePage' = [phonePage EXCEPT !.visible = TRUE]
  /\ SendsOver("visible")
  /\ Connects([phonePage EXCEPT !.visible = TRUE], phoneLink)
  /\ UNCHANGED <<downstream, lastPatch, stateNow, queuedState, drawn, answered, phoneSpent>>

\* The network goes: an open socket may last a while, a retry that fires finds none.
GoesOffline ==
  /\ phonePage.online
  /\ Spent("outages", MaxHidings)
  /\ phonePage' = [phonePage EXCEPT !.online = FALSE]
  /\ UNCHANGED <<phoneLink, retryOn, unsent, upstream, downstream, lastPatch, stateNow, queuedState,
                 drawn, answered>>

GoesOnline ==
  /\ ~phonePage.online
  /\ phonePage' = [phonePage EXCEPT !.online = TRUE]
  /\ Connects([phonePage EXCEPT !.online = TRUE], phoneLink)
  /\ UNCHANGED <<unsent, upstream, downstream, lastPatch, stateNow, queuedState, drawn, answered, phoneSpent>>

PhoneActs ==
  /\ phonePage.visible /\ ~phonePage.destroyed
  /\ Spent("taps", MaxTaps)
  /\ SendsOver("tap")
  /\ UNCHANGED <<phonePage, phoneLink, retryOn, downstream, lastPatch, stateNow, queuedState, drawn, answered>>

\* pagehide: the messenger is taken down with its transport, whether or not the page is kept.
PageIsLeft ==
  /\ ~phonePage.destroyed
  /\ phonePage' = [phonePage EXCEPT !.destroyed = TRUE]
  /\ phoneLink' = "none" /\ retryOn' = FALSE
  /\ upstream' = <<>> /\ downstream' = <<>> /\ unsent' = <<>>
  /\ answered' = FALSE
  /\ UNCHANGED <<lastPatch, stateNow, queuedState, drawn, phoneSpent>>

-----------------------------------------------------------------------------

\* The daemon has pushed its first state; the page connects, tells its visibility and mounts.
PhoneInit ==
  /\ phonePage = [visible |-> TRUE, online |-> TRUE, destroyed |-> FALSE]
  /\ phoneLink = "connecting" /\ retryOn = FALSE
  /\ unsent = IF MaxPending = 1 THEN <<"mounted">> ELSE <<"visible", "mounted">>
  /\ upstream = <<>> /\ downstream = <<>>
  /\ lastPatch = 1 /\ stateNow = 1 /\ queuedState = 1 /\ drawn = 0 /\ answered = FALSE
  /\ phoneSpent = [what \in {"taps", "drops", "hidings", "outages"} |-> 0]

PhoneNext ==
  \/ StateChanges \/ StateIsPushed \/ DeskActs \/ IntentArrives \/ PhonePatched
  \/ RetryFires \/ SocketOpens \/ SocketCloses
  \/ PhoneHides \/ PhoneShows \/ GoesOffline \/ GoesOnline \/ PhoneActs \/ PageIsLeft

PhoneSpec == PhoneInit /\ [][PhoneNext]_phoneVars

-----------------------------------------------------------------------------
PhoneTypeOK ==
  /\ phoneLink \in {"none", "connecting", "open"} /\ retryOn \in BOOLEAN /\ answered \in BOOLEAN
  /\ Len(unsent) <= MaxPending
  /\ lastPatch \in 0 .. MaxVersions /\ drawn \in 0 .. stateNow /\ queuedState \in 1 .. stateNow

(***************************************************************************)
(* A phone that is looked at and has a network has a socket, or a timer    *)
(* that opens one, whatever was hidden, lost and found in between.         *)
(***************************************************************************)
SeenPhoneIsLinked ==
  (phonePage.visible /\ phonePage.online /\ ~phonePage.destroyed) => (phoneLink # "none" \/ retryOn)

PhoneIsQuiet ==
  phoneLink = "open" /\ unsent = <<>> /\ upstream = <<>> /\ downstream = <<>> /\ stateNow = queuedState

(***************************************************************************)
(* A phone whose question was answered over the socket it has shows the    *)
(* daemon's state once nothing is under way, although most of what it is   *)
(* sent are acknowledgements of other panels.                              *)
(***************************************************************************)
AnsweredPhoneIsCurrent == (PhoneIsQuiet /\ answered) => drawn = stateNow

PhoneFollows == SeenPhoneIsLinked /\ AnsweredPhoneIsCurrent

(***************************************************************************)
(* The same of any phone.  It does not hold: a socket that is opened again *)
(* while the page stays visible is sent the last patch alone, which may be *)
(* an acknowledgement, and the phone asks for nothing.                     *)
(***************************************************************************)
QuietPhoneIsCurrent == PhoneIsQuiet => drawn = stateNow
=============================================================================
