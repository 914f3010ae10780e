------------------------------- MODULE TabPorts -------------------------------
(***************************************************************************)
(* The tables the service worker keeps of one tab (background.ts), and the *)
(* ports that change them: of the content script each page mounts          *)
(* (content.ts) and of the messenger in its frame (app.tsx).               *)
(*                                                                         *)
(* Pages are numbered as they mount; one restored from the back/forward    *)
(* cache mounts again, with new ports.  A port delivers in order, and ends *)
(* with its disconnect; nothing orders two ports, except that what a page  *)
(* says as it mounts is heard before the next page connects.  A page that  *)
(* is gone answers nothing.                                                *)
(***************************************************************************)
EXTENDS Naturals, Sequences, FiniteSets

CONSTANTS
  MaxVisits,     \* bound on the pages the tab shows
  MaxAsks,       \* bound on the captures the messenger asks for
  CaptureLimit,  \* pending captures, 32 in the code
  EventLimit,    \* pending host events, 8 in the code
  MaxNudges      \* bound on shortcuts, remote-access clicks, drives and revocations

ASSUME TabPortsAssumption ==
  /\ {CaptureLimit, EventLimit} \subseteq Nat \ {0}
  /\ {MaxVisits, MaxAsks, MaxNudges} \subseteq Nat

VARIABLES
  pageShown,       \* the page that is mounted, 0 for none
  visits,          \* pages so far: whether each was restored
  fromContent, fromGuest,   \* per page, the messages on their way to the worker
  toContent, toGuest,       \* and back
  framed,          \* the page whose messenger has connected, 0 for none
  byTab,           \* contentPortsByTab: the page whose port it is, 0 for none
  guests,          \* guestPorts, of the tab
  captures,        \* pendingBrowserRequests, oldest first
  events,          \* pendingHostEvents: the page each was captured on
  raOpen,          \* pendingRemoteAccessOpen
  restoredMark, driven,     \* restoredTabs and drivenTabs
  surfaceOf,       \* the page whose surface reaches the Playwright host, 0 for none
  waitingAsks,     \* browserRequests of the messenger shown
  asks, nudges

pageSide   == <<pageShown, visits, framed, surfaceOf, waitingAsks>>
workerSide == <<byTab, guests, captures, events, raOpen, restoredMark, driven>>
tabWires   == <<fromContent, fromGuest, toContent, toGuest>>
tabVars    == <<pageSide, workerSide, tabWires, asks, nudges>>

Visits == 1 .. MaxVisits
Asks   == 1 .. MaxAsks

\* A message is its kind and, of a capture or an event, its number.
Say(kind)   == <<kind, 0>>
Says(kinds) == (kinds \X {0}) \cup ({"capture"} \X Asks)

\* A capture that is pending: its number, and the page whose messenger asked.
Captures == [ask : Asks, guest : Visits]
Of(v)    == [ask : Asks, guest : {v}]

TabTypeOK ==
  /\ pageShown \in 0 .. MaxVisits /\ visits \in Seq(BOOLEAN) /\ Len(visits) <= MaxVisits
  /\ {surfaceOf, framed} \subseteq {0, pageShown}
  /\ waitingAsks \subseteq Asks
  /\ fromContent \in [Visits -> Seq(Says({"hello", "restored", "remote", "shortcut", "bye"}))]
  /\ fromGuest \in [Visits -> Seq(Says({"hello", "bye"}))]
  /\ toContent \in [Visits -> Seq(Says({"surface", "shortcut", "revoked"}))]
  /\ toGuest \in [Visits -> Seq(Says({"remote", "restored", "cleared"}) \cup ({"event"} \X Visits))]
  /\ byTab \in 0 .. MaxVisits /\ guests \subseteq Visits
  /\ captures \in Seq(Captures) /\ Len(captures) <= CaptureLimit
  /\ events \in Seq(Visits) /\ Len(events) <= EventLimit
  /\ {raOpen, restoredMark, driven} \subseteq BOOLEAN
  /\ asks \in 0 .. MaxAsks /\ nudges \in 0 .. MaxNudges

TabInit ==
  /\ pageShown = 0 /\ visits = <<>> /\ framed = 0 /\ surfaceOf = 0 /\ waitingAsks = {}
  /\ fromContent = [v \in Visits |-> <<>>] /\ fromGuest = [v \in Visits |-> <<>>]
  /\ toContent = [v \in Visits |-> <<>>] /\ toGuest = [v \in Visits |-> <<>>]
  /\ byTab = 0 /\ guests = {} /\ captures = <<>> /\ events = <<>>
  /\ raOpen = FALSE /\ restoredMark = FALSE /\ driven = FALSE
  /\ asks = 0 /\ nudges = 0

-----------------------------------------------------------------------------
\* The page.

Sends(wire, v, ms) == [wire EXCEPT ![v] = @ \o ms]
Mounting(v)        == \E i \in DOMAIN fromContent[v] : fromContent[v][i][1] \in {"hello", "restored"}

\* What is sent to a page that is gone reaches nobody; sent to the page shown, it waits.
Reach(v, ms) == IF v = pageShown THEN ms ELSE <<>>

\* mountVibewaitingContent: the page connects, and says that it was restored.
Mount(restored) ==
  /\ pageShown = 0 /\ Len(visits) < MaxVisits
  /\ LET v == Len(visits) + 1 IN
       /\ pageShown' = v /\ visits' = Append(visits, restored)
       /\ fromContent' = Sends(fromContent, v,
                                IF restored THEN <<Say("hello"), Say("restored")>> ELSE <<Say("hello")>>)
  /\ UNCHANGED <<framed, surfaceOf, waitingAsks, fromGuest, toContent, toGuest, workerSide, asks, nudges>>

\* The messenger's frame connects, once.
GuestOpens ==
  /\ framed # pageShown
  /\ framed' = pageShown
  /\ fromGuest' = Sends(fromGuest, pageShown, <<Say("hello")>>)
  /\ UNCHANGED <<pageShown, visits, surfaceOf, waitingAsks, workerSide, fromContent, toContent, toGuest, asks, nudges>>

\* destroy, with the page: both of its ports disconnect, and its promises go.
Leave ==
  /\ pageShown # 0
  /\ pageShown' = 0 /\ framed' = 0 /\ surfaceOf' = 0 /\ waitingAsks' = {}
  /\ fromContent' = Sends(fromContent, pageShown, <<Say("bye")>>)
  /\ fromGuest' = IF framed = 0 THEN fromGuest ELSE Sends(fromGuest, pageShown, <<Say("bye")>>)
  /\ toContent' = [toContent EXCEPT ![pageShown] = <<>>]
  /\ toGuest' = [toGuest EXCEPT ![pageShown] = <<>>]
  /\ UNCHANGED visits

Leaves == Leave /\ UNCHANGED <<workerSide, asks, nudges>>

\* The person asks for a capture in the messenger, or opens remote access on the page.
AsksCapture ==
  /\ asks < MaxAsks
  /\ framed # 0
  /\ asks' = asks + 1
  /\ waitingAsks' = waitingAsks \cup {asks + 1}
  /\ fromGuest' = Sends(fromGuest, pageShown, <<<<"capture", asks + 1>>>>)
  /\ UNCHANGED <<pageShown, visits, framed, surfaceOf, workerSide, fromContent, toContent, toGuest, nudges>>

OpensRemote ==
  /\ pageShown # 0 /\ nudges < MaxNudges
  /\ nudges' = nudges + 1
  /\ fromContent' = Sends(fromContent, pageShown, <<Say("remote")>>)
  /\ UNCHANGED <<pageSide, workerSide, fromGuest, toContent, toGuest, asks>>

\* The content script reads a message: it answers a capture and a shortcut, connects the
\* surface of a page that was not restored, and is destroyed when access is revoked.
ContentReads ==
  /\ pageShown # 0 /\ toContent[pageShown] # <<>>
  /\ LET m == Head(toContent[pageShown]) IN
       \/ /\ m[1] \in {"capture", "shortcut"}
          /\ fromContent' = Sends(fromContent, pageShown, <<m>>)
          /\ toContent' = [toContent EXCEPT ![pageShown] = Tail(@)]
          /\ UNCHANGED <<pageSide, fromGuest, toGuest>>
       \/ /\ m[1] = "surface"
          /\ surfaceOf' = IF visits[pageShown] THEN surfaceOf ELSE pageShown
          /\ toContent' = [toContent EXCEPT ![pageShown] = Tail(@)]
          /\ UNCHANGED <<pageShown, visits, framed, waitingAsks, fromContent, fromGuest, toGuest>>
       \/ m[1] = "revoked" /\ Leave
  /\ UNCHANGED <<workerSide, asks, nudges>>

\* The messenger reads a message: a capture's answer settles it.
GuestReads ==
  /\ pageShown # 0 /\ toGuest[pageShown] # <<>>
  /\ waitingAsks' = IF Head(toGuest[pageShown])[1] = "capture"
                    THEN waitingAsks \ {Head(toGuest[pageShown])[2]} ELSE waitingAsks
  /\ toGuest' = [toGuest EXCEPT ![pageShown] = Tail(@)]
  /\ UNCHANGED <<pageShown, visits, framed, surfaceOf, workerSide, fromContent, fromGuest, toContent, asks,
                 nudges>>

\* requestBrowserContext: after two minutes the capture fails.
CaptureTimesOut ==
  /\ \E a \in waitingAsks : waitingAsks' = waitingAsks \ {a}
  /\ UNCHANGED <<pageShown, visits, framed, surfaceOf, workerSide, tabWires, asks, nudges>>

-----------------------------------------------------------------------------
\* The worker.

\* The captures of s that are among those, in their order.
Among(s, those) ==
  LET kept[i \in 0 .. Len(s)] ==
        IF i = 0 THEN <<>> ELSE IF s[i] \in those THEN Append(kept[i - 1], s[i]) ELSE kept[i - 1]
  IN kept[Len(s)]

\* Of the guests the worker has, those of the page shown still read.
ToGuests(ms) == IF pageShown \in guests THEN Sends(toGuest, pageShown, ms) ELSE toGuest
Answered(s)  ==
  LET heard == Among(s, Of(pageShown))
  IN IF heard = <<>> THEN toGuest
     ELSE Sends(toGuest, pageShown, [i \in DOMAIN heard |-> <<"capture", heard[i].ask>>])

\* The content port's connect: the tab's port, whose mark goes and whose surface is asked.
ContentConnects(v) ==
  /\ byTab' = v
  /\ restoredMark' = FALSE
  /\ toGuest' = IF restoredMark THEN ToGuests(<<Say("cleared")>>) ELSE toGuest
  /\ toContent' = IF driven THEN Sends(toContent, v, Reach(v, <<Say("surface")>>)) ELSE toContent
  /\ UNCHANGED <<guests, captures, events, raOpen, driven>>

\* Its disconnect: the tab's captures fail, whichever page was asked.
LosesPort(v) == 0
TabKeeps(v) == IF byTab = v THEN 0 ELSE byTab

ContentEnds(v) ==
  /\ byTab' = TabKeeps(v)
  /\ raOpen' = FALSE
  /\ captures' = <<>>
  /\ toGuest' = Answered(captures)
  /\ UNCHANGED <<guests, events, restoredMark, driven, toContent>>

\* handleContentMessage: the page was restored.
SaysRestored ==
  /\ restoredMark' = TRUE
  /\ toGuest' = ToGuests(<<Say("restored")>>)
  /\ UNCHANGED <<byTab, guests, captures, events, raOpen, driven, toContent>>

SaysRemote ==
  /\ toGuest' = ToGuests(<<Say("remote")>>)
  /\ raOpen' = (raOpen \/ guests = {})
  /\ UNCHANGED <<byTab, guests, captures, events, restoredMark, driven, toContent>>

\* A capture's answer goes to the guest that asked, if it is still pending.
SaysCapture(a) ==
  /\ captures' = Among(captures, Captures \ [ask : {a}, guest : Visits])
  /\ toGuest' = Answered(Among(captures, [ask : {a}, guest : Visits]))
  /\ UNCHANGED <<byTab, guests, events, raOpen, restoredMark, driven, toContent>>

\* forwardHostEvent: to the tab's guests, or kept for the next one.
SaysShortcut(v) ==
  /\ toGuest' = ToGuests(<<<<"event", v>>>>)
  /\ events' = IF guests # {} THEN events
               ELSE IF Len(events) = EventLimit THEN Append(Tail(events), v) ELSE Append(events, v)
  /\ UNCHANGED <<byTab, guests, captures, raOpen, restoredMark, driven, toContent>>

ContentIsHeard(v) ==
  /\ fromContent[v] # <<>>
  /\ \A u \in 1 .. v - 1 : ~Mounting(u)
  /\ fromContent' = [fromContent EXCEPT ![v] = Tail(@)]
  /\ LET m == Head(fromContent[v]) IN
       \/ m[1] = "hello" /\ ContentConnects(v)
       \/ m[1] = "bye" /\ ContentEnds(v)
       \/ m[1] = "restored" /\ SaysRestored
       \/ m[1] = "remote" /\ SaysRemote
       \/ m[1] = "shortcut" /\ SaysShortcut(v)
       \/ m[1] = "capture" /\ SaysCapture(m[2])
  /\ UNCHANGED <<pageSide, fromGuest, asks, nudges>>

\* The messenger's connect: what waits for the tab's messenger is posted to it.
GuestConnects(v) ==
  /\ guests' = guests \cup {v}
  /\ toGuest' = Sends(toGuest, v, Reach(v,
                  (IF raOpen THEN <<Say("remote")>> ELSE <<>>)
                  \o [i \in DOMAIN events |-> <<"event", events[i]>>]
                  \o (IF restoredMark THEN <<Say("restored")>> ELSE <<>>)))
  /\ raOpen' = FALSE /\ events' = <<>>
  /\ UNCHANGED <<byTab, captures, toContent>>

\* handleBrowserRequest: the page is asked, and at the limit the oldest capture fails.
GuestAsks(v, a) ==
  /\ UNCHANGED <<guests, byTab, raOpen, events>>
  /\ IF byTab = 0
     THEN /\ toGuest' = Sends(toGuest, v, Reach(v, <<<<"capture", a>>>>))
          /\ UNCHANGED <<captures, toContent>>
     ELSE LET full == Len(captures) = CaptureLimit IN
          /\ captures' = Append(IF full THEN Tail(captures) ELSE captures, [ask |-> a, guest |-> v])
          /\ toGuest' = IF full THEN Answered(<<Head(captures)>>) ELSE toGuest
          /\ toContent' = Sends(toContent, byTab, Reach(byTab, <<<<"capture", a>>>>))

\* Its disconnect: its captures go with it.
GuestEnds(v) ==
  /\ guests' = guests \ {v}
  /\ captures' = Among(captures, Captures \ Of(v))
  /\ UNCHANGED <<byTab, toGuest, toContent, raOpen, events>>

GuestIsHeard(v) ==
  /\ fromGuest[v] # <<>>
  /\ ~Mounting(v)
  /\ fromGuest' = [fromGuest EXCEPT ![v] = Tail(@)]
  /\ LET m == Head(fromGuest[v]) IN
       \* With no content port for the tab the guest's port is disconnected at once.
       \/ m[1] = "hello" /\ byTab # 0 /\ GuestConnects(v)
       \/ m[1] = "hello" /\ byTab = 0 /\ UNCHANGED <<guests, captures, events, byTab, raOpen, toGuest, toContent>>
       \/ m[1] = "capture" /\ v \in guests /\ GuestAsks(v, m[2])
       \/ m[1] = "capture" /\ v \notin guests /\ UNCHANGED <<guests, captures, events, byTab, raOpen, toGuest, toContent>>
       \/ m[1] = "bye" /\ GuestEnds(v)
  /\ UNCHANGED <<pageSide, restoredMark, driven, fromContent, asks, nudges>>

\* A keyboard shortcut or the context menu: the tab's page is told.
Shortcut ==
  /\ byTab # 0
  /\ toContent' = Sends(toContent, byTab, Reach(byTab, <<Say("shortcut")>>))
  /\ UNCHANGED <<byTab, driven, toGuest>>

\* runOnTab: an agent drives the tab over its page's surface.
Drive ==
  /\ byTab # 0
  /\ driven' = TRUE
  /\ toContent' = Sends(toContent, byTab, Reach(byTab, <<Say("surface")>>))
  /\ UNCHANGED <<byTab, toGuest>>

\* syncSiteAccess: access is revoked, and every content script told.
Revoke ==
  /\ byTab # 0
  /\ toContent' = Sends(toContent, byTab, Reach(byTab, <<Say("revoked")>>))
  /\ UNCHANGED <<byTab, driven, toGuest>>

Nudge ==
  /\ nudges < MaxNudges
  /\ nudges' = nudges + 1
  /\ Shortcut \/ Drive \/ Revoke
  /\ UNCHANGED <<pageSide, guests, captures, events, raOpen, restoredMark, fromContent, fromGuest, asks>>

TabNext ==
  \/ \E restored \in BOOLEAN : Mount(restored)
  \/ GuestOpens \/ Leaves \/ AsksCapture \/ OpensRemote \/ ContentReads \/ GuestReads
  \/ CaptureTimesOut \/ Nudge
  \/ \E v \in Visits : ContentIsHeard(v) \/ GuestIsHeard(v)

TabSpec == TabInit /\ [][TabNext]_tabVars

-----------------------------------------------------------------------------
TabIsQuiet == \A v \in Visits :
  fromContent[v] = <<>> /\ fromGuest[v] = <<>> /\ toContent[v] = <<>> /\ toGuest[v] = <<>>

\* Whatever order the ports of successive pages are heard in, once nothing is on its way
\* the worker's tables are those of the page shown: its port, its messenger alone, its
\* restored mark, its surface where an agent drives the tab, and no capture left to wait
\* (the listeners of background.ts:1315-1439).
TablesAreThePages ==
  TabIsQuiet =>
    /\ byTab = pageShown
    /\ guests \subseteq {pageShown}
    /\ captures = <<>> /\ waitingAsks = {}
    /\ pageShown # 0 =>
         /\ restoredMark = visits[pageShown]
         /\ driven /\ ~visits[pageShown] => surfaceOf = pageShown

\* A host event of a page reaches the messenger of that page.
\* It does not hold: what a page says late goes to the messenger the tab has now.
EventsStayOnTheirPage ==
  \A v \in Visits : \A i \in DOMAIN toGuest[v] :
    toGuest[v][i][1] = "event" => toGuest[v][i][2] = v
=============================================================================
