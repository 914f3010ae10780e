---------------------------- MODULE CallChannels ----------------------------
(***************************************************************************)
(* What the parts that carry an agent's browser call share: the calls and  *)
(* what is fixed about each, the page they act on, and the channels        *)
(* between the native companion, the extension's service worker            *)
(* (background.ts) and the Playwright host (offscreen.ts, playwright.ts).  *)
(*                                                                         *)
(* A call is named by its request id.  The key of an action (what a card   *)
(* names and a grant is bound to) is a function of the call and of the     *)
(* page it was described on, so a key is represented by that page; the     *)
(* nonce of a card, minted once per call, is represented by the call.      *)
(***************************************************************************)
EXTENDS Naturals, Sequences, FiniteSets

CONSTANTS
  Calls,           \* request ids of the agent's calls
  Tabs,            \* tab ids; Chrome never reuses one in a session
  Pages,           \* what a tab can show, as far as an action's key tells it apart
  Origins,
  Tasks,           \* one per `vibewaiting mcp` server
  NoTask, NoTab, NoPage,
  TaskOf,          \* the task a caller names with the call, or NoTask
  OriginOf,        \* the origin of a page
  ActionOrigin,    \* per call and page, the origin the action acts on: the page's,
                   \* or where a browser_navigate goes
  DebuggerPages,   \* pages Playwright reaches through chrome.debugger only
  Acting,          \* calls of a tool that acts; the others only read
  AcceptsPending,  \* calls whose caller can wait for a person
  OnceOnly,        \* <<call, page>>: no allowance covers this action
  MaxNavigations,  \* bound: how often pages navigate
  Events           \* which events outside the program's control may happen

\* Events that a model may leave out, to keep an instance small or to state
\* under which of them a property holds.
AllEvents ==
  { "agent stops", "companion timeout", "call timeout", "card expiry",
    "tab closes", "unreachable", "port lost" }

ASSUME ConstantsAssumption ==
  /\ IsFiniteSet(Calls)
  /\ TaskOf \in [Calls -> Tasks \cup {NoTask}]
  /\ OriginOf \in [Pages -> Origins]
  /\ ActionOrigin \in [Calls -> [Pages -> Origins]]
  /\ DebuggerPages \subseteq Pages
  /\ Acting \subseteq Calls
  /\ AcceptsPending \subseteq Calls
  /\ OnceOnly \subseteq Calls \X Pages
  /\ NoTask \notin Tasks
  /\ NoTab \notin Tabs
  /\ NoPage \notin Pages
  /\ MaxNavigations \in Nat
  /\ Events \subseteq AllEvents

VARIABLES
  connected,    \* the extension's nativePort is not null
  toExtension,  \* native messages written by the companion, not yet handled
  toCompanion,  \* native messages posted by the background, not yet handled
  toHost,       \* runtime messages posted by the background, not yet handled
  replies,      \* answers of the Playwright host on their way back
  openTabs,     \* tabs that exist
  page,         \* what each tab shows
  navigations   \* how often pages have navigated

nativeChannels == <<connected, toExtension, toCompanion>>
hostChannels   == <<toHost, replies>>
browserState   == <<openTabs, page, navigations>>

\* What an answer says about the page: the tool ran on it, nothing ran, or
\* the extension cannot tell.
Outcomes == {"ran", "notRun", "unknown"}

ToExtension == [type: {"request", "cancelled"}, call: Calls]

ToCompanion ==
  [type: {"pending"}, call: Calls]
    \cup [type: {"response"}, call: Calls, outcome: Outcomes]

Operation ==
  [type: {"operation"}, call: Calls, tab: Tabs, via: {"surface", "debugger"},
   grant: BOOLEAN, allowed: SUBSET Origins]

Offer == [type: {"grant-offer"}, call: Calls, tab: Tabs, page: Pages]

ToHost ==
  Operation \cup Offer
    \cup [type: {"grant-revoke", "operation-cancel"}, call: Calls]
    \cup [type: {"approval-settled", "tab-closed"}, tab: Tabs]

\* An Answer of the host: `page` names the action when it asks for approval.
Reply ==
  [call: Calls, kind: {"ran", "notRun"}]
    \cup [call: Calls, kind: {"approval"}, page: Pages]

Request(c)           == [type |-> "request", call |-> c]
Cancelled(c)         == [type |-> "cancelled", call |-> c]
Pending(c)           == [type |-> "pending", call |-> c]
Response(c, outcome) == [type |-> "response", call |-> c, outcome |-> outcome]
GrantOffer(c, t, p)  == [type |-> "grant-offer", call |-> c, tab |-> t, page |-> p]
GrantRevoke(c)       == [type |-> "grant-revoke", call |-> c]
OperationCancel(c)   == [type |-> "operation-cancel", call |-> c]
ApprovalSettled(t)   == [type |-> "approval-settled", tab |-> t]
TabClosed(t)         == [type |-> "tab-closed", tab |-> t]

ChannelsTypeOK ==
  /\ connected \in BOOLEAN
  /\ toExtension \in Seq(ToExtension)
  /\ toCompanion \in Seq(ToCompanion)
  /\ toHost \in Seq(ToHost)
  /\ replies \subseteq Reply
  /\ openTabs \subseteq Tabs
  /\ page \in [Tabs -> Pages]
  /\ navigations \in 0..MaxNavigations

ChannelsInit ==
  /\ connected = TRUE
  /\ toExtension = <<>>
  /\ toCompanion = <<>>
  /\ toHost = <<>>
  /\ replies = {}
  /\ openTabs = Tabs
  /\ page \in [Tabs -> Pages]
  /\ navigations = 0

\* A page that navigates, by itself or because the person clicked.
Navigate(t, p) ==
  /\ navigations < MaxNavigations
  /\ t \in openTabs
  /\ page[t] # p
  /\ page' = [page EXCEPT ![t] = p]
  /\ navigations' = navigations + 1
  /\ UNCHANGED openTabs
=============================================================================
