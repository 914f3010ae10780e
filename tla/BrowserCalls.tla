---------------------------- MODULE BrowserCalls ----------------------------
(***************************************************************************)
(* An agent's browser calls end to end: the companion, the extension's     *)
(* service worker and the Playwright host, composed over their channels.   *)
(***************************************************************************)
EXTENDS Companion, Background, PlaywrightHost

vars == <<nativeChannels, hostChannels, browserState, op, backgroundVars, hostVars>>

Init == ChannelsInit /\ CompanionInit /\ BackgroundInit /\ HostInit

CompanionOnly  == UNCHANGED <<hostChannels, browserState, backgroundVars, hostVars>>
BackgroundOnly == UNCHANGED <<browserState, op, hostVars>>
HostOnly       == UNCHANGED <<nativeChannels, browserState, op, backgroundVars>>

DispatchStep(c)         == Dispatch(c) /\ CompanionOnly
AgentStopsStep(c)       == AgentStops(c) /\ CompanionOnly
CompanionTimeoutStep(c) == CompanionTimeout(c) /\ CompanionOnly
PortLostStep            == PortLost /\ CompanionOnly
ReconnectStep           == Reconnect /\ CompanionOnly
CompanionReceives       == ReceiveFromExtension /\ CompanionOnly

\* What the background handles of what the companion sent.
BackgroundReceives ==
  (\E c \in Calls : ReceiveRequest(c) \/ ReceiveCancelled(c)) /\ BackgroundOnly

\* The routing coroutine of a call resumes after an await.
Routes(c) ==
  /\ \/ RouteRefused(c)
     \/ \E t \in Tabs : RouteWhileDeciding(c, t) \/ RouteToTab(c, t)
  /\ BackgroundOnly
Prepares(c) ==
  (SendOperation(c) \/ DropCancelled(c) \/ HostUnavailable(c)) /\ BackgroundOnly
HostReplies(c) ==
  (\E r \in replies : HostAnswered(c, r) \/ AskPerson(c, r)) /\ BackgroundOnly

CallTimeoutStep(c)   == CallTimeout(c) /\ BackgroundOnly
ExpireStep(c)        == Expire(c) /\ BackgroundOnly
DenyStep(c)          == Deny(c) /\ BackgroundOnly
AllowStep(c, answer) == Allow(c, answer) /\ BackgroundOnly

CloseTabStep(t) == CloseTab(t) /\ UNCHANGED <<op, hostVars>>

NavigateStep(t, p) ==
  Navigate(t, p) /\ UNCHANGED <<nativeChannels, hostChannels, op, backgroundVars, hostVars>>

\* A call that may begin does so in the microtasks that follow its queueing or
\* the answer before it: no message is handled in between.
HostReceives ==
  /\ toHost # <<>>
  /\ \A t \in Tabs : ~MayBegin(t)
  /\ LET m == Head(toHost) IN
       \/ ReceiveOperation(m)
       \/ ReceiveOffer(m)
       \/ ReceiveRevoke(m)
       \/ ReceiveCancel(m)
       \/ ReceiveSettled(m)
  /\ HostOnly

SurfaceStep(t) == (SurfaceFound(t) \/ SurfaceDropped(t)) /\ HostOnly

Begins(t)   == (BeginCancelled(t) \/ BeginWithoutOffer(t) \/ BeginHeld(t) \/ Begin(t)) /\ HostOnly
Checks(t)   ==
  (CheckReading(t) \/ CheckAllowed(t) \/ CheckMismatch(t) \/ CheckRefused(t)) /\ HostOnly
Confirms(t) == (ConfirmStale(t) \/ Confirm(t)) /\ HostOnly
Fails(t)    == Unreachable(t) /\ HostOnly
Finishes(t) == Finish(t) /\ HostOnly
Executes(t) == Begins(t) \/ Checks(t) \/ Confirms(t) \/ Fails(t) \/ Finishes(t)

Next ==
  \/ \E c \in Calls :
       \/ DispatchStep(c) \/ AgentStopsStep(c) \/ CompanionTimeoutStep(c)
       \/ Routes(c) \/ Prepares(c) \/ HostReplies(c)
       \/ CallTimeoutStep(c) \/ ExpireStep(c) \/ DenyStep(c)
       \/ \E answer \in Allowing : AllowStep(c, answer)
  \/ CompanionReceives \/ BackgroundReceives \/ PortLostStep \/ ReconnectStep
  \/ \E t \in Tabs :
       \/ CloseTabStep(t) \/ \E p \in Pages : NavigateStep(t, p)
       \/ SurfaceStep(t) \/ Executes(t)
  \/ HostReceives

Spec == Init /\ [][Next]_vars

\* Messages are handled, the browser's own calls (tabs.query, createDocument,
\* executeScript, the answer of a sent message) settle, and timers fire.
\* Neither the agent, the person nor the page has to do anything.
Fairness ==
  /\ WF_vars(CompanionReceives)
  /\ WF_vars(BackgroundReceives)
  /\ WF_vars(HostReceives)
  /\ \A t \in Tabs : WF_vars(SurfaceStep(t)) /\ WF_vars(Begins(t))
  /\ \A c \in Calls :
       /\ WF_vars(Routes(c))
       /\ WF_vars(Prepares(c))
       /\ WF_vars(HostReplies(c))
       /\ WF_vars(CallTimeoutStep(c))
       /\ WF_vars(ExpireStep(c))

\* The page may never answer Playwright.
FairSpec == Spec /\ Fairness

\* Playwright settles every tool call it makes.
ResponsiveSpec == FairSpec /\ \A t \in Tabs : WF_vars(Executes(t))

-----------------------------------------------------------------------------
\* The state of each part stays what its code keeps: in particular the counts of
\* busy tabs, the queues and the answers of both sides (background.ts,
\* native-host.ts pendingBrowserOperations, playwright.ts).
TypeOK == ChannelsTypeOK /\ CompanionTypeOK /\ BackgroundTypeOK /\ HostTypeOK

\* An acting call reaches a page only with the person's leave: by a grant,
\* the person allowed the card of that very call, naming that very action on
\* that tab; by an allowance, the person allowed the origin it acts on, on that tab
\* for that task, and the action is none an allowance may cover
\* (background.ts settleApproval, playwright.ts execute).
ActsOnlyWithConsent ==
  \A r \in ran : r.call \in Acting =>
    \/ /\ r.by = "grant"
       /\ decision[r.call] \in Allowing
       /\ tabOf[r.call] = r.tab
       /\ cardPage[r.call] = r.page
    \/ /\ r.by = "allowance"
       /\ <<r.call, r.page>> \notin OnceOnly
       /\ TaskOf[r.call] # NoTask
       /\ \E d \in Calls :
            /\ decision[d] = "allow-origin"
            /\ TaskOf[d] = TaskOf[r.call]
            /\ tabOf[d] = r.tab
            /\ <<d, cardPage[d]>> \notin OnceOnly
            /\ ActionOrigin[d][cardPage[d]] = ActionOrigin[r.call][r.page]

\* What a person sees of the calls.
Promise == INSTANCE Consent WITH
  answer <- decision,
  card   <- [c \in Calls |-> IF decision[c] = "none" THEN <<>> ELSE <<tabOf[c], cardPage[c]>>],
  done   <- {[call |-> r.call, tab |-> r.tab, page |-> r.page] : r \in {r \in ran : r.call \in Acting}}

\* The calls implement what they promise the person (module Consent): a call asks once, a
\* card is decided once, and a call acts once, never while its card is open or after it was
\* refused, with leave for that very action or for its origin (background.ts askPerson,
\* settleApproval; playwright.ts execute).
ConsentPromise == Promise!Spec

\* What the agent was told is true of the page: a call answered as refused,
\* denied, expired or not run never reached one, and one answered with a tool's
\* result did (background.ts settleApproval, finishAgentBrowserRequest).
AnswersAreTrue ==
  \A c \in Calls :
    /\ op[c] = "notRun" => \A r \in ran : r.call # c
    /\ op[c] = "ran" => \E r \in ran : r.call = c

\* A call whose cancellation reached the Playwright host sends no input from
\* then on: it is cut off if its tool was being called, and never starts if it
\* was being routed, waiting for a document, queued or checked (playwright.ts
\* `cancelled`, offscreen.ts and background.ts cancelledCalls).
StoppedCallSendsNoInput ==
  \A t \in Tabs : phase[t] = "running" => Current(t).call \notin stopped

\* A mark that a call was voided never outlives the call's routing, its wait
\* for a document, or its place in the queue (background.ts routingEnded,
\* offscreen.ts, the `finally` of playwright.ts).
MarksDieWithTheirCalls ==
  /\ cancelledCalls \subseteq RoutingCalls
  /\ surfaceCancelled \subseteq WaitingForSurface
  /\ hostCancelled \subseteq InFlight

\* The debugger of a tab is kept attached exactly while a call is being run on
\* the tab or a card is open on it: the count neither leaks nor is lost
\* (background.ts debuggerBusy, debuggerIdle).
BusyCountsWork ==
  \A t \in Tabs :
    busy[t] = Cardinality({c \in Calls : stage[c] \in {"prepare", "sent"} /\ tabOf[c] = t})
                + Cardinality(CardsOn(t))

\* A card that can still allow something belongs to a call whose caller still
\* waits, or whose cancellation is on its way.
CardHasCaller ==
  \A c \in OpenCards :
    \/ op[c] \in Waiting
    \/ \E i \in DOMAIN toExtension : toExtension[i] = Cancelled(c)

\* What a voided or settled call leaves behind goes with it: the marks in the
\* three places, and the card whose answer nobody would hear.
NothingOutlivesItsCall == MarksDieWithTheirCalls /\ CardHasCaller

\* While a card is open on a tab, no call starts on it.
\* It does not hold: the release after an approved re-run clears the hold of the next card.
NoStartUnderOpenCard == [][\A r \in ran' \ ran : CardsOn(r.tab) = {}]_vars

\* An approval is never lost on the way: the re-run of an allowed call finds
\* the offer of its grant in the host (background.ts askPerson before
\* settleApproval, offscreen.ts relaying both in order).
GrantFindsItsOffer ==
  \A t \in Tabs :
    MayBegin(t) /\ Current(t).grant => OfferOf(Current(t)) # {}

\* Every call the companion sends to the extension is settled for its caller,
\* whatever the page and the person do or fail to do, and without the
\* companion's own timers (background.ts CALL_TIMEOUT_MS, APPROVAL_WINDOW_MS).
Answered == \A c \in Calls : op[c] \in Waiting ~> op[c] \notin Waiting

\* A tab the host holds for a person's decision is released (background.ts
\* runOnTab and settleApproval, playwright.ts `awaiting`).
TabReleased == \A t \in Tabs : t \in awaiting ~> t \notin awaiting
=============================================================================
