----------------------------- MODULE Background -----------------------------
(***************************************************************************)
(* The extension's service worker (background.ts) as far as an agent's     *)
(* browser calls go: routing a call to the active tab, running it in the   *)
(* Playwright host, asking the person with a card, and voiding calls the   *)
(* agent stopped waiting for.                                              *)
(*                                                                         *)
(* A handler runs to its first await in one step; each await is the        *)
(* boundary between two actions, and `stage` is where the coroutine        *)
(* routeBrowserOperation / runBrowserOperation of a call stands.  A call   *)
(* has at most one such coroutine: the one of the approved re-run starts   *)
(* after the first one has returned.                                       *)
(***************************************************************************)
EXTENDS CallChannels

VARIABLES
  stage,           \* none | route | prepare | sent
  tabOf,           \* the tab a call was routed to
  cancelledCalls,  \* calls voided while they are being routed
  pending,         \* pendingAgentBrowserRequests: calls on the 30 s timer
  decision,        \* what became of the card of a call
  cardPage,        \* the action the card of a call names
  allowances,      \* origins the person allowed, per tab and task
  busy             \* operationsInFlight: why a tab's debugger stays attached

routing == <<stage, tabOf, cancelledCalls, pending>>
asking  == <<decision, cardPage>>
backgroundVars == <<routing, asking, allowances, busy>>

\* Decisions a person makes, those that let the call run, and all endings.
Allowing == {"approve", "allow-origin"}
Refusing == {"deny", "expired", "closed", "abandoned"}

BackgroundTypeOK ==
  /\ stage \in [Calls -> {"none", "route", "prepare", "sent"}]
  /\ tabOf \in [Calls -> Tabs \cup {NoTab}]
  /\ cancelledCalls \subseteq Calls
  /\ pending \subseteq Calls
  /\ decision \in [Calls -> {"none", "open"} \cup Allowing \cup Refusing]
  /\ cardPage \in [Calls -> Pages \cup {NoPage}]
  /\ allowances \in [Tabs -> [Tasks -> SUBSET Origins]]
  /\ busy \in [Tabs -> Nat]

BackgroundInit ==
  /\ stage = [c \in Calls |-> "none"]
  /\ tabOf = [c \in Calls |-> NoTab]
  /\ cancelledCalls = {}
  /\ pending = {}
  /\ decision = [c \in Calls |-> "none"]
  /\ cardPage = [c \in Calls |-> NoPage]
  /\ allowances = [t \in Tabs |-> [k \in Tasks |-> {}]]
  /\ busy = [t \in Tabs |-> 0]

\* routingCalls: from the request until the host has answered.
RoutingCalls == {c \in Calls : stage[c] # "none"}

\* Mutant: a card that was answered can be answered again.
OpenCards_Answered == {c \in Calls : decision[c] \in {"open"} \cup Allowing}

\* pendingApprovals, and the ones on a tab.
OpenCards == {c \in Calls : decision[c] = "open"}
CardsOn(t) == {c \in OpenCards : tabOf[c] = t}

\* A run that carries a grant is the re-run of a call whose card allowed it.
Granted(c) == decision[c] \in Allowing

DebuggerBusy(count, t) == [count EXCEPT ![t] = @ + 1]
\* Mutant: the count of a tab is deleted whatever remains.
DebuggerIdle_Deletes(count, t) == [count EXCEPT ![t] = 0]

DebuggerIdle(count, t) == [count EXCEPT ![t] = IF @ > 1 THEN @ - 1 ELSE 0]

Post(messages) == toHost' = toHost \o messages

\* nativePort?.postMessage: dropped without a port.
Answer(messages) ==
  /\ toCompanion' = IF connected THEN toCompanion \o messages ELSE toCompanion
  /\ UNCHANGED <<connected, toExtension>>

\* Mutant: a call's mark survives its routing.
RoutingEnded_KeepsMark(c) ==
  /\ stage' = [stage EXCEPT ![c] = "none"]
  /\ UNCHANGED cancelledCalls

\* routingEnded, with the coroutine over.
RoutingEnded(c) ==
  /\ stage' = [stage EXCEPT ![c] = "none"]
  /\ cancelledCalls' = cancelledCalls \ {c}

\* Mutant: only the host is told, not the call's own routing.
CancelInHost_NotMarked(c) == UNCHANGED cancelledCalls

\* cancelInHost: also a call still being routed must not start later.
CancelInHost(c) ==
  cancelledCalls' = IF c \in RoutingCalls THEN cancelledCalls \cup {c} ELSE cancelledCalls

-----------------------------------------------------------------------------
(* Routing *)

ReceiveRequest(c) ==
  /\ toExtension # <<>>
  /\ Head(toExtension) = Request(c)
  /\ toExtension' = Tail(toExtension)
  /\ stage' = [stage EXCEPT ![c] = "route"]
  /\ UNCHANGED <<connected, toCompanion, toHost, replies,
                 tabOf, cancelledCalls, pending, asking, allowances, busy>>

\* No offscreen document in this browser, no active tab, no content script in
\* it, or a page restored from the back/forward cache.
RouteRefused(c) ==
  /\ "unreachable" \in Events \/ openTabs = {}
  /\ stage[c] = "route"
  /\ RoutingEnded(c)
  /\ Answer(<<Response(c, "notRun")>>)
  /\ UNCHANGED <<toHost, replies, tabOf, pending, asking, allowances, busy>>

\* The person is deciding about an action on the active tab t.
RouteWhileDeciding(c, t) ==
  /\ stage[c] = "route"
  /\ t \in openTabs
  /\ CardsOn(t) # {}
  /\ RoutingEnded(c)
  /\ Answer(<<Response(c, "notRun")>>)
  /\ UNCHANGED <<toHost, replies, tabOf, pending, asking, allowances, busy>>

\* runOnTab up to its first await: the call's timer starts.
StartRun(c, t) ==
  /\ stage' = [stage EXCEPT ![c] = "prepare"]
  /\ pending' = pending \cup {c}

RouteToTab(c, t) ==
  /\ stage[c] = "route"
  /\ t \in openTabs
  /\ CardsOn(t) = {}
  /\ tabOf' = [tabOf EXCEPT ![c] = t]
  /\ StartRun(c, t)
  /\ busy' = DebuggerBusy(busy, t)
  /\ UNCHANGED <<nativeChannels, hostChannels, cancelledCalls, asking, allowances>>

-----------------------------------------------------------------------------
(* Running *)

\* driverFor: a page whose policy forbids eval is driven over chrome.debugger,
\* and so is any later page of the tab while that debugger stays attached.
Drivers(t) ==
  IF page[t] \in DebuggerPages THEN {"debugger"}
  ELSE IF DebuggerPages = {} THEN {"surface"} ELSE {"surface", "debugger"}

\* allowedOrigins, read as the call is sent: an allowance unused for too long
\* is dropped on the way.  A caller without a task has none.
SendOperation(c) ==
  LET t == tabOf[c]
      task == TaskOf[c]
      send(allowed) ==
        \E via \in Drivers(t) :
          Post(<<[type |-> "operation", call |-> c, tab |-> t, via |-> via,
                  grant |-> Granted(c), allowed |-> allowed]>>)
  IN /\ stage[c] = "prepare"
     /\ c \notin cancelledCalls
     /\ stage' = [stage EXCEPT ![c] = "sent"]
     /\ \/ /\ task = NoTask
           /\ send({})
           /\ UNCHANGED allowances
        \/ /\ task # NoTask
           /\ \E fresh \in SUBSET allowances[t][task] :
                 /\ send(fresh)
                 /\ allowances' = [allowances EXCEPT ![t][task] = fresh]
     /\ UNCHANGED <<nativeChannels, replies, tabOf, cancelledCalls, pending, asking, busy>>

\* `if (cancelled(id)) return`, after the host and the driver were awaited.
DropCancelled(c) ==
  /\ stage[c] = "prepare"
  /\ c \in cancelledCalls
  /\ RoutingEnded(c)
  /\ busy' = DebuggerIdle(busy, tabOf[c])
  /\ UNCHANGED <<nativeChannels, hostChannels, tabOf, pending, asking, allowances>>

\* finishAgentBrowserRequest, and the release of the tab that precedes it.
FinishRun(c, released, outcome) ==
  /\ RoutingEnded(c)
  /\ busy' = DebuggerIdle(busy, tabOf[c])
  /\ Post(IF released THEN <<ApprovalSettled(tabOf[c])>> ELSE <<>>)
  /\ Answer(IF c \in pending THEN <<Response(c, outcome)>> ELSE <<>>)
  /\ pending' = pending \ {c}
  /\ UNCHANGED <<tabOf, asking, allowances>>

\* The offscreen document could not be created.
HostUnavailable(c) ==
  /\ "unreachable" \in Events
  /\ stage[c] = "prepare"
  /\ FinishRun(c, Granted(c), "notRun")
  /\ UNCHANGED replies

\* Mutant: a card opens for a call that already ended.
Asks_Anyway(c, r) ==
  /\ r.kind = "approval"
  /\ ~Granted(c)
  /\ c \in AcceptsPending

\* Whether the host's answer r to call c becomes a card.
Asks(c, r) ==
  /\ r.kind = "approval"
  /\ ~Granted(c)
  /\ c \in pending
  /\ c \in AcceptsPending

\* Mutant: a refusal that becomes no card leaves the tab held.
HostAnswered_NoRelease(c, r) ==
  /\ stage[c] = "sent"
  /\ r \in replies
  /\ r.call = c
  /\ ~Asks(c, r)
  /\ replies' = replies \ {r}
  /\ FinishRun(c, Granted(c), IF r.kind = "ran" THEN "ran" ELSE "notRun")

\* Mutant: a caller that cannot wait is sent the host's own answer.
HostAnswered_Raw(c, r) ==
  /\ stage[c] = "sent"
  /\ r \in replies
  /\ r.call = c
  /\ ~Asks(c, r)
  /\ replies' = replies \ {r}
  /\ FinishRun(c, Granted(c) \/ r.kind = "approval", r.kind)

\* The host answered: the call is over.
HostAnswered(c, r) ==
  /\ stage[c] = "sent"
  /\ r \in replies
  /\ r.call = c
  /\ ~Asks(c, r)
  /\ replies' = replies \ {r}
  /\ FinishRun(c, Granted(c) \/ r.kind = "approval",
               IF r.kind = "ran" THEN "ran" ELSE "notRun")

\* The host refused for want of consent and the caller can wait: askPerson.
AskPerson(c, r) ==
  LET t == tabOf[c] IN
  /\ stage[c] = "sent"
  /\ r \in replies
  /\ r.call = c
  /\ Asks(c, r)
  /\ replies' = replies \ {r}
  /\ RoutingEnded(c)
  /\ pending' = pending \ {c}
  /\ decision' = [decision EXCEPT ![c] = "open"]
  /\ cardPage' = [cardPage EXCEPT ![c] = r.page]
  /\ busy' = DebuggerBusy(DebuggerIdle(busy, t), t)
  /\ Post(<<GrantOffer(c, t, r.page)>>)
  /\ Answer(<<Pending(c)>>)
  /\ UNCHANGED <<tabOf, allowances>>

\* Mutant: the agent is told that nothing ran.
CallTimeout_SaysNotRun(c) ==
  /\ "call timeout" \in Events
  /\ c \in pending
  /\ pending' = pending \ {c}
  /\ CancelInHost(c)
  /\ Post(<<OperationCancel(c)>>)
  /\ Answer(<<Response(c, "notRun")>>)
  /\ UNCHANGED <<replies, stage, tabOf, asking, allowances, busy>>

\* The page did not answer in 30 seconds.
CallTimeout(c) ==
  /\ "call timeout" \in Events
  /\ c \in pending
  /\ pending' = pending \ {c}
  /\ CancelInHost(c)
  /\ Post(<<OperationCancel(c)>>)
  /\ Answer(<<Response(c, "unknown")>>)
  /\ UNCHANGED <<replies, stage, tabOf, asking, allowances, busy>>

-----------------------------------------------------------------------------
(* The person's answer *)

\* Mutant: the card's nonce is revoked whatever the answer.
Allow_Revokes(c, answer) ==
  LET t == tabOf[c] IN
  /\ c \in OpenCards
  /\ t \in openTabs
  /\ decision' = [decision EXCEPT ![c] = answer]
  /\ Answer(<<Pending(c)>>)
  /\ Post(<<GrantRevoke(c)>>)
  /\ StartRun(c, t)
  /\ busy' = DebuggerBusy(DebuggerIdle(busy, t), t)
  /\ UNCHANGED <<replies, tabOf, cancelledCalls, cardPage, allowances>>

\* settleApproval, Allow once or Allow on <origin>: the one call runs again,
\* with the card's grant.
Allow(c, answer) ==
  LET t == tabOf[c]
      task == TaskOf[c]
      installs == /\ answer = "allow-origin"
                  /\ task # NoTask
                  /\ <<c, cardPage[c]>> \notin OnceOnly
  IN /\ c \in OpenCards
     /\ t \in openTabs
     /\ decision' = [decision EXCEPT ![c] = answer]
     /\ allowances' =
          IF installs
          THEN [allowances EXCEPT ![t][task] = @ \cup {ActionOrigin[c][cardPage[c]]}]
          ELSE allowances
     /\ Answer(<<Pending(c)>>)
     /\ StartRun(c, t)
     /\ busy' = DebuggerBusy(DebuggerIdle(busy, t), t)
     /\ UNCHANGED <<hostChannels, tabOf, cancelledCalls, cardPage>>

\* The two messages settleApproval posts for each card it refuses.
Refusals(order, t) ==
  [i \in 1..2 * Len(order) |->
     IF i % 2 = 1 THEN GrantRevoke(order[(i + 1) \div 2]) ELSE ApprovalSettled(t)]

\* Mutant: every refused card is settled as if nobody waited.
Refuse_Silently(c, ending) ==
  /\ c \in OpenCards
  /\ decision' = [decision EXCEPT ![c] = ending]
  /\ busy' = DebuggerIdle(busy, tabOf[c])
  /\ Post(<<GrantRevoke(c), ApprovalSettled(tabOf[c])>>)
  /\ UNCHANGED <<nativeChannels, replies, routing, cardPage, allowances>>

\* settleApproval, for every other ending, of one card on tab t.
Refuse(c, ending) ==
  /\ c \in OpenCards
  /\ decision' = [decision EXCEPT ![c] = ending]
  /\ busy' = DebuggerIdle(busy, tabOf[c])
  /\ Post(<<GrantRevoke(c), ApprovalSettled(tabOf[c])>>)
  /\ Answer(<<Response(c, "notRun")>>)
  /\ UNCHANGED <<replies, routing, cardPage, allowances>>

Deny(c) == tabOf[c] \in openTabs /\ Refuse(c, "deny")

\* No answer in APPROVAL_WINDOW_MS.
Expire(c) == "card expiry" \in Events /\ Refuse(c, "expired")

\* browser-operation-cancelled: a card of the call is abandoned (nobody is
\* answered), its timer is dropped, and the host is told.
ReceiveCancelled(c) ==
  LET abandoned == c \in OpenCards IN
  /\ toExtension # <<>>
  /\ Head(toExtension) = Cancelled(c)
  /\ toExtension' = Tail(toExtension)
  /\ decision' = IF abandoned THEN [decision EXCEPT ![c] = "abandoned"] ELSE decision
  /\ busy' = IF abandoned THEN DebuggerIdle(busy, tabOf[c]) ELSE busy
  /\ pending' = pending \ {c}
  /\ CancelInHost(c)
  /\ Post(IF abandoned
          THEN <<GrantRevoke(c), ApprovalSettled(tabOf[c]), OperationCancel(c)>>
          ELSE <<OperationCancel(c)>>)
  /\ UNCHANGED <<connected, toCompanion, replies, stage, tabOf, cardPage, allowances>>

\* tabs.onRemoved: the tab's allowances end and its cards are refused, in the
\* order they were opened.
CloseTab(t) ==
  /\ "tab closes" \in Events
  /\ t \in openTabs
  /\ openTabs' = openTabs \ {t}
  /\ allowances' = [allowances EXCEPT ![t] = [k \in Tasks |-> {}]]
  /\ \E order \in [1..Cardinality(CardsOn(t)) -> CardsOn(t)] :
       /\ \A c \in CardsOn(t) : \E i \in DOMAIN order : order[i] = c
       /\ Post(<<TabClosed(t)>> \o Refusals(order, t))
       /\ Answer([i \in DOMAIN order |-> Response(order[i], "notRun")])
  /\ decision' = [c \in Calls |-> IF c \in CardsOn(t) THEN "closed" ELSE decision[c]]
  /\ busy' = [busy EXCEPT ![t] = IF @ > Cardinality(CardsOn(t))
                                 THEN @ - Cardinality(CardsOn(t)) ELSE 0]
  /\ UNCHANGED <<page, navigations, replies, routing, cardPage>>
=============================================================================
