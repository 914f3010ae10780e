-------------------------- MODULE BrowserCallsSafety --------------------------
(***************************************************************************)
(* Proofs about the browser calls (BrowserCalls), each for every number of *)
(* calls, tabs, pages, origins and tasks: first that an acting call needs  *)
(* the person's leave, then what the calls promise.                        *)
(***************************************************************************)
EXTENDS BrowserCalls, SequenceTheorems, FiniteSetTheorems, TLAPS

(***************************************************************************)
(* The types of BrowserCalls are kept, and an acting call reaches a page   *)
(* only with the person's leave: proofs of TypeOK and ActsOnlyWithConsent, *)
(* for any number of calls, tabs, pages, origins and tasks, and whatever   *)
(* events happen.                                                          *)
(*                                                                         *)
(* The person's decision is taken in the background and acted on in the    *)
(* Playwright host, two channels and a queue later.  The invariant follows *)
(* it there: every message, queued operation and offer on the way agrees   *)
(* with the cards as they stand NOW, and no step changes a card that       *)
(* something on the way depends on (CardsKept).                            *)
(***************************************************************************)

\* A call that was routed has a tab, and its card names an action.
CallsHaveTabs ==
  \A c \in Calls :
    /\ stage[c] \in {"prepare", "sent"} => tabOf[c] \in Tabs
    /\ decision[c] # "none" => tabOf[c] \in Tabs /\ cardPage[c] \in Pages

\* A tab on which a call is executed has that call at the head of its queue.
ExecutingHasCall ==
  \A t \in Tabs :
    /\ phase[t] # "idle" => queue[t] # <<>>
    /\ phase[t] = "confirming" => checked[t] \in Pages

\* The type invariant is not inductive by itself: the background addresses the
\* tab of a call, and the host the head of a queue, without testing that there
\* is one.
TypeInv == TypeOK /\ CallsHaveTabs /\ ExecutingHasCall

-----------------------------------------------------------------------------
(* The messages and queues *)

\* Every message a call can cause is one of its channel's messages.
LEMMA MessageTypes ==
  ASSUME NEW c \in Calls
  PROVE  /\ Request(c) \in ToExtension
         /\ Cancelled(c) \in ToExtension
         /\ Pending(c) \in ToCompanion
         /\ \A outcome \in Outcomes : Response(c, outcome) \in ToCompanion
         /\ \A t \in Tabs, p \in Pages : GrantOffer(c, t, p) \in Offer
         /\ \A t \in Tabs, p \in Pages : GrantOffer(c, t, p) \in ToHost
         /\ GrantRevoke(c) \in ToHost
         /\ OperationCancel(c) \in ToHost
  BY DEF Request, Cancelled, Pending, Response, GrantOffer, GrantRevoke, OperationCancel,
         ToExtension, ToCompanion, Offer, ToHost

\* So are the two messages about a tab.
LEMMA TabMessageTypes ==
  ASSUME NEW t \in Tabs
  PROVE  ApprovalSettled(t) \in ToHost /\ TabClosed(t) \in ToHost
  BY DEF ApprovalSettled, TabClosed, ToHost

\* What the host reads of a message it received.
LEMMA HostMessageFields ==
  ASSUME NEW m \in ToHost
  PROVE  /\ m.type = "operation" => m \in Operation
         /\ m.type = "grant-offer" => m \in Offer
         /\ m.type \in {"grant-revoke", "operation-cancel"} => m.call \in Calls
         /\ m.type \in {"approval-settled", "tab-closed"} => m.tab \in Tabs
  BY DEF ToHost, Operation, Offer

\* What a queue of operations is after one was added.
LEMMA AppendOperation ==
  ASSUME NEW q \in Seq(Operation), NEW m \in Operation
  PROVE  /\ Append(q, m) \in Seq(Operation)
         /\ Append(q, m) # <<>>
         /\ q # <<>> => Head(Append(q, m)) = Head(q)
         /\ \A i \in 1..Len(Append(q, m)) :
              Append(q, m)[i] = m \/ (i \in 1..Len(q) /\ Append(q, m)[i] = q[i])
<1>1. /\ Append(q, m) \in Seq(Operation)
      /\ Append(q, m) # <<>>
      /\ Len(Append(q, m)) = Len(q) + 1
      /\ \A i \in 1..Len(q) : Append(q, m)[i] = q[i]
      /\ Append(q, m)[Len(q) + 1] = m
  BY AppendProperties
<1>2. Len(q) \in Nat /\ (q # <<>> => 1 \in 1..Len(q))
  BY EmptySeq, LenProperties
<1> QED
  BY <1>1, <1>2

\* What a queue of operations is after its first was taken.
LEMMA TakeOperation ==
  ASSUME NEW q \in Seq(Operation), q # <<>>
  PROVE  /\ Head(q) \in Operation
         /\ Head(q).call \in Calls
         /\ Head(q) = q[1] /\ 1 \in 1..Len(q)
         /\ Tail(q) \in Seq(Operation)
         /\ \A i \in 1..Len(Tail(q)) : i + 1 \in 1..Len(q) /\ Tail(q)[i] = q[i + 1]
<1>1. Len(q) \in Nat /\ Len(q) # 0
  BY EmptySeq, LenProperties
<1>2. Head(q) \in Operation /\ Head(q) = q[1]
  BY <1>1, HeadTailProperties
<1>3. /\ Tail(q) \in Seq(Operation)
      /\ Len(Tail(q)) = Len(q) - 1
      /\ \A i \in 1..Len(Tail(q)) : Tail(q)[i] = q[i + 1]
  BY <1>1, HeadTailProperties
<1> QED
  BY <1>1, <1>2, <1>3 DEF Operation

\* The cards on a tab are finitely many, so they can be counted.
LEMMA CardsFinite ==
  ASSUME NEW t
  PROVE  /\ CardsOn(t) \subseteq Calls
         /\ IsFiniteSet(CardsOn(t))
         /\ Cardinality(CardsOn(t)) \in Nat
<1>1. CardsOn(t) \subseteq Calls
  BY DEF CardsOn, OpenCards
<1>2. IsFiniteSet(CardsOn(t))
  BY <1>1, FS_Subset, ConstantsAssumption
<1> QED
  BY <1>1, <1>2, FS_CardinalityType

\* What settleApproval posts for refused cards starts no operation and offers no grant.
LEMMA RefusalsType ==
  ASSUME NEW n \in Nat, NEW order \in [1..n -> Calls], NEW t \in Tabs
  PROVE  /\ Refusals(order, t) \in Seq(ToHost)
         /\ \A i \in 1..Len(Refusals(order, t)) :
              Refusals(order, t)[i].type \notin {"operation", "grant-offer"}
<1>1. order \in Seq(Calls) /\ Len(order) = n
  BY SeqDef
<1> DEFINE f == Refusals(order, t)
<1>2. ASSUME NEW i \in 1..2 * n, i % 2 = 1
      PROVE  (i + 1) \div 2 \in 1..n
  BY <1>2
<1>3. ASSUME NEW i \in 1..2 * n
      PROVE  /\ f[i] \in ToHost
             /\ f[i].type \notin {"operation", "grant-offer"}
  <2>1. CASE i % 2 = 1
    <3>1. order[(i + 1) \div 2] \in Calls
      BY <1>2, <2>1
    <3>2. f[i] = GrantRevoke(order[(i + 1) \div 2])
      BY <1>1, <2>1 DEF Refusals
    <3> QED
      BY <3>1, <3>2, MessageTypes DEF GrantRevoke
  <2>2. CASE i % 2 # 1
    <3>1. f[i] = ApprovalSettled(t)
      BY <1>1, <2>2 DEF Refusals
    <3> QED
      BY <3>1, TabMessageTypes DEF ApprovalSettled
  <2> QED
    BY <2>1, <2>2
<1>4. f \in [1..2 * n -> ToHost]
  BY <1>1, <1>3 DEF Refusals
<1>5. f \in Seq(ToHost) /\ Len(f) = 2 * n
  BY <1>4, SeqDef
<1> QED
  BY <1>3, <1>5

-----------------------------------------------------------------------------
(* One lemma per side of the system *)

\* What each side of the system keeps.
BackgroundSide == ChannelsTypeOK /\ BackgroundTypeOK /\ CallsHaveTabs
HostSide == ChannelsTypeOK /\ HostTypeOK /\ ExecutingHasCall

USE DEF ChannelsTypeOK, CompanionTypeOK, BackgroundTypeOK, HostTypeOK

\* The companion's steps, and the loss and return of the port, keep the types.
LEMMA TypeCompanion ==
  ASSUME TypeInv
  PROVE  /\ \A c \in Calls : DispatchStep(c) => TypeInv'
         /\ \A c \in Calls : AgentStopsStep(c) => TypeInv'
         /\ \A c \in Calls : CompanionTimeoutStep(c) => TypeInv'
         /\ PortLostStep => TypeInv'
         /\ ReconnectStep => TypeInv'
         /\ CompanionReceives => TypeInv'
<1> USE DEF CompanionOnly, nativeChannels, hostChannels, browserState, backgroundVars,
            routing, asking, hostVars, executing, Waiting, Unanswered,
            TypeInv, TypeOK, CallsHaveTabs, ExecutingHasCall
<1>1. \A c \in Calls : Request(c) \in ToExtension /\ Cancelled(c) \in ToExtension
  BY DEF Request, Cancelled, ToExtension
<1>2. ASSUME NEW c \in Calls
      PROVE  DispatchStep(c) => TypeInv'
  BY <1>1 DEF DispatchStep, Dispatch
<1>3. ASSUME NEW c \in Calls
      PROVE  GiveUp(c) /\ CompanionOnly => TypeInv'
  BY <1>1 DEF GiveUp
<1>4. PortLostStep => TypeInv'
  <2>1. ASSUME PortLost
        PROVE  op' \in [Calls -> {"idle"} \cup Waiting \cup Unanswered \cup Outcomes]
    BY <2>1 DEF PortLost
  <2>2. <<>> \in Seq(ToExtension) /\ <<>> \in Seq(ToCompanion)
    BY EmptySeq
  <2> QED
    BY <2>1, <2>2 DEF PortLostStep, PortLost
<1>5. ReconnectStep => TypeInv'
  BY DEF ReconnectStep, Reconnect
<1>6. CompanionReceives => TypeInv'
  <2> SUFFICES ASSUME CompanionReceives
               PROVE  TypeInv'
    OBVIOUS
  <2>1. toCompanion # <<>> => Tail(toCompanion) \in Seq(ToCompanion)
    BY HeadTailProperties
  <2>2. PICK d \in Calls : ReceivePending(d) \/ \E outcome \in Outcomes : ReceiveResponse(d, outcome)
    BY DEF CompanionReceives, ReceiveFromExtension
  <2>3. toCompanion' \in Seq(ToCompanion) /\ UNCHANGED <<connected, toExtension>>
    BY <2>1, <2>2 DEF ReceivePending, ReceiveResponse
  <2>4. op' \in [Calls -> {"idle"} \cup Waiting \cup Unanswered \cup Outcomes]
    BY <2>2 DEF ReceivePending, ReceiveResponse
  <2> QED
    BY <2>3, <2>4 DEF CompanionReceives
<1> QED
  BY <1>2, <1>3, <1>4, <1>5, <1>6
     DEF AgentStopsStep, AgentStops, CompanionTimeoutStep, CompanionTimeout

\* The helpers of the background's actions keep their variables' types.
LEMMA TypeOfHelpers ==
  ASSUME BackgroundSide
  PROVE  /\ \A ms \in Seq(ToHost) : Post(ms) => toHost' \in Seq(ToHost)
         /\ \A ms \in Seq(ToCompanion) : Answer(ms) =>
              /\ toCompanion' \in Seq(ToCompanion)
              /\ UNCHANGED <<connected, toExtension>>
         /\ \A c \in Calls : CancelInHost(c) => cancelledCalls' \subseteq Calls
         /\ \A c \in Calls : RoutingEnded(c) =>
              /\ stage' \in [Calls -> {"none", "route", "prepare", "sent"}]
              /\ cancelledCalls' \subseteq Calls
         /\ \A count \in [Tabs -> Nat], t \in Tabs :
              /\ DebuggerBusy(count, t) \in [Tabs -> Nat]
              /\ DebuggerIdle(count, t) \in [Tabs -> Nat]
<1> USE DEF BackgroundSide
<1>1. \A ms \in Seq(ToHost) : Post(ms) => toHost' \in Seq(ToHost)
  BY ConcatProperties DEF Post
<1>2. \A ms \in Seq(ToCompanion) : Answer(ms) =>
        /\ toCompanion' \in Seq(ToCompanion)
        /\ UNCHANGED <<connected, toExtension>>
  <2> SUFFICES ASSUME NEW ms \in Seq(ToCompanion), Answer(ms)
               PROVE  toCompanion' \in Seq(ToCompanion)
    BY DEF Answer
  <2>1. toCompanion \o ms \in Seq(ToCompanion)
    BY ConcatProperties
  <2> QED
    BY <2>1 DEF Answer
<1>3. \A c \in Calls : CancelInHost(c) => cancelledCalls' \subseteq Calls
  BY DEF CancelInHost
<1>4. \A c \in Calls : RoutingEnded(c) =>
        /\ stage' \in [Calls -> {"none", "route", "prepare", "sent"}]
        /\ cancelledCalls' \subseteq Calls
  BY DEF RoutingEnded
<1>5. \A count \in [Tabs -> Nat], t \in Tabs :
        /\ DebuggerBusy(count, t) \in [Tabs -> Nat]
        /\ DebuggerIdle(count, t) \in [Tabs -> Nat]
  BY DEF DebuggerBusy, DebuggerIdle
<1> QED
  BY <1>1, <1>2, <1>3, <1>4, <1>5

\* Taking a request up keeps the background's types.
LEMMA TypeReceiveRequest ==
  ASSUME BackgroundSide, NEW c \in Calls, UNCHANGED browserState, ReceiveRequest(c)
  PROVE  BackgroundSide'
<1>1. toExtension # <<>> => Tail(toExtension) \in Seq(ToExtension)
  BY HeadTailProperties DEF BackgroundSide
<1> QED
  BY <1>1 DEF ReceiveRequest, BackgroundSide, CallsHaveTabs, browserState, asking

\* So does routing a call, to a tab or to a refusal.
LEMMA TypeRouting ==
  ASSUME BackgroundSide, NEW c \in Calls, UNCHANGED browserState
  PROVE  /\ RouteRefused(c) => BackgroundSide'
         /\ \A t \in Tabs : RouteWhileDeciding(c, t) => BackgroundSide'
         /\ \A t \in Tabs : RouteToTab(c, t) => BackgroundSide'
<1> USE DEF nativeChannels, hostChannels, browserState, routing, asking, BackgroundSide,
            CallsHaveTabs
<1>1. <<Response(c, "notRun")>> \in Seq(ToCompanion)
  BY MessageTypes DEF Outcomes
<1>3. RoutingEnded(c) /\ UNCHANGED <<tabOf, asking>> => CallsHaveTabs'
  BY DEF RoutingEnded
<1>4. RouteRefused(c) => BackgroundSide'
  BY <1>1, <1>3, TypeOfHelpers DEF RouteRefused
<1>5. ASSUME NEW t \in Tabs
      PROVE  RouteWhileDeciding(c, t) => BackgroundSide'
  BY <1>1, <1>3, TypeOfHelpers DEF RouteWhileDeciding
<1>6. ASSUME NEW t \in Tabs
      PROVE  RouteToTab(c, t) => BackgroundSide'
  <2> SUFFICES ASSUME RouteToTab(c, t)
               PROVE  BackgroundSide'
    OBVIOUS
  <2>1. busy' \in [Tabs -> Nat]
    BY TypeOfHelpers DEF RouteToTab
  <2>2. ChannelsTypeOK' /\ BackgroundTypeOK'
    BY <2>1 DEF RouteToTab, StartRun
  <2>3. CallsHaveTabs'
    BY DEF RouteToTab, StartRun
  <2> QED
    BY <2>2, <2>3
<1> QED
  BY <1>4, <1>5, <1>6

\* So does sending a call to the host, whichever allowances are still fresh.
LEMMA TypeSend ==
  ASSUME BackgroundSide, NEW c \in Calls, UNCHANGED browserState, SendOperation(c)
  PROVE  BackgroundSide'
<1> USE DEF BackgroundSide
<1> DEFINE t == tabOf[c]
           task == TaskOf[c]
           m(allowed, via) == [type |-> "operation", call |-> c, tab |-> t, via |-> via,
                               grant |-> Granted(c), allowed |-> allowed]
<1>1. t \in Tabs /\ task \in Tasks \cup {NoTask}
  BY ConstantsAssumption DEF SendOperation, CallsHaveTabs
<1>2. PICK allowed, via :
        /\ Post(<<m(allowed, via)>>)
        /\ via \in {"surface", "debugger"}
        /\ \/ allowed = {} /\ UNCHANGED allowances
           \/ /\ task # NoTask
              /\ allowed \subseteq allowances[t][task]
              /\ allowances' = [allowances EXCEPT ![t][task] = allowed]
  BY DEF SendOperation, Drivers
<1>3. allowed \subseteq Origins /\ allowances' \in [Tabs -> [Tasks -> SUBSET Origins]]
  <2>1. CASE allowed = {} /\ UNCHANGED allowances
    BY <2>1
  <2>2. CASE /\ task # NoTask
             /\ allowed \subseteq allowances[t][task]
             /\ allowances' = [allowances EXCEPT ![t][task] = allowed]
    <3>1. task \in Tasks /\ allowances[t] \in [Tasks -> SUBSET Origins]
      BY <1>1, <2>2
    <3>2. allowed \subseteq Origins
      BY <2>2, <3>1
    <3>3. [allowances[t] EXCEPT ![task] = allowed] \in [Tasks -> SUBSET Origins]
      BY <3>1, <3>2
    <3> QED
      BY <1>1, <2>2, <3>2, <3>3
  <2> QED
    BY <1>2, <2>1, <2>2
<1>4. m(allowed, via) \in ToHost
  BY <1>1, <1>2, <1>3 DEF ToHost, Operation, Granted
<1>5. toHost' \in Seq(ToHost)
  <2>1. <<m(allowed, via)>> \in Seq(ToHost)
    BY <1>4
  <2> QED
    BY <2>1, <1>2, TypeOfHelpers
<1>6. ChannelsTypeOK' /\ BackgroundTypeOK'
  BY <1>3, <1>5 DEF SendOperation, nativeChannels, browserState, asking
<1>7. CallsHaveTabs'
  BY DEF SendOperation, CallsHaveTabs, asking
<1> QED
  BY <1>6, <1>7

\* So does finishAgentBrowserRequest with the release of the tab.
LEMMA TypeFinish ==
  ASSUME BackgroundSide, NEW c \in Calls, NEW released \in BOOLEAN,
         NEW outcome \in Outcomes, UNCHANGED browserState, stage[c] \in {"prepare", "sent"},
         FinishRun(c, released, outcome), replies' \subseteq Reply
  PROVE  BackgroundSide'
<1> USE DEF BackgroundSide
<1>1. tabOf[c] \in Tabs
  BY DEF CallsHaveTabs
<1>2. busy' \in [Tabs -> Nat]
  BY <1>1, TypeOfHelpers DEF FinishRun
<1>3. toHost' \in Seq(ToHost)
  <2> DEFINE ms == IF released THEN <<ApprovalSettled(tabOf[c])>> ELSE <<>>
  <2>1. ms \in Seq(ToHost)
    BY <1>1, TabMessageTypes
  <2> QED
    BY <2>1, TypeOfHelpers DEF FinishRun
<1>4. toCompanion' \in Seq(ToCompanion) /\ UNCHANGED <<connected, toExtension>>
  <2> DEFINE ms == IF c \in pending THEN <<Response(c, outcome)>> ELSE <<>>
  <2>1. ms \in Seq(ToCompanion)
    BY <1>1, MessageTypes
  <2> QED
    BY <2>1, TypeOfHelpers DEF FinishRun
<1>5. ChannelsTypeOK' /\ BackgroundTypeOK'
  BY <1>2, <1>3, <1>4, TypeOfHelpers DEF FinishRun, browserState, asking
<1>6. CallsHaveTabs'
  BY DEF FinishRun, RoutingEnded, CallsHaveTabs, asking
<1> QED
  BY <1>5, <1>6

\* So does every other step of a call that is being run.
LEMMA TypeRunning ==
  ASSUME BackgroundSide, NEW c \in Calls, NEW r, UNCHANGED browserState
  PROVE  /\ DropCancelled(c) => BackgroundSide'
         /\ HostUnavailable(c) => BackgroundSide'
         /\ HostAnswered(c, r) => BackgroundSide'
         /\ AskPerson(c, r) => BackgroundSide'
         /\ CallTimeout(c) => BackgroundSide'
<1> USE DEF nativeChannels, hostChannels, browserState, routing, asking, BackgroundSide
<1>1. stage[c] \in {"prepare", "sent"} => tabOf[c] \in Tabs
  BY DEF CallsHaveTabs
<1>2. DropCancelled(c) => BackgroundSide'
  <2> SUFFICES ASSUME DropCancelled(c)
               PROVE  BackgroundSide'
    OBVIOUS
  <2>1. busy' \in [Tabs -> Nat]
    BY <1>1, TypeOfHelpers DEF DropCancelled
  <2>2. ChannelsTypeOK' /\ BackgroundTypeOK'
    BY <2>1, TypeOfHelpers DEF DropCancelled
  <2>3. CallsHaveTabs'
    BY DEF DropCancelled, RoutingEnded, CallsHaveTabs
  <2> QED
    BY <2>2, <2>3
<1>3. HostUnavailable(c) => BackgroundSide'
  <2>1. Granted(c) \in BOOLEAN /\ "notRun" \in Outcomes
    BY DEF Granted, Outcomes
  <2>2. HostUnavailable(c) =>
          /\ FinishRun(c, Granted(c), "notRun")
          /\ stage[c] = "prepare"
          /\ replies' \subseteq Reply
    BY DEF HostUnavailable
  <2> HIDE DEF BackgroundSide
  <2> QED
    BY <2>1, <2>2, TypeFinish
<1>4. HostAnswered(c, r) => BackgroundSide'
  <2> SUFFICES ASSUME HostAnswered(c, r)
               PROVE  BackgroundSide'
    OBVIOUS
  <2>1. replies' \subseteq Reply
    BY DEF HostAnswered
  <2> DEFINE released == Granted(c) \/ r.kind = "approval"
             outcome  == IF r.kind = "ran" THEN "ran" ELSE "notRun"
  <2>2. released \in BOOLEAN /\ outcome \in Outcomes
    BY DEF Granted, Outcomes
  <2>3. FinishRun(c, released, outcome) /\ stage[c] = "sent"
    BY DEF HostAnswered
  <2> HIDE DEF released, outcome
  <2> QED
    BY <2>1, <2>2, <2>3, TypeFinish
<1>5. AskPerson(c, r) => BackgroundSide'
  <2> SUFFICES ASSUME AskPerson(c, r)
               PROVE  BackgroundSide'
    OBVIOUS
  <2>1. r.page \in Pages /\ tabOf[c] \in Tabs
    BY <1>1 DEF AskPerson, Asks, Reply
  <2>2. busy' \in [Tabs -> Nat]
    BY <2>1, TypeOfHelpers DEF AskPerson
  <2>3. toHost' \in Seq(ToHost)
    <3>1. <<GrantOffer(c, tabOf[c], r.page)>> \in Seq(ToHost)
      BY <2>1, MessageTypes
    <3> QED
      BY <3>1, TypeOfHelpers DEF AskPerson
  <2>4. toCompanion' \in Seq(ToCompanion) /\ UNCHANGED <<connected, toExtension>>
    <3>1. <<Pending(c)>> \in Seq(ToCompanion)
      BY <2>1, MessageTypes
    <3> QED
      BY <3>1, TypeOfHelpers DEF AskPerson
  <2>5. ChannelsTypeOK' /\ BackgroundTypeOK'
    BY <2>1, <2>2, <2>3, <2>4, TypeOfHelpers DEF AskPerson
  <2>6. CallsHaveTabs'
    BY <2>1 DEF AskPerson, RoutingEnded, CallsHaveTabs
  <2> QED
    BY <2>5, <2>6
<1>6. CallTimeout(c) => BackgroundSide'
  <2> SUFFICES ASSUME CallTimeout(c)
               PROVE  BackgroundSide'
    OBVIOUS
  <2>1. toHost' \in Seq(ToHost)
    <3>1. <<OperationCancel(c)>> \in Seq(ToHost)
      BY MessageTypes
    <3> QED
      BY <3>1, TypeOfHelpers DEF CallTimeout
  <2>2. toCompanion' \in Seq(ToCompanion) /\ UNCHANGED <<connected, toExtension>>
    <3>1. <<Response(c, "unknown")>> \in Seq(ToCompanion)
      BY MessageTypes DEF Outcomes
    <3> QED
      BY <3>1, TypeOfHelpers DEF CallTimeout
  <2>3. ChannelsTypeOK' /\ BackgroundTypeOK'
    BY <2>1, <2>2, TypeOfHelpers DEF CallTimeout
  <2>4. CallsHaveTabs'
    BY DEF CallTimeout, CallsHaveTabs
  <2> QED
    BY <2>3, <2>4
<1> QED
  BY <1>2, <1>3, <1>4, <1>5, <1>6

\* So does an answer that lets a call run again.
LEMMA TypeAllow ==
  ASSUME BackgroundSide, NEW c \in Calls, NEW answer \in Allowing, UNCHANGED browserState,
         Allow(c, answer)
  PROVE  BackgroundSide'
<1> USE DEF BackgroundSide
<1> DEFINE t == tabOf[c]
           task == TaskOf[c]
<1>1. t \in Tabs /\ cardPage[c] \in Pages /\ decision[c] = "open"
  BY DEF Allow, OpenCards, CallsHaveTabs
<1>2. allowances' \in [Tabs -> [Tasks -> SUBSET Origins]]
  <2>1. CASE task = NoTask
    BY <2>1 DEF Allow
  <2>2. CASE task # NoTask
    <3>1. task \in Tasks /\ ActionOrigin[c][cardPage[c]] \in Origins
      BY <1>1, <2>2, ConstantsAssumption
    <3>2. allowances[t] \in [Tasks -> SUBSET Origins]
      BY <1>1
    <3>3. [allowances[t] EXCEPT ![task] = @ \cup {ActionOrigin[c][cardPage[c]]}]
            \in [Tasks -> SUBSET Origins]
      BY <3>1, <3>2
    <3> QED
      BY <1>1, <3>3 DEF Allow
  <2> QED
    BY <2>1, <2>2
<1>3. busy' \in [Tabs -> Nat]
  BY <1>1, TypeOfHelpers DEF Allow
<1>4. toCompanion' \in Seq(ToCompanion) /\ UNCHANGED <<connected, toExtension>>
  <2>1. <<Pending(c)>> \in Seq(ToCompanion)
    BY MessageTypes
  <2> QED
    BY <2>1, TypeOfHelpers DEF Allow
<1>5. ChannelsTypeOK' /\ BackgroundTypeOK'
  BY <1>1, <1>2, <1>3, <1>4 DEF Allow, StartRun, hostChannels, browserState
<1>6. CallsHaveTabs'
  BY <1>1 DEF Allow, StartRun, CallsHaveTabs
<1> QED
  BY <1>5, <1>6

\* So does every refusing end of a card.
LEMMA TypeRefuse ==
  ASSUME BackgroundSide, NEW c \in Calls, NEW ending \in Refusing, UNCHANGED browserState,
         Refuse(c, ending)
  PROVE  BackgroundSide'
<1> USE DEF BackgroundSide
<1>1. tabOf[c] \in Tabs /\ decision[c] = "open"
  BY DEF Refuse, OpenCards, CallsHaveTabs
<1>2. busy' \in [Tabs -> Nat]
  BY <1>1, TypeOfHelpers DEF Refuse
<1>3. toHost' \in Seq(ToHost)
  <2>1. <<GrantRevoke(c), ApprovalSettled(tabOf[c])>> \in Seq(ToHost)
    BY <1>1, MessageTypes, TabMessageTypes
  <2> QED
    BY <2>1, TypeOfHelpers DEF Refuse
<1>4. toCompanion' \in Seq(ToCompanion) /\ UNCHANGED <<connected, toExtension>>
  <2>1. <<Response(c, "notRun")>> \in Seq(ToCompanion)
    BY MessageTypes DEF Outcomes
  <2> QED
    BY <2>1, TypeOfHelpers DEF Refuse
<1>5. ChannelsTypeOK' /\ BackgroundTypeOK'
  BY <1>2, <1>3, <1>4 DEF Refuse, browserState, routing
<1>6. CallsHaveTabs'
  BY <1>1 DEF Refuse, CallsHaveTabs, routing
<1> QED
  BY <1>5, <1>6

\* So does the cancellation of a call, with a card or without.
LEMMA TypeCancelled ==
  ASSUME BackgroundSide, NEW c \in Calls, UNCHANGED browserState, ReceiveCancelled(c)
  PROVE  BackgroundSide'
<1> USE DEF BackgroundSide
<1>1. c \in OpenCards => tabOf[c] \in Tabs
  BY DEF OpenCards, CallsHaveTabs
<1>2. busy' \in [Tabs -> Nat]
  BY <1>1, TypeOfHelpers DEF ReceiveCancelled
<1>3. toHost' \in Seq(ToHost)
  <2> DEFINE ms == IF c \in OpenCards
                   THEN <<GrantRevoke(c), ApprovalSettled(tabOf[c]), OperationCancel(c)>>
                   ELSE <<OperationCancel(c)>>
  <2>1. ms \in Seq(ToHost)
    BY <1>1, MessageTypes, TabMessageTypes
  <2> QED
    BY <2>1, TypeOfHelpers DEF ReceiveCancelled
<1>4. toExtension # <<>> => Tail(toExtension) \in Seq(ToExtension)
  BY HeadTailProperties
<1>5. ChannelsTypeOK' /\ BackgroundTypeOK'
  BY <1>2, <1>3, <1>4, TypeOfHelpers DEF ReceiveCancelled, browserState, Refusing
<1>6. CallsHaveTabs'
  BY <1>1 DEF ReceiveCancelled, CallsHaveTabs, OpenCards
<1> QED
  BY <1>5, <1>6

\* So does closing a tab, which refuses all its cards at once.
LEMMA TypeCloseTab ==
  ASSUME BackgroundSide, NEW t \in Tabs, CloseTab(t)
  PROVE  BackgroundSide'
<1> USE DEF BackgroundSide
<1> DEFINE n == Cardinality(CardsOn(t))
<1>1. n \in Nat /\ CardsOn(t) \subseteq Calls
  BY CardsFinite
<1>2. PICK order \in [1..n -> CardsOn(t)] :
        /\ Post(<<TabClosed(t)>> \o Refusals(order, t))
        /\ Answer([i \in DOMAIN order |-> Response(order[i], "notRun")])
  BY DEF CloseTab
<1>3. order \in [1..n -> Calls]
  BY <1>1, <1>2
<1>4. toHost' \in Seq(ToHost)
  <2>1. Refusals(order, t) \in Seq(ToHost)
    BY <1>1, <1>3, RefusalsType
  <2>2. <<TabClosed(t)>> \in Seq(ToHost)
    BY TabMessageTypes
  <2>3. <<TabClosed(t)>> \o Refusals(order, t) \in Seq(ToHost)
    BY <2>1, <2>2, ConcatProperties
  <2> QED
    BY <1>2, <2>3, TypeOfHelpers
<1>5. toCompanion' \in Seq(ToCompanion) /\ UNCHANGED <<connected, toExtension>>
  <2> DEFINE ms == [i \in DOMAIN order |-> Response(order[i], "notRun")]
  <2>1. ms \in [1..n -> ToCompanion]
    BY <1>3, MessageTypes DEF Outcomes
  <2> HIDE DEF ms, n
  <2>2. ms \in Seq(ToCompanion)
    BY <1>1, <2>1, SeqDef
  <2> QED
    BY <1>2, <2>2, TypeOfHelpers DEF ms, n
<1>6. busy' \in [Tabs -> Nat]
  <2>1. busy' = [busy EXCEPT ![t] = IF @ > n THEN @ - n ELSE 0]
    BY DEF CloseTab
  <2> HIDE DEF n
  <2> QED
    BY <1>1, <2>1
<1>7. allowances' \in [Tabs -> [Tasks -> SUBSET Origins]]
  <2>1. [k \in Tasks |-> {}] \in [Tasks -> SUBSET Origins]
    OBVIOUS
  <2> QED
    BY <2>1 DEF CloseTab
<1>8. decision' \in [Calls -> {"none", "open"} \cup Allowing \cup Refusing]
  BY DEF CloseTab, Refusing
<1>9. ChannelsTypeOK' /\ BackgroundTypeOK'
  BY <1>4, <1>5, <1>6, <1>7, <1>8 DEF CloseTab, routing
<1>10. CallsHaveTabs'
  BY DEF CloseTab, CallsHaveTabs, routing, CardsOn, OpenCards
<1> QED
  BY <1>9, <1>10

\* What a received message leaves of the channel.
LEMMA TypeReceive ==
  ASSUME HostSide, NEW m, Receive(m)
  PROVE  m \in ToHost /\ toHost' \in Seq(ToHost)
  BY HeadTailProperties DEF HostSide, Receive

\* Handling a message keeps the host's types.
LEMMA TypeHostReceives ==
  ASSUME HostSide, HostReceives
  PROVE  HostSide'
<1> USE DEF HostSide
<1>1. PICK m : \/ ReceiveOperation(m)
               \/ ReceiveOffer(m)
               \/ ReceiveRevoke(m)
               \/ ReceiveCancel(m)
               \/ ReceiveSettled(m)
  BY DEF HostReceives
<1>2. Receive(m)
  BY <1>1 DEF ReceiveOperation, ReceiveOffer, ReceiveRevoke, ReceiveCancel, ReceiveSettled
<1>3. m \in ToHost /\ toHost' \in Seq(ToHost)
  BY <1>2, TypeReceive
<1>4. UNCHANGED <<nativeChannels, browserState>>
  BY DEF HostReceives, HostOnly
<1>5. UNCHANGED replies => ChannelsTypeOK'
  BY <1>3, <1>4 DEF nativeChannels, browserState
<1>6. ASSUME ReceiveOperation(m)
      PROVE  HostSide'
  <2>1. m \in Operation /\ m.tab \in Tabs
    BY <1>3, <1>6, HostMessageFields DEF ReceiveOperation, Operation
  <2>2. \A q \in Seq(Operation) : Append(q, m) \in Seq(Operation) /\ Append(q, m) # <<>>
    BY <2>1, AppendOperation
  <2>3. HostTypeOK'
    <3>1. /\ [queue EXCEPT ![m.tab] = Append(@, m)] \in [Tabs -> Seq(Operation)]
          /\ [surfaceWait EXCEPT ![m.tab] = Append(@, m)] \in [Tabs -> Seq(Operation)]
      BY <2>1, <2>2
    <3>2. queue' \in [Tabs -> Seq(Operation)] /\ surfaceWait' \in [Tabs -> Seq(Operation)]
      BY <1>6, <3>1 DEF ReceiveOperation
    <3> QED
      BY <1>6, <3>2 DEF ReceiveOperation
  <2>4. ExecutingHasCall'
    BY <1>6, <2>1, <2>2 DEF ReceiveOperation, ExecutingHasCall
  <2> QED
    BY <1>5, <1>6, <2>3, <2>4 DEF ReceiveOperation
<1>7. ASSUME ReceiveOffer(m)
      PROVE  HostSide'
  BY <1>3, <1>5, <1>7, HostMessageFields DEF ReceiveOffer, executing, ExecutingHasCall
<1>8. ASSUME ReceiveRevoke(m)
      PROVE  HostSide'
  BY <1>3, <1>5, <1>8 DEF ReceiveRevoke, executing, ExecutingHasCall
<1>9. ASSUME ReceiveCancel(m)
      PROVE  HostSide'
  <2>1. m.call \in Calls
    BY <1>3, <1>9, HostMessageFields DEF ReceiveCancel
  <2>2. phase' \in [Tabs -> Phases]
    BY <1>9 DEF ReceiveCancel, Phases
  <2>3. HostTypeOK'
    BY <1>9, <2>1, <2>2 DEF ReceiveCancel
  <2>4. ExecutingHasCall'
    BY <1>9 DEF ReceiveCancel, RunningTabs, ExecutingHasCall
  <2> QED
    BY <1>5, <1>9, <2>3, <2>4 DEF ReceiveCancel
<1>10. ASSUME ReceiveSettled(m)
       PROVE  HostSide'
  BY <1>3, <1>5, <1>10 DEF ReceiveSettled, executing, ExecutingHasCall
<1> QED
  BY <1>1, <1>6, <1>7, <1>8, <1>9, <1>10

\* So does the end of a wait for a tab's document.
LEMMA TypeSurface ==
  ASSUME HostSide, NEW t \in Tabs, SurfaceStep(t)
  PROVE  HostSide'
<1> USE DEF HostSide
<1> DEFINE m == Head(surfaceWait[t])
<1>1. /\ m \in Operation
      /\ m.call \in Calls
      /\ Tail(surfaceWait[t]) \in Seq(Operation)
  <2>1. surfaceWait[t] \in Seq(Operation) /\ surfaceWait[t] # <<>>
    BY DEF SurfaceStep, SurfaceFound, SurfaceDropped
  <2> QED
    BY <2>1, TakeOperation
<1>2. UNCHANGED <<nativeChannels, browserState>>
  BY DEF SurfaceStep, HostOnly
<1>3. ASSUME SurfaceFound(t)
      PROVE  HostSide'
  <2>1. Append(queue[t], m) \in Seq(Operation) /\ Append(queue[t], m) # <<>>
    BY <1>1, AppendOperation
  <2>2. HostTypeOK'
    BY <1>1, <1>3, <2>1 DEF SurfaceFound
  <2>3. ExecutingHasCall'
    BY <1>3, <2>1 DEF SurfaceFound, ExecutingHasCall
  <2> QED
    BY <1>2, <1>3, <2>2, <2>3 DEF SurfaceFound, hostChannels, nativeChannels, browserState
<1>4. ASSUME SurfaceDropped(t)
      PROVE  HostSide'
  <2>1. [call |-> m.call, kind |-> "notRun"] \in Reply
    BY <1>1 DEF Reply
  <2>2. ChannelsTypeOK'
    BY <1>2, <1>4, <2>1 DEF SurfaceDropped, nativeChannels, browserState
  <2>3. HostTypeOK'
    BY <1>1, <1>4 DEF SurfaceDropped, executing
  <2>4. ExecutingHasCall'
    BY <1>4 DEF SurfaceDropped, ExecutingHasCall, executing
  <2> QED
    BY <2>2, <2>3, <2>4
<1> QED
  BY <1>3, <1>4 DEF SurfaceStep

\* execute returns: what is left of the tab's queue and state.
LEMMA TypeReturn ==
  ASSUME HostSide, NEW t \in Tabs, NEW answer \in Reply, queue[t] # <<>>, Return(t, answer),
         UNCHANGED <<nativeChannels, browserState, toHost, surfaceWait, surfaceCancelled, stopped>>,
         offers' \subseteq Offer, awaiting' \subseteq Tabs, ran' \subseteq Run
  PROVE  HostSide'
<1> USE DEF HostSide
<1>1. Head(queue[t]).call \in Calls /\ Tail(queue[t]) \in Seq(Operation)
  BY TakeOperation
<1>2. ChannelsTypeOK'
  BY DEF Return, nativeChannels, browserState
<1>3. HostTypeOK'
  BY <1>1 DEF Return, Phases
<1>4. ExecutingHasCall'
  BY DEF Return, ExecutingHasCall
<1> QED
  BY <1>2, <1>3, <1>4

\* So does returning from execute with nothing run.
LEMMA TypeReturnNotRun ==
  ASSUME HostSide, NEW t \in Tabs, queue[t] # <<>>, ReturnNotRun(t),
         UNCHANGED <<nativeChannels, browserState, toHost, surfaceWait, surfaceCancelled, stopped>>,
         offers' \subseteq Offer, awaiting' \subseteq Tabs, ran' \subseteq Run
  PROVE  HostSide'
<1>1. [call |-> Current(t).call, kind |-> "notRun"] \in Reply
  BY TakeOperation DEF Reply, HostSide, Current
<1> QED
  BY <1>1, TypeReturn DEF ReturnNotRun

\* So does calling a tool, or being stopped just before it.
LEMMA TypeStart ==
  ASSUME HostSide, NEW t \in Tabs, queue[t] # <<>>,
         NEW by \in {"reading", "grant", "allowance"}, NEW p \in Pages, Start(t, by, p),
         UNCHANGED <<nativeChannels, browserState>>
  PROVE  HostSide'
<1> DEFINE c == Current(t).call
<1>1. CASE c \in hostCancelled
  BY <1>1, TypeReturnNotRun DEF Start, HostSide
<1>2. CASE c \notin hostCancelled
  <2> USE DEF HostSide
  <2>1. c \in Calls
    BY TakeOperation DEF Current
  <2>2. [call |-> c, tab |-> t, page |-> p, by |-> by] \in Run
    BY <2>1 DEF Run
  <2>3. HostTypeOK'
    BY ZenonT(30), <1>2, <2>2 DEF Start, Phases
  <2>4. ExecutingHasCall'
    BY <1>2 DEF Start, ExecutingHasCall
  <2> QED
    BY <1>2, <2>3, <2>4 DEF Start, hostChannels, nativeChannels, browserState
<1> QED
  BY <1>1, <1>2

\* So does taking up the call at the head of a tab's queue.
LEMMA TypeBegins ==
  ASSUME HostSide, NEW t \in Tabs, Begins(t)
  PROVE  HostSide'
<1> USE DEF HostSide
<1>1. queue[t] # <<>> /\ UNCHANGED <<nativeChannels, browserState>>
  BY DEF Begins, BeginCancelled, BeginWithoutOffer, BeginHeld, Begin, MayBegin, HostOnly
<1>2. ASSUME BeginCancelled(t) \/ BeginWithoutOffer(t) \/ BeginHeld(t)
      PROVE  HostSide'
  <2> HIDE DEF HostSide
  <2>1. offers' \subseteq Offer /\ UNCHANGED <<awaiting, ran>>
    BY <1>2 DEF BeginCancelled, BeginWithoutOffer, BeginHeld, HostSide
  <2>2. /\ ReturnNotRun(t)
        /\ UNCHANGED <<toHost, surfaceWait, surfaceCancelled, stopped>>
    BY <1>2 DEF BeginCancelled, BeginWithoutOffer, BeginHeld
  <2>3. awaiting' \subseteq Tabs /\ ran' \subseteq Run
    BY <2>1 DEF HostSide
  <2> QED
    BY <1>1, <2>1, <2>2, <2>3, TypeReturnNotRun
<1>3. ASSUME Begin(t)
      PROVE  HostSide'
  <2>1. key' \in [Tabs -> Pages \cup {NoPage}]
    BY <1>3 DEF Begin, OfferOf, Offer
  <2>2. offers' \subseteq Offer /\ awaiting' \subseteq Tabs
    BY <1>3 DEF Begin
  <2>3. HostTypeOK'
    BY <1>3, <2>1, <2>2 DEF Begin, Phases
  <2>4. ExecutingHasCall'
    BY <1>1, <1>3 DEF Begin, ExecutingHasCall
  <2> QED
    BY <1>1, <1>3, <2>3, <2>4 DEF Begin, hostChannels, nativeChannels, browserState
<1> QED
  BY <1>2, <1>3 DEF Begins

\* So does every later step of execute.
LEMMA TypeExecutes ==
  ASSUME HostSide, NEW t \in Tabs, Checks(t) \/ Confirms(t) \/ Fails(t) \/ Finishes(t)
  PROVE  HostSide'
<1>1. queue[t] # <<>> /\ UNCHANGED <<nativeChannels, browserState>>
  BY DEF Checks, Confirms, Fails, Finishes, CheckReading, CheckAllowed, CheckMismatch,
         CheckRefused, ConfirmStale, Confirm, Unreachable, Finish, HostOnly, HostSide,
         ExecutingHasCall
<1>2. Current(t) \in Operation /\ Current(t).call \in Calls /\ page[t] \in Pages
  BY <1>1, TakeOperation DEF Current, HostSide
<1>3. /\ offers \subseteq Offer
      /\ awaiting \subseteq Tabs
      /\ ran \subseteq Run
  BY DEF HostSide
<1>4. ASSUME CheckMismatch(t) \/ ConfirmStale(t) \/ Unreachable(t)
      PROVE  HostSide'
  <2>1. /\ ReturnNotRun(t)
        /\ UNCHANGED <<toHost, surfaceWait, surfaceCancelled, offers, awaiting, ran, stopped>>
    BY <1>4 DEF CheckMismatch, ConfirmStale, Unreachable
  <2> QED
    BY <1>1, <1>3, <2>1, TypeReturnNotRun
<1>5. ASSUME CheckReading(t)
      PROVE  HostSide'
  BY <1>1, <1>2, <1>5, TypeStart DEF CheckReading
<1>6. ASSUME CheckAllowed(t)
      PROVE  HostSide'
  <2>1. HostTypeOK' /\ ExecutingHasCall'
    BY <1>1, <1>2, <1>6 DEF CheckAllowed, HostSide, ExecutingHasCall, Phases
  <2> QED
    BY <1>1, <1>6, <2>1 DEF CheckAllowed, HostSide, hostChannels, nativeChannels, browserState
<1>7. ASSUME CheckRefused(t)
      PROVE  HostSide'
  <2> DEFINE answer == [call |-> Current(t).call, kind |-> "approval", page |-> page[t]]
  <2>1. answer \in Reply
    BY <1>2 DEF Reply
  <2>2. /\ Return(t, answer)
        /\ awaiting' \subseteq Tabs
        /\ UNCHANGED <<toHost, surfaceWait, surfaceCancelled, offers, ran, stopped>>
    BY <1>3, <1>7 DEF CheckRefused
  <2> HIDE DEF answer
  <2> QED
    BY <1>1, <1>3, <2>1, <2>2, TypeReturn
<1>8. ASSUME Confirm(t)
      PROVE  HostSide'
  <2>1. checked[t] \in Pages
    BY <1>8 DEF Confirm, HostSide, ExecutingHasCall
  <2> QED
    BY <1>1, <1>8, <2>1, TypeStart DEF Confirm
<1>9. ASSUME Finish(t)
      PROVE  HostSide'
  <2> DEFINE answer == [call |-> Current(t).call, kind |-> "ran"]
  <2>1. answer \in Reply
    BY <1>2 DEF Reply
  <2>2. /\ Return(t, answer)
        /\ UNCHANGED <<toHost, surfaceWait, surfaceCancelled, offers, awaiting, ran, stopped>>
    BY <1>9 DEF Finish
  <2> HIDE DEF answer
  <2> QED
    BY <1>1, <1>3, <2>1, <2>2, TypeReturn
<1> QED
  BY <1>4, <1>5, <1>6, <1>7, <1>8, <1>9 DEF Checks, Confirms, Fails, Finishes

-----------------------------------------------------------------------------
(* The whole system *)

\* The initial states have the types.
LEMMA TypeInit ==
  ASSUME Init
  PROVE  TypeInv
<1>1. ChannelsTypeOK
  BY ConstantsAssumption, EmptySeq DEF Init, ChannelsInit
<1>2. CompanionTypeOK
  BY DEF Init, CompanionInit
<1>3. BackgroundTypeOK /\ CallsHaveTabs
  BY DEF Init, BackgroundInit, CallsHaveTabs
<1>4. HostTypeOK /\ ExecutingHasCall
  BY EmptySeq DEF Init, HostInit, Phases, ExecutingHasCall
<1> QED
  BY <1>1, <1>2, <1>3, <1>4 DEF TypeInv, TypeOK

\* A navigation keeps the types.
LEMMA TypeNavigate ==
  ASSUME TypeInv, NEW t \in Tabs, NEW p \in Pages, NavigateStep(t, p)
  PROVE  TypeInv'
<1>1. page' \in [Tabs -> Pages]
  BY DEF NavigateStep, Navigate, TypeInv, TypeOK
<1>2. navigations' \in 0..MaxNavigations
  BY ConstantsAssumption DEF NavigateStep, Navigate, TypeInv, TypeOK
<1>3. ChannelsTypeOK'
  BY <1>1, <1>2 DEF NavigateStep, Navigate, TypeInv, TypeOK, nativeChannels, hostChannels
<1>4. CompanionTypeOK' /\ BackgroundTypeOK' /\ CallsHaveTabs'
  BY DEF NavigateStep, TypeInv, TypeOK, backgroundVars, routing, asking, CallsHaveTabs
<1>5. HostTypeOK' /\ ExecutingHasCall'
  BY DEF NavigateStep, TypeInv, TypeOK, hostVars, executing, ExecutingHasCall
<1> QED
  BY <1>3, <1>4, <1>5 DEF TypeInv, TypeOK

\* A step of the background leaves the other two sides' types alone.
LEMMA TypeFromBackground ==
  ASSUME TypeInv, BackgroundSide', UNCHANGED <<op, hostVars>>
  PROVE  TypeInv'
<1>1. CompanionTypeOK' /\ HostTypeOK' /\ ExecutingHasCall'
  BY DEF TypeInv, TypeOK, hostVars, executing, ExecutingHasCall
<1> QED
  BY <1>1 DEF TypeInv, TypeOK, BackgroundSide

\* A step of the host leaves the other two sides' types alone.
LEMMA TypeFromHost ==
  ASSUME TypeInv, HostSide', UNCHANGED <<op, backgroundVars>>
  PROVE  TypeInv'
<1>1. CompanionTypeOK' /\ BackgroundTypeOK' /\ CallsHaveTabs'
  BY DEF TypeInv, TypeOK, backgroundVars, routing, asking, CallsHaveTabs
<1> QED
  BY <1>1 DEF TypeInv, TypeOK, HostSide

\* A stuttering step keeps the types.
LEMMA TypeStutter ==
  ASSUME TypeInv, UNCHANGED vars
  PROVE  TypeInv'
  BY DEF vars, nativeChannels, hostChannels, browserState, backgroundVars, routing, asking,
         hostVars, executing, TypeInv, TypeOK, CallsHaveTabs, ExecutingHasCall

\* Every step keeps the types.
LEMMA TypeStep ==
  ASSUME TypeInv, Next
  PROVE  TypeInv'
<1>1. BackgroundSide /\ HostSide
  BY DEF TypeInv, TypeOK, BackgroundSide, HostSide
<1>2. ASSUME NEW c \in Calls,
             DispatchStep(c) \/ AgentStopsStep(c) \/ CompanionTimeoutStep(c)
      PROVE  TypeInv'
  BY <1>2, TypeCompanion
<1>3. ASSUME CompanionReceives \/ PortLostStep \/ ReconnectStep
      PROVE  TypeInv'
  BY <1>3, TypeCompanion
<1>4. ASSUME BackgroundReceives
      PROVE  TypeInv'
  <2>1. PICK c \in Calls : ReceiveRequest(c) \/ ReceiveCancelled(c)
    BY <1>4 DEF BackgroundReceives
  <2>2. BackgroundOnly
    BY <1>4 DEF BackgroundReceives
  <2>3. UNCHANGED browserState
    BY <2>2 DEF BackgroundOnly
  <2>4. BackgroundSide'
    BY <1>1, <2>1, <2>3, TypeReceiveRequest, TypeCancelled
  <2> QED
    BY <2>2, <2>4, TypeFromBackground DEF BackgroundOnly
<1>5. ASSUME NEW c \in Calls,
             \/ Routes(c) \/ Prepares(c) \/ HostReplies(c)
             \/ CallTimeoutStep(c) \/ ExpireStep(c) \/ DenyStep(c)
             \/ \E answer \in Allowing : AllowStep(c, answer)
      PROVE  TypeInv'
  <2>1. BackgroundOnly
    BY <1>5 DEF Routes, Prepares, HostReplies, CallTimeoutStep, ExpireStep, DenyStep, AllowStep
  <2>2. UNCHANGED browserState
    BY <2>1 DEF BackgroundOnly
  <2>3. ASSUME Routes(c)
        PROVE  BackgroundSide'
    BY <1>1, <2>2, <2>3, TypeRouting DEF Routes
  <2>4. ASSUME Prepares(c)
        PROVE  BackgroundSide'
    BY <1>1, <2>2, <2>4, TypeSend, TypeRunning DEF Prepares
  <2>5. ASSUME HostReplies(c) \/ CallTimeoutStep(c)
        PROVE  BackgroundSide'
    BY <1>1, <2>2, <2>5, TypeRunning DEF HostReplies, CallTimeoutStep
  <2>6. ASSUME ExpireStep(c) \/ DenyStep(c)
        PROVE  BackgroundSide'
    BY <1>1, <2>2, <2>6, TypeRefuse DEF ExpireStep, Expire, DenyStep, Deny, Refusing
  <2>7. ASSUME \E answer \in Allowing : AllowStep(c, answer)
        PROVE  BackgroundSide'
    BY <1>1, <2>2, <2>7, TypeAllow DEF AllowStep
  <2>8. BackgroundSide'
    BY <1>5, <2>3, <2>4, <2>5, <2>6, <2>7
  <2> QED
    BY <2>1, <2>8, TypeFromBackground DEF BackgroundOnly
<1>6. ASSUME NEW t \in Tabs, CloseTabStep(t)
      PROVE  TypeInv'
  BY <1>1, <1>6, TypeCloseTab, TypeFromBackground DEF CloseTabStep
<1>7. ASSUME NEW t \in Tabs, NEW p \in Pages, NavigateStep(t, p)
      PROVE  TypeInv'
  BY <1>7, TypeNavigate
<1>8. ASSUME HostReceives
      PROVE  TypeInv'
  BY <1>1, <1>8, TypeHostReceives, TypeFromHost DEF HostReceives, HostOnly
<1>9. ASSUME NEW t \in Tabs, SurfaceStep(t)
      PROVE  TypeInv'
  BY <1>1, <1>9, TypeSurface, TypeFromHost DEF SurfaceStep, HostOnly
<1>10. ASSUME NEW t \in Tabs, Executes(t)
       PROVE  TypeInv'
  <2>1. HostSide'
    BY <1>1, <1>10, TypeBegins, TypeExecutes DEF Executes
  <2>2. HostOnly
    BY <1>10 DEF Executes, Begins, Checks, Confirms, Fails, Finishes
  <2> QED
    BY <2>1, <2>2, TypeFromHost DEF HostOnly
<1> QED
  BY <1>2, <1>3, <1>4, <1>5, <1>6, <1>7, <1>8, <1>9, <1>10 DEF Next

\* Every variable of the three programs and of the channels between them keeps
\* its type: in particular no operation leaves the background without a tab,
\* and the host never executes the head of an empty queue (background.ts
\* runOnTab, playwright.ts execute).
THEOREM TypeCorrect == Spec => []TypeOK
<1>1. Init => TypeInv
  BY TypeInit
<1>2. TypeInv /\ [Next]_vars => TypeInv'
  BY TypeStep, TypeStutter
<1>3. TypeInv => TypeOK
  BY DEF TypeInv
<1> HIDE DEF ChannelsTypeOK, CompanionTypeOK, BackgroundTypeOK, HostTypeOK
<1> QED
  BY <1>1, <1>2, <1>3, PTL DEF Spec

HIDE DEF ChannelsTypeOK, CompanionTypeOK, BackgroundTypeOK, HostTypeOK

-----------------------------------------------------------------------------
(* Consent *)

Members(q) == {q[i] : i \in 1..Len(q)}

\* The person allowed origin o on tab t for task k.
Consented(t, k, o) ==
  \E d \in Calls :
    /\ decision[d] = "allow-origin"
    /\ TaskOf[d] = k
    /\ tabOf[d] = t
    /\ <<d, cardPage[d]>> \notin OnceOnly
    /\ ActionOrigin[d][cardPage[d]] = o

\* What an operation carries was given to it by the person.
Honest(m) ==
  /\ tabOf[m.call] = m.tab
  /\ m.grant => decision[m.call] \in Allowing
  /\ \A o \in m.allowed :
       TaskOf[m.call] # NoTask /\ Consented(m.tab, TaskOf[m.call], o)

\* A grant names the action of the card of its call.
HonestOffer(o) ==
  /\ decision[o.call] # "none"
  /\ cardPage[o.call] = o.page

HonestMessage(m) ==
  /\ m.type = "operation" => Honest(m)
  /\ m.type = "grant-offer" => HonestOffer(m)

\* A request is handled once: until it is routed a call has no tab.
FreshRequests ==
  /\ \A c \in Calls : op[c] = "idle" =>
       /\ stage[c] = "none"
       /\ tabOf[c] = NoTab
       /\ \A i \in 1..Len(toExtension) : toExtension[i] # Request(c)
  /\ \A i \in 1..Len(toExtension) : toExtension[i].type = "request" =>
       /\ stage[toExtension[i].call] = "none"
       /\ tabOf[toExtension[i].call] = NoTab
       /\ \A j \in 1..Len(toExtension) : toExtension[j] = toExtension[i] => j = i
  /\ \A c \in Calls : stage[c] = "route" => tabOf[c] = NoTab

\* While a call runs it has no card, or one that allowed it.
CardsFollowCalls ==
  \A c \in Calls : stage[c] # "none" => decision[c] \in {"none"} \cup Allowing

AllowancesConsented ==
  \A t \in Tabs : \A k \in Tasks : \A o \in allowances[t][k] : Consented(t, k, o)

Posted == Members(toHost)

MessagesHonest == \A m \in Posted : HonestMessage(m)

\* The operations the offscreen document holds for tab t.
Queued(t) == Members(surfaceWait[t]) \cup Members(queue[t])

QueuesHonest == \A t \in Tabs : \A m \in Queued(t) : m.tab = t /\ Honest(m)

OffersHonest == \A o \in offers : HonestOffer(o)

\* What the host has established about the call it is executing on tab t.
ExecutionHonest ==
  \A t \in Tabs :
    /\ phase[t] = "checking" /\ Current(t).grant =>
         key[t] = cardPage[Current(t).call]
    /\ phase[t] = "confirming" =>
         IF Current(t).grant THEN checked[t] = cardPage[Current(t).call]
         ELSE Covered(Current(t), checked[t])

OnTheWay ==
  /\ AllowancesConsented
  /\ MessagesHonest
  /\ QueuesHonest
  /\ OffersHonest
  /\ ExecutionHonest
  /\ ActsOnlyWithConsent

ConsentInv == TypeInv /\ FreshRequests /\ CardsFollowCalls /\ OnTheWay

-----------------------------------------------------------------------------
(* What no step changes *)

\* A call keeps its tab, a card the action it names, and an approval stands.
CardsKept ==
  \A c \in Calls :
    /\ tabOf[c] # NoTab => tabOf'[c] = tabOf[c]
    /\ decision[c] # "none" => decision'[c] # "none" /\ cardPage'[c] = cardPage[c]
    /\ decision[c] \in Allowing => decision'[c] = decision[c]

\* A step that touches neither tabs of calls nor cards keeps the cards.
LEMMA UnchangedCardsKept ==
  ASSUME UNCHANGED <<tabOf, asking>>
  PROVE  CardsKept
  BY DEF CardsKept, asking

\* The facts the proofs below use of the types.
LEMMA Types ==
  ASSUME TypeInv
  PROVE  /\ toExtension \in Seq(ToExtension)
         /\ toHost \in Seq(ToHost)
         /\ stage \in [Calls -> {"none", "route", "prepare", "sent"}]
         /\ tabOf \in [Calls -> Tabs \cup {NoTab}]
         /\ decision \in [Calls -> {"none", "open"} \cup Allowing \cup Refusing]
         /\ cardPage \in [Calls -> Pages \cup {NoPage}]
         /\ allowances \in [Tabs -> [Tasks -> SUBSET Origins]]
         /\ surfaceWait \in [Tabs -> Seq(Operation)]
         /\ queue \in [Tabs -> Seq(Operation)]
         /\ offers \subseteq Offer
         /\ ran \subseteq Run
         /\ phase \in [Tabs -> Phases]
         /\ checked \in [Tabs -> Pages \cup {NoPage}]
         /\ key \in [Tabs -> Pages \cup {NoPage}]
         /\ page \in [Tabs -> Pages]
         /\ CallsHaveTabs
         /\ ExecutingHasCall
  BY DEF TypeInv, TypeOK, ChannelsTypeOK, BackgroundTypeOK, HostTypeOK

\* Consent to an origin outlives every step that keeps the cards.
LEMMA ConsentedKept ==
  ASSUME TypeInv, CardsKept, NEW t \in Tabs, NEW k, NEW o, Consented(t, k, o)
  PROVE  Consented(t, k, o)'
<1>1. PICK d \in Calls :
        /\ decision[d] = "allow-origin"
        /\ TaskOf[d] = k
        /\ tabOf[d] = t
        /\ <<d, cardPage[d]>> \notin OnceOnly
        /\ ActionOrigin[d][cardPage[d]] = o
  BY DEF Consented
<1>2. /\ decision'[d] = decision[d]
      /\ tabOf'[d] = tabOf[d]
      /\ cardPage'[d] = cardPage[d]
  BY <1>1, ConstantsAssumption DEF CardsKept, Allowing
<1> QED
  BY <1>1, <1>2 DEF Consented

\* So does the honesty of an operation, an offer and a message.
LEMMA HonestKept ==
  ASSUME TypeInv, CardsKept
  PROVE  /\ \A m \in Operation : Honest(m) => Honest(m)'
         /\ \A o \in Offer : HonestOffer(o) => HonestOffer(o)'
         /\ \A m \in ToHost : HonestMessage(m) => HonestMessage(m)'
<1>1. ASSUME NEW m \in Operation, Honest(m)
      PROVE  Honest(m)'
  <2>1. m.call \in Calls /\ m.tab \in Tabs
    BY DEF Operation
  <2>2. tabOf'[m.call] = m.tab
    BY <1>1, <2>1, ConstantsAssumption DEF Honest, CardsKept
  <2>3. m.grant => decision'[m.call] \in Allowing
    BY <1>1, <2>1 DEF Honest, CardsKept
  <2>4. \A o \in m.allowed : TaskOf[m.call] # NoTask /\ Consented(m.tab, TaskOf[m.call], o)'
    BY <1>1, <2>1, ConsentedKept DEF Honest
  <2> QED
    BY <2>2, <2>3, <2>4 DEF Honest
<1>2. ASSUME NEW o \in Offer, HonestOffer(o)
      PROVE  HonestOffer(o)'
  BY <1>2 DEF HonestOffer, CardsKept, Offer
<1>3. ASSUME NEW m \in ToHost, HonestMessage(m)
      PROVE  HonestMessage(m)'
  <2>1. m.type = "operation" => m \in Operation
    BY HostMessageFields
  <2>2. m.type = "grant-offer" => m \in Offer
    BY HostMessageFields
  <2> QED
    BY <1>1, <1>2, <1>3, <2>1, <2>2 DEF HonestMessage
<1> QED
  BY <1>1, <1>2, <1>3

\* RouteToTab is the only step that gives a call a tab, AskPerson the only one
\* that gives it a card, and only an open card changes.
LEMMA StepKeepsCards ==
  ASSUME TypeInv, FreshRequests, CardsFollowCalls, Next
  PROVE  CardsKept
<1> USE Types
<1>1. ASSUME NEW c \in Calls,
             DispatchStep(c) \/ AgentStopsStep(c) \/ CompanionTimeoutStep(c)
      PROVE  CardsKept
  BY <1>1, UnchangedCardsKept
     DEF DispatchStep, AgentStopsStep, CompanionTimeoutStep, CompanionOnly, backgroundVars, routing
<1>2. ASSUME CompanionReceives \/ PortLostStep \/ ReconnectStep
      PROVE  CardsKept
  BY <1>2, UnchangedCardsKept
     DEF CompanionReceives, PortLostStep, ReconnectStep, CompanionOnly, backgroundVars, routing
<1>3. ASSUME BackgroundReceives
      PROVE  CardsKept
  <2>1. PICK c \in Calls : ReceiveRequest(c) \/ ReceiveCancelled(c)
    BY <1>3 DEF BackgroundReceives
  <2>2. CASE ReceiveRequest(c)
    BY <2>2, UnchangedCardsKept DEF ReceiveRequest
  <2>3. CASE ReceiveCancelled(c)
    BY <2>3 DEF ReceiveCancelled, CardsKept, OpenCards, Allowing
  <2> QED
    BY <2>1, <2>2, <2>3
<1>4. ASSUME NEW c \in Calls, Routes(c)
      PROVE  CardsKept
  <2>1. ASSUME RouteRefused(c) \/ \E t \in Tabs : RouteWhileDeciding(c, t)
        PROVE  CardsKept
    BY <2>1, UnchangedCardsKept DEF RouteRefused, RouteWhileDeciding
  <2>2. ASSUME NEW t \in Tabs, RouteToTab(c, t)
        PROVE  CardsKept
    <3>1. tabOf[c] = NoTab
      BY <2>2 DEF RouteToTab, FreshRequests
    <3> QED
      BY <2>2, <3>1 DEF RouteToTab, CardsKept, asking
  <2> QED
    BY <1>4, <2>1, <2>2 DEF Routes
<1>5. ASSUME NEW c \in Calls, Prepares(c)
      PROVE  CardsKept
  BY <1>5, UnchangedCardsKept
     DEF Prepares, SendOperation, DropCancelled, HostUnavailable, FinishRun
<1>6. ASSUME NEW c \in Calls, HostReplies(c)
      PROVE  CardsKept
  <2>1. PICK r \in replies : HostAnswered(c, r) \/ AskPerson(c, r)
    BY <1>6 DEF HostReplies
  <2>2. CASE HostAnswered(c, r)
    BY <2>2, UnchangedCardsKept DEF HostAnswered, FinishRun
  <2>3. CASE AskPerson(c, r)
    <3>1. decision[c] = "none"
      BY <2>3 DEF AskPerson, Asks, Granted, CardsFollowCalls
    <3> QED
      BY <2>3, <3>1 DEF AskPerson, CardsKept, Allowing
  <2> QED
    BY <2>1, <2>2, <2>3
<1>7. ASSUME NEW c \in Calls, CallTimeoutStep(c)
      PROVE  CardsKept
  BY <1>7, UnchangedCardsKept DEF CallTimeoutStep, CallTimeout
<1>8. ASSUME NEW c \in Calls, ExpireStep(c) \/ DenyStep(c)
      PROVE  CardsKept
  <2>1. PICK ending \in Refusing : Refuse(c, ending)
    BY <1>8 DEF ExpireStep, Expire, DenyStep, Deny, Refusing
  <2> QED
    BY <2>1 DEF Refuse, OpenCards, CardsKept, Allowing, Refusing, routing
<1>9. ASSUME NEW c \in Calls, NEW answer \in Allowing, AllowStep(c, answer)
      PROVE  CardsKept
  BY <1>9 DEF AllowStep, Allow, OpenCards, CardsKept, Allowing
<1>10. ASSUME NEW t \in Tabs, CloseTabStep(t)
       PROVE  CardsKept
  BY <1>10 DEF CloseTabStep, CloseTab, CardsOn, OpenCards, CardsKept, Allowing, routing
<1>11. ASSUME NEW t \in Tabs, NEW p \in Pages, NavigateStep(t, p)
       PROVE  CardsKept
  BY <1>11, UnchangedCardsKept DEF NavigateStep, backgroundVars, routing
<1>12. ASSUME NEW t \in Tabs, SurfaceStep(t) \/ Executes(t)
       PROVE  CardsKept
  BY <1>12, UnchangedCardsKept
     DEF SurfaceStep, Executes, Begins, Checks, Confirms, Fails, Finishes, HostOnly,
         backgroundVars, routing
<1>13. ASSUME HostReceives
       PROVE  CardsKept
  BY <1>13, UnchangedCardsKept DEF HostReceives, HostOnly, backgroundVars, routing
<1> QED
  BY <1>1, <1>2, <1>3, <1>4, <1>5, <1>6, <1>7, <1>8, <1>9, <1>10, <1>11, <1>12, <1>13 DEF Next

-----------------------------------------------------------------------------
(* Requests and cards *)

\* A step that reads no request leaves them fresh unless it touches a call
\* that was never routed.
LEMMA FreshKept ==
  ASSUME TypeInv, FreshRequests, UNCHANGED <<op, toExtension>>,
         \A c \in Calls :
           /\ stage[c] = "none" /\ tabOf[c] = NoTab => stage'[c] = "none" /\ tabOf'[c] = NoTab
           /\ stage'[c] = "route" => stage[c] = "route" /\ tabOf'[c] = tabOf[c]
  PROVE  FreshRequests'
<1>1. \A i \in 1..Len(toExtension) : toExtension[i] \in ToExtension
  BY Types, ElementOfSeq
<1>2. \A i \in 1..Len(toExtension) : toExtension[i].call \in Calls
  BY <1>1 DEF ToExtension
<1> QED
  BY <1>2 DEF FreshRequests

\* The companion sends one request per call, so a request in the channel stays fresh.
LEMMA FreshCompanion ==
  ASSUME TypeInv, FreshRequests, UNCHANGED <<stage, tabOf>>,
         \/ \E c \in Calls : Dispatch(c) \/ GiveUp(c)
         \/ PortLost \/ Reconnect \/ ReceiveFromExtension
  PROVE  FreshRequests'
<1> DEFINE n == Len(toExtension)
<1>1. /\ toExtension \in Seq(ToExtension)
      /\ n \in Nat
      /\ \A i \in 1..n : toExtension[i] \in ToExtension
  BY Types, LenProperties, ElementOfSeq
<1>2. op \in [Calls -> {"idle"} \cup Waiting \cup Unanswered \cup Outcomes]
  BY DEF TypeInv, TypeOK, CompanionTypeOK
<1>3. ASSUME NEW c \in Calls, NEW m \in ToExtension, toExtension' = Append(toExtension, m),
             \/ m = Request(c) /\ op[c] = "idle"
             \/ m = Cancelled(c),
             \A d \in Calls : op'[d] = "idle" => op[d] = "idle" /\ d # c
      PROVE  FreshRequests'
  <2>1. /\ Len(toExtension') = n + 1
        /\ \A i \in 1..n : toExtension'[i] = toExtension[i]
        /\ toExtension'[n + 1] = m
    BY <1>1, <1>3, AppendProperties
  <2>2. m.call = c
    BY <1>3 DEF Request, Cancelled
  <2>3. \A i \in 1..n + 1 : i \in 1..n \/ i = n + 1
    BY <1>1
  <2>4. \A d \in Calls : d # c => m # Request(d)
    BY <2>2 DEF Request
  <2>5. ASSUME NEW d \in Calls, op'[d] = "idle"
        PROVE  /\ stage'[d] = "none"
               /\ tabOf'[d] = NoTab
               /\ \A i \in 1..n + 1 : toExtension'[i] # Request(d)
    BY <1>3, <2>1, <2>3, <2>4, <2>5 DEF FreshRequests
  <2>6. ASSUME NEW i \in 1..n + 1, toExtension'[i].type = "request"
        PROVE  /\ stage'[toExtension'[i].call] = "none"
               /\ tabOf'[toExtension'[i].call] = NoTab
               /\ \A j \in 1..n + 1 : toExtension'[j] = toExtension'[i] => j = i
    <3>1. CASE m = Cancelled(c)
      <4>1. m.type # "request"
        BY <3>1 DEF Cancelled
      <4> QED
        BY <1>1, <2>1, <2>3, <2>6, <4>1 DEF FreshRequests
    <3>2. CASE m = Request(c) /\ op[c] = "idle"
      <4>1. /\ stage[c] = "none"
            /\ tabOf[c] = NoTab
            /\ \A k \in 1..n : toExtension[k] # m
        BY <3>2 DEF FreshRequests
      <4> QED
        BY <1>1, <2>1, <2>2, <2>3, <2>6, <4>1 DEF FreshRequests
    <3> QED
      BY <1>3, <3>1, <3>2
  <2> QED
    BY <2>1, <2>5, <2>6 DEF FreshRequests
<1>4. ASSUME NEW c \in Calls, Dispatch(c)
      PROVE  FreshRequests'
  <2>1. \A d \in Calls : op'[d] = "idle" => op[d] = "idle" /\ d # c
    BY <1>2, <1>4 DEF Dispatch
  <2> QED
    BY <1>3, <1>4, <2>1, MessageTypes DEF Dispatch
<1>5. ASSUME NEW c \in Calls, GiveUp(c)
      PROVE  FreshRequests'
  <2>1. \A d \in Calls : op'[d] = "idle" => op[d] = "idle" /\ d # c
    BY <1>2, <1>5 DEF GiveUp
  <2> QED
    BY <1>3, <1>5, <2>1, MessageTypes DEF GiveUp
<1>6. ASSUME PortLost
      PROVE  FreshRequests'
  <2>1. Len(toExtension') = 0 /\ \A d \in Calls : op'[d] = "idle" => op[d] = "idle"
    BY <1>6, EmptySeq DEF PortLost
  <2> QED
    BY <2>1 DEF FreshRequests
<1>7. ASSUME Reconnect \/ ReceiveFromExtension
      PROVE  FreshRequests'
  <2>1. UNCHANGED toExtension /\ \A d \in Calls : op'[d] = "idle" => op[d] = "idle"
    BY <1>2, <1>7 DEF Reconnect, ReceiveFromExtension, ReceivePending, ReceiveResponse, Outcomes
  <2> QED
    BY <2>1 DEF FreshRequests
<1> QED
  BY <1>4, <1>5, <1>6, <1>7

\* The background handles the first of the companion's messages.
LEMMA FreshBackground ==
  ASSUME TypeInv, FreshRequests, BackgroundReceives
  PROVE  FreshRequests'
<1> DEFINE n == Len(toExtension)
<1>1. PICK c \in Calls : ReceiveRequest(c) \/ ReceiveCancelled(c)
  BY DEF BackgroundReceives
<1>2. toExtension # <<>> /\ toExtension' = Tail(toExtension) /\ UNCHANGED op
  BY <1>1 DEF BackgroundReceives, BackgroundOnly, ReceiveRequest, ReceiveCancelled
<1>3. /\ n \in Nat \ {0}
      /\ \A i \in 1..n : toExtension[i] \in ToExtension
      /\ Head(toExtension) = toExtension[1]
  BY <1>2, Types, EmptySeq, ElementOfSeq
<1>4. /\ Len(toExtension') = n - 1
      /\ \A i \in 1..n - 1 : toExtension'[i] = toExtension[i + 1]
  BY <1>2, Types, HeadTailProperties
<1>5. \A i \in 1..n - 1 : i + 1 \in 1..n /\ i + 1 # 1
  BY <1>3
<1>6. \A i \in 1..n : toExtension[i].call \in Calls
  BY <1>3 DEF ToExtension
<1>7. CASE ReceiveCancelled(c)
  <2>1. UNCHANGED <<stage, tabOf>>
    BY <1>7 DEF ReceiveCancelled
  <2> QED
    BY <1>2, <1>3, <1>4, <1>5, <2>1 DEF FreshRequests
<1>8. CASE ReceiveRequest(c)
  <2>1. /\ toExtension[1] = Request(c)
        /\ stage' = [stage EXCEPT ![c] = "route"]
        /\ UNCHANGED tabOf
    BY <1>3, <1>8 DEF ReceiveRequest
  <2>2. Request(c).type = "request" /\ Request(c).call = c /\ 1 \in 1..n
    BY <1>3 DEF Request
  <2>3. tabOf[c] = NoTab /\ \A j \in 1..n : toExtension[j] = Request(c) => j = 1
    BY <2>1, <2>2 DEF FreshRequests
  <2>4. \A i \in 1..n - 1 : toExtension'[i] # Request(c)
    BY <1>4, <1>5, <2>3
  <2>5. \A i \in 1..n - 1 : toExtension'[i].type = "request" => toExtension'[i].call # c
    <3> SUFFICES ASSUME NEW i \in 1..n - 1, toExtension'[i].type = "request",
                        toExtension'[i].call = c
                 PROVE  FALSE
      OBVIOUS
    <3>1. toExtension'[i] \in ToExtension
      BY <1>3, <1>4, <1>5
    <3>2. toExtension'[i] = Request(c)
      BY <3>1 DEF ToExtension, Request
    <3> QED
      BY <2>4, <3>2
  <2>6. op[c] # "idle"
    BY <2>1, <2>2 DEF FreshRequests
  <2>7. ASSUME NEW d \in Calls, op'[d] = "idle"
        PROVE  /\ stage'[d] = "none"
               /\ tabOf'[d] = NoTab
               /\ \A i \in 1..n - 1 : toExtension'[i] # Request(d)
    BY <1>2, <1>4, <1>5, <2>1, <2>6, <2>7 DEF FreshRequests
  <2>8. ASSUME NEW i \in 1..n - 1, toExtension'[i].type = "request"
        PROVE  /\ stage'[toExtension'[i].call] = "none"
               /\ tabOf'[toExtension'[i].call] = NoTab
               /\ \A j \in 1..n - 1 : toExtension'[j] = toExtension'[i] => j = i
    <3>1. toExtension'[i] = toExtension[i + 1] /\ i + 1 \in 1..n
      BY <1>4, <1>5
    <3>2. /\ stage[toExtension'[i].call] = "none"
          /\ tabOf[toExtension'[i].call] = NoTab
          /\ \A j \in 1..n : toExtension[j] = toExtension'[i] => j = i + 1
      BY <2>8, <3>1 DEF FreshRequests
    <3>3. \A j \in 1..n - 1 : toExtension'[j] = toExtension'[i] => j + 1 = i + 1
      BY <1>4, <1>5, <3>2
    <3>4. stage'[toExtension'[i].call] = stage[toExtension'[i].call]
      BY <1>6, <2>1, <2>5, <2>8, <3>1, Types
    <3> QED
      BY <1>3, <2>1, <3>2, <3>3, <3>4
  <2>9. ASSUME NEW d \in Calls, stage'[d] = "route"
        PROVE  tabOf'[d] = NoTab
    BY <2>1, <2>3, <2>9, Types DEF FreshRequests
  <2> QED
    BY <1>4, <2>7, <2>8, <2>9 DEF FreshRequests
<1> QED
  BY <1>1, <1>7, <1>8

\* Every step leaves the requests in the channel fresh.
LEMMA StepFresh ==
  ASSUME TypeInv, FreshRequests, CardsFollowCalls, Next
  PROVE  FreshRequests'
<1> USE Types
<1>1. ASSUME \/ \E c \in Calls : DispatchStep(c) \/ AgentStopsStep(c) \/ CompanionTimeoutStep(c)
             \/ CompanionReceives \/ PortLostStep \/ ReconnectStep
      PROVE  FreshRequests'
  BY <1>1, FreshCompanion
     DEF DispatchStep, AgentStopsStep, AgentStops, CompanionTimeoutStep, CompanionTimeout,
         CompanionReceives, PortLostStep, ReconnectStep, CompanionOnly, backgroundVars, routing
<1>2. ASSUME BackgroundReceives
      PROVE  FreshRequests'
  BY <1>2, FreshBackground
<1>3. ASSUME UNCHANGED <<op, toExtension, stage, tabOf>>
      PROVE  FreshRequests'
  BY <1>3, FreshKept
<1>4. ASSUME NEW c \in Calls, UNCHANGED <<op, toExtension, tabOf>>,
             NEW s \in {"none", "sent"}, stage' = [stage EXCEPT ![c] = s],
             stage[c] # "none"
      PROVE  FreshRequests'
  BY <1>4, FreshKept
<1>5. ASSUME NEW c \in Calls, Routes(c)
      PROVE  FreshRequests'
  <2>1. UNCHANGED <<op, toExtension>> /\ stage[c] = "route"
    BY <1>5 DEF Routes, BackgroundOnly, RouteRefused, RouteWhileDeciding, RouteToTab, Answer,
                nativeChannels
  <2>2. ASSUME RouteRefused(c) \/ \E t \in Tabs : RouteWhileDeciding(c, t)
        PROVE  FreshRequests'
    BY <1>4, <2>1, <2>2 DEF RouteRefused, RouteWhileDeciding, RoutingEnded
  <2>3. ASSUME NEW t \in Tabs, RouteToTab(c, t)
        PROVE  FreshRequests'
    BY <2>1, <2>3, FreshKept DEF RouteToTab, StartRun
  <2> QED
    BY <1>5, <2>2, <2>3 DEF Routes
<1>6. ASSUME NEW c \in Calls, Prepares(c)
      PROVE  FreshRequests'
  BY <1>4, <1>6
     DEF Prepares, BackgroundOnly, SendOperation, DropCancelled, HostUnavailable, FinishRun,
         RoutingEnded, Answer, nativeChannels
<1>7. ASSUME NEW c \in Calls, HostReplies(c)
      PROVE  FreshRequests'
  BY <1>4, <1>7
     DEF HostReplies, BackgroundOnly, HostAnswered, AskPerson, FinishRun, RoutingEnded, Answer
<1>8. ASSUME NEW c \in Calls, CallTimeoutStep(c) \/ ExpireStep(c) \/ DenyStep(c)
      PROVE  FreshRequests'
  BY <1>3, <1>8
     DEF CallTimeoutStep, CallTimeout, ExpireStep, Expire, DenyStep, Deny, Refuse, Answer,
         BackgroundOnly, routing
<1>9. ASSUME NEW c \in Calls, NEW answer \in Allowing, AllowStep(c, answer)
      PROVE  FreshRequests'
  <2>1. tabOf[c] # NoTab
    BY <1>9, ConstantsAssumption DEF AllowStep, Allow, OpenCards, CallsHaveTabs
  <2> QED
    BY <1>9, <2>1, FreshKept DEF AllowStep, Allow, StartRun, Answer, BackgroundOnly
<1>10. ASSUME NEW t \in Tabs, CloseTabStep(t)
       PROVE  FreshRequests'
  BY <1>3, <1>10 DEF CloseTabStep, CloseTab, Answer, routing
<1>11. ASSUME NEW t \in Tabs, NEW p \in Pages, NavigateStep(t, p)
       PROVE  FreshRequests'
  BY <1>3, <1>11 DEF NavigateStep, nativeChannels, backgroundVars, routing
<1>12. ASSUME \/ HostReceives
              \/ \E t \in Tabs : SurfaceStep(t) \/ Executes(t)
       PROVE  FreshRequests'
  BY <1>3, <1>12
     DEF HostReceives, SurfaceStep, Executes, Begins, Checks, Confirms, Fails, Finishes,
         HostOnly, nativeChannels, backgroundVars, routing
<1> QED
  BY <1>1, <1>2, <1>5, <1>6, <1>7, <1>8, <1>9, <1>10, <1>11, <1>12 DEF Next

\* A call starts to be routed without a card, and starts again only when its
\* card allows it.
LEMMA StepCards ==
  ASSUME TypeInv, FreshRequests, CardsFollowCalls, Next
  PROVE  CardsFollowCalls'
<1> USE Types DEF CardsFollowCalls
<1>1. ASSUME UNCHANGED <<stage, decision>>
      PROVE  CardsFollowCalls'
  BY <1>1
<1>2. ASSUME \/ \E c \in Calls : DispatchStep(c) \/ AgentStopsStep(c) \/ CompanionTimeoutStep(c)
             \/ CompanionReceives \/ PortLostStep \/ ReconnectStep
             \/ HostReceives
             \/ \E t \in Tabs : SurfaceStep(t) \/ Executes(t) \/ \E p \in Pages : NavigateStep(t, p)
      PROVE  CardsFollowCalls'
  BY <1>1, <1>2
     DEF DispatchStep, AgentStopsStep, CompanionTimeoutStep, CompanionReceives, PortLostStep,
         ReconnectStep, CompanionOnly, HostReceives, SurfaceStep, Executes, Begins, Checks,
         Confirms, Fails, Finishes, HostOnly, NavigateStep, backgroundVars, routing, asking
<1>3. ASSUME BackgroundReceives
      PROVE  CardsFollowCalls'
  <2>1. PICK c \in Calls : ReceiveRequest(c) \/ ReceiveCancelled(c)
    BY <1>3 DEF BackgroundReceives
  <2>2. CASE ReceiveRequest(c)
    <3>1. toExtension # <<>> /\ toExtension[1] = Request(c)
      BY <2>2 DEF ReceiveRequest
    <3>2. 1 \in 1..Len(toExtension)
      BY <3>1, EmptySeq
    <3>3. tabOf[c] = NoTab
      <4>1. Request(c).type = "request" /\ Request(c).call = c
        BY DEF Request
      <4> QED
        BY <3>1, <3>2, <4>1 DEF FreshRequests
    <3>4. decision[c] = "none"
      BY <3>3, ConstantsAssumption DEF CallsHaveTabs
    <3> QED
      BY <2>2, <3>4 DEF ReceiveRequest, asking
  <2>3. CASE ReceiveCancelled(c)
    BY <2>3 DEF ReceiveCancelled, OpenCards, Allowing
  <2> QED
    BY <2>1, <2>2, <2>3
<1>4. ASSUME NEW c \in Calls, UNCHANGED decision,
             NEW s, stage' = [stage EXCEPT ![c] = s], stage[c] # "none" \/ s = "none"
      PROVE  CardsFollowCalls'
  BY <1>4
<1>5. ASSUME NEW c \in Calls, Routes(c)
      PROVE  CardsFollowCalls'
  BY <1>4, <1>5 DEF Routes, RouteRefused, RouteWhileDeciding, RouteToTab, StartRun, RoutingEnded,
                    asking
<1>6. ASSUME NEW c \in Calls, Prepares(c)
      PROVE  CardsFollowCalls'
  BY <1>4, <1>6
     DEF Prepares, SendOperation, DropCancelled, HostUnavailable, FinishRun, RoutingEnded, asking
<1>7. ASSUME NEW c \in Calls, HostReplies(c)
      PROVE  CardsFollowCalls'
  BY <1>7 DEF HostReplies, HostAnswered, AskPerson, FinishRun, RoutingEnded, asking
<1>8. ASSUME NEW c \in Calls, CallTimeoutStep(c)
      PROVE  CardsFollowCalls'
  BY <1>1, <1>8 DEF CallTimeoutStep, CallTimeout, asking
<1>9. ASSUME NEW c \in Calls, ExpireStep(c) \/ DenyStep(c)
      PROVE  CardsFollowCalls'
  BY <1>9 DEF ExpireStep, Expire, DenyStep, Deny, Refuse, OpenCards, Allowing, routing
<1>10. ASSUME NEW c \in Calls, NEW answer \in Allowing, AllowStep(c, answer)
       PROVE  CardsFollowCalls'
  BY <1>10 DEF AllowStep, Allow, StartRun, Allowing
<1>11. ASSUME NEW t \in Tabs, CloseTabStep(t)
       PROVE  CardsFollowCalls'
  BY <1>11 DEF CloseTabStep, CloseTab, CardsOn, OpenCards, Allowing, routing
<1> QED
  BY <1>2, <1>3, <1>5, <1>6, <1>7, <1>8, <1>9, <1>10, <1>11 DEF Next

-----------------------------------------------------------------------------
(* What is on the way between a decision and the page *)

\* Allowances that only shrink stay backed by consent.
LEMMA AllowancesKept ==
  ASSUME TypeInv, AllowancesConsented, CardsKept,
         \A t \in Tabs : \A k \in Tasks : allowances'[t][k] \subseteq allowances[t][k]
  PROVE  AllowancesConsented'
<1> SUFFICES ASSUME NEW t \in Tabs, NEW k \in Tasks, NEW o \in allowances'[t][k]
             PROVE  Consented(t, k, o)'
  BY DEF AllowancesConsented
<1>1. Consented(t, k, o)
  BY DEF AllowancesConsented
<1> QED
  BY <1>1, ConsentedKept

\* Allow is the only step that adds an allowance, and the person's decision
\* is taken in the same step.
LEMMA AllowancesAllow ==
  ASSUME TypeInv, AllowancesConsented, CardsKept, NEW c \in Calls, NEW answer \in Allowing,
         Allow(c, answer)
  PROVE  AllowancesConsented'
<1> DEFINE tab == tabOf[c]
           task == TaskOf[c]
           installs == /\ answer = "allow-origin"
                       /\ task # NoTask
                       /\ <<c, cardPage[c]>> \notin OnceOnly
<1>1. CASE ~installs
  BY <1>1, AllowancesKept DEF Allow
<1>2. CASE installs
  <2>1. tab \in Tabs /\ task \in Tasks
    BY <1>2, Types, ConstantsAssumption DEF Allow, OpenCards, CallsHaveTabs
  <2>2. allowances' = [allowances EXCEPT ![tab][task] = @ \cup {ActionOrigin[c][cardPage[c]]}]
    BY <1>2 DEF Allow
  <2>3. /\ decision'[c] = "allow-origin"
        /\ tabOf'[c] = tab
        /\ cardPage'[c] = cardPage[c]
    BY <1>2, Types DEF Allow
  <2>4. ASSUME NEW t \in Tabs, NEW k \in Tasks
        PROVE  allowances'[t][k] =
                 IF t = tab /\ k = task
                 THEN allowances[t][k] \cup {ActionOrigin[c][cardPage[c]]} ELSE allowances[t][k]
    <3>1. allowances[tab] \in [Tasks -> SUBSET Origins]
      BY <2>1, Types
    <3>2. allowances'[t] =
            IF t = tab
            THEN [allowances[t] EXCEPT ![task] = @ \cup {ActionOrigin[c][cardPage[c]]}]
            ELSE allowances[t]
      BY <2>1, <2>2, Types
    <3> QED
      BY <2>1, <3>1, <3>2
  <2>5. ASSUME NEW t \in Tabs, NEW k \in Tasks, NEW o \in allowances'[t][k]
        PROVE  Consented(t, k, o)'
    <3>1. CASE o \in allowances[t][k]
      BY <3>1, ConsentedKept DEF AllowancesConsented
    <3>2. CASE o \notin allowances[t][k]
      <4>1. t = tab /\ k = task /\ o = ActionOrigin[c][cardPage[c]]
        BY ZenonT(30), <2>4, <3>2
      <4> QED
        BY <1>2, <2>3, <4>1 DEF Consented
    <3> QED
      BY <3>1, <3>2
  <2> QED
    BY <2>5 DEF AllowancesConsented
<1> QED
  BY <1>1, <1>2

\* Dropping allowances that went unused keeps the others backed by consent.
LEMMA AllowancesSend ==
  ASSUME TypeInv, AllowancesConsented, CardsKept, NEW c \in Calls, SendOperation(c)
  PROVE  AllowancesConsented'
<1>1. \A t \in Tabs : \A k \in Tasks : allowances'[t][k] \subseteq allowances[t][k]
  <2>1. CASE UNCHANGED allowances
    BY <2>1
  <2>2. ASSUME NEW fresh \in SUBSET allowances[tabOf[c]][TaskOf[c]],
               allowances' = [allowances EXCEPT ![tabOf[c]][TaskOf[c]] = fresh],
               NEW t \in Tabs, NEW k \in Tasks
        PROVE  allowances'[t][k] \subseteq allowances[t][k]
    <3>1. allowances[t] \in [Tasks -> SUBSET Origins]
      BY Types
    <3>2. allowances'[t] =
            IF t = tabOf[c] THEN [allowances[t] EXCEPT ![TaskOf[c]] = fresh] ELSE allowances[t]
      BY <2>2, Types
    <3> QED
      BY <2>2, <3>1, <3>2
  <2> QED
    BY <2>1, <2>2 DEF SendOperation
<1> QED
  BY <1>1, AllowancesKept

\* So does forgetting those of a closed tab.
LEMMA AllowancesCloseTab ==
  ASSUME TypeInv, AllowancesConsented, CardsKept, NEW t \in Tabs, CloseTab(t)
  PROVE  AllowancesConsented'
<1>1. \A u \in Tabs : \A k \in Tasks : allowances'[u][k] \subseteq allowances[u][k]
  BY Types DEF CloseTab
<1> QED
  BY <1>1, AllowancesKept

\* What a sequence holds after one more element.
LEMMA MembersAppend ==
  ASSUME NEW S, NEW q \in Seq(S), NEW m \in S
  PROVE  Members(Append(q, m)) = Members(q) \cup {m}
<1>1. /\ Len(Append(q, m)) = Len(q) + 1
      /\ \A i \in 1..Len(q) : Append(q, m)[i] = q[i]
      /\ Append(q, m)[Len(q) + 1] = m
  BY AppendProperties
<1>2. Len(q) \in Nat
  BY LenProperties
<1>3. /\ \A i \in 1..Len(q) + 1 : i \in 1..Len(q) \/ i = Len(q) + 1
      /\ Len(q) + 1 \in 1..Len(q) + 1
      /\ \A i \in 1..Len(q) : i \in 1..Len(q) + 1
  BY <1>2
<1> QED
  BY <1>1, <1>3 DEF Members

\* What a sequence holds, first and after the first was taken.
LEMMA MembersTail ==
  ASSUME NEW S, NEW q \in Seq(S), q # <<>>
  PROVE  /\ Members(q) \subseteq S
         /\ Head(q) \in Members(q)
         /\ Members(Tail(q)) \subseteq Members(q)
<1>1. Len(q) \in Nat \ {0} /\ Head(q) = q[1]
  BY EmptySeq
<1>2. /\ Len(Tail(q)) = Len(q) - 1
      /\ \A i \in 1..Len(Tail(q)) : Tail(q)[i] = q[i + 1]
  BY HeadTailProperties
<1>3. 1 \in 1..Len(q) /\ \A i \in 1..Len(q) - 1 : i + 1 \in 1..Len(q)
  BY <1>1
<1>4. Members(q) \subseteq S
  BY ElementOfSeq DEF Members
<1> QED
  BY <1>1, <1>2, <1>3, <1>4 DEF Members

\* What two sequences hold one after the other.
LEMMA MembersConcat ==
  ASSUME NEW S, NEW p \in Seq(S), NEW q \in Seq(S)
  PROVE  /\ Members(p) \subseteq S
         /\ Members(p \o q) \subseteq Members(p) \cup Members(q)
<1>1. Members(p) \subseteq S
  BY ElementOfSeq DEF Members
<1>2. Len(p) \in Nat /\ Len(q) \in Nat
  BY LenProperties
<1>3. ASSUME NEW i \in 1..Len(p \o q)
      PROVE  (p \o q)[i] \in Members(p) \cup Members(q)
  <2>1. (p \o q)[i] = IF i <= Len(p) THEN p[i] ELSE q[i - Len(p)]
    BY ConcatProperties
  <2>2. i <= Len(p) => i \in 1..Len(p)
    BY <1>2
  <2>3. ~(i <= Len(p)) => i - Len(p) \in 1..Len(q)
    BY <1>2, ConcatProperties
  <2> QED
    BY <2>1, <2>2, <2>3 DEF Members
<1> QED
  BY <1>1, <1>3 DEF Members

\* A channel to the host that gains nothing stays honest.
LEMMA MessagesKept ==
  ASSUME TypeInv, MessagesHonest, CardsKept, Posted' \subseteq Posted
  PROVE  MessagesHonest'
<1>1. Posted \subseteq ToHost
  BY Types, ElementOfSeq DEF Posted, Members
<1> QED
  BY <1>1, HonestKept DEF MessagesHonest

\* What the background posts joins the messages on the way.
LEMMA MessagesPost ==
  ASSUME TypeInv, MessagesHonest, CardsKept, NEW ms \in Seq(ToHost), Post(ms),
         \A m \in Members(ms) : HonestMessage(m)'
  PROVE  MessagesHonest'
<1>1. Posted \subseteq ToHost /\ Posted' \subseteq Posted \cup Members(ms)
  BY Types, MembersConcat DEF Posted, Post
<1> QED
  BY <1>1, HonestKept DEF MessagesHonest

\* What the background posts in one step: up to three messages.
LEMMA FewMessages ==
  /\ <<>> \in Seq(ToHost) /\ Members(<<>>) = {}
  /\ \A a \in ToHost : <<a>> \in Seq(ToHost) /\ Members(<<a>>) = {a}
  /\ \A a, b \in ToHost : <<a, b>> \in Seq(ToHost) /\ Members(<<a, b>>) = {a, b}
  /\ \A a, b, d \in ToHost :
       <<a, b, d>> \in Seq(ToHost) /\ Members(<<a, b, d>>) = {a, b, d}
  BY DEF Members

\* Messages other than operations and offers claim nothing.
LEMMA HonestByType ==
  ASSUME NEW m, m.type \notin {"operation", "grant-offer"}
  PROVE  HonestMessage(m)'
  BY DEF HonestMessage

\* An operation is sent with what the person allowed, read as it is sent.
LEMMA MessagesSend ==
  ASSUME TypeInv, AllowancesConsented, MessagesHonest, CardsKept, NEW c \in Calls,
         SendOperation(c)
  PROVE  MessagesHonest'
<1> DEFINE t == tabOf[c]
           task == TaskOf[c]
<1>1. t \in Tabs /\ task \in Tasks \cup {NoTask}
  BY Types, ConstantsAssumption DEF SendOperation, CallsHaveTabs
<1>2. PICK allowed, via :
        /\ Post(<<[type |-> "operation", call |-> c, tab |-> t, via |-> via,
                   grant |-> Granted(c), allowed |-> allowed]>>)
        /\ via \in {"surface", "debugger"}
        /\ allowed = {} \/ (task # NoTask /\ allowed \subseteq allowances[t][task])
  BY DEF SendOperation, Drivers
<1>3. PICK m : m = [type |-> "operation", call |-> c, tab |-> t, via |-> via,
                    grant |-> Granted(c), allowed |-> allowed]
  OBVIOUS
<1>4. /\ m.type = "operation" /\ m.call = c /\ m.tab = t
      /\ m.grant = Granted(c) /\ m.allowed = allowed
  BY <1>3
<1>5. m \in Operation
  <2>1. allowed \subseteq Origins
    BY <1>1, <1>2, Types
  <2> QED
    BY <1>1, <1>2, <1>3, <2>1 DEF Operation, Granted
<1>6. Honest(m)
  <2>1. \A o \in allowed : task # NoTask /\ Consented(t, task, o)
    BY <1>1, <1>2 DEF AllowancesConsented
  <2> QED
    BY <1>4, <2>1 DEF Honest, Granted
<1>7. HonestMessage(m)'
  <2>1. Honest(m)'
    BY <1>5, <1>6, HonestKept
  <2> QED
    BY <1>4, <2>1 DEF HonestMessage
<1>8. <<m>> \in Seq(ToHost) /\ Members(<<m>>) = {m}
  <2>1. m \in ToHost
    BY <1>5 DEF ToHost
  <2> QED
    BY <2>1, FewMessages
<1> QED
  BY <1>2, <1>3, <1>7, <1>8, MessagesPost

\* A card's grant is offered in the step that opens the card.
LEMMA MessagesAsk ==
  ASSUME TypeInv, MessagesHonest, CardsKept, NEW c \in Calls, NEW r \in replies, AskPerson(c, r)
  PROVE  MessagesHonest'
<1>1. tabOf[c] \in Tabs /\ r.page \in Pages
  BY Types DEF AskPerson, Asks, CallsHaveTabs, TypeInv, TypeOK, ChannelsTypeOK, Reply
<1>2. PICK m : m = GrantOffer(c, tabOf[c], r.page)
  OBVIOUS
<1>3. /\ m \in ToHost /\ m.type = "grant-offer" /\ m.call = c /\ m.page = r.page
  BY <1>1, <1>2, MessageTypes DEF GrantOffer
<1>4. decision'[c] = "open" /\ cardPage'[c] = r.page
  BY Types DEF AskPerson
<1>5. HonestMessage(m)'
  BY <1>3, <1>4 DEF HonestMessage, HonestOffer
<1>6. <<m>> \in Seq(ToHost) /\ Members(<<m>>) = {m} /\ Post(<<m>>)
  BY <1>2, <1>3, FewMessages DEF AskPerson
<1> QED
  BY <1>5, <1>6, MessagesPost

\* The end of a run posts nothing the person did not allow.
LEMMA MessagesFinish ==
  ASSUME TypeInv, MessagesHonest, CardsKept, NEW c \in Calls, NEW released, NEW outcome,
         stage[c] \in {"prepare", "sent"}, FinishRun(c, released, outcome)
  PROVE  MessagesHonest'
<1> DEFINE ms == IF released THEN <<ApprovalSettled(tabOf[c])>> ELSE <<>>
<1>1. ApprovalSettled(tabOf[c]) \in ToHost
  BY Types, TabMessageTypes DEF CallsHaveTabs
<1>2. ms \in Seq(ToHost) /\ Members(ms) \subseteq {ApprovalSettled(tabOf[c])}
  BY <1>1, FewMessages
<1>3. \A m \in Members(ms) : HonestMessage(m)'
  BY <1>2, HonestByType DEF ApprovalSettled
<1>4. Post(ms)
  BY DEF FinishRun
<1> HIDE DEF ms
<1> QED
  BY <1>2, <1>3, <1>4, MessagesPost

\* Nor does a refused card.
LEMMA MessagesRefuse ==
  ASSUME TypeInv, MessagesHonest, CardsKept, NEW c \in Calls, NEW ending, Refuse(c, ending)
  PROVE  MessagesHonest'
<1> DEFINE ms == <<GrantRevoke(c), ApprovalSettled(tabOf[c])>>
<1>1. tabOf[c] \in Tabs
  BY Types DEF Refuse, OpenCards, CallsHaveTabs
<1>2. ms \in Seq(ToHost) /\ Members(ms) = {GrantRevoke(c), ApprovalSettled(tabOf[c])}
  BY <1>1, MessageTypes, TabMessageTypes, FewMessages
<1>3. \A m \in Members(ms) : HonestMessage(m)'
  BY <1>2, HonestByType DEF ApprovalSettled, GrantRevoke
<1> QED
  BY <1>2, <1>3, MessagesPost DEF Refuse

\* Nor does a voided call.
LEMMA MessagesCancel ==
  ASSUME TypeInv, MessagesHonest, CardsKept, NEW c \in Calls,
         CallTimeout(c) \/ ReceiveCancelled(c)
  PROVE  MessagesHonest'
<1> DEFINE few == <<OperationCancel(c)>>
           all == <<GrantRevoke(c), ApprovalSettled(tabOf[c]), OperationCancel(c)>>
           says == {GrantRevoke(c), ApprovalSettled(tabOf[c]), OperationCancel(c)}
<1>1. \A m \in says : HonestMessage(m)'
  BY HonestByType DEF ApprovalSettled, GrantRevoke, OperationCancel
<1>2. few \in Seq(ToHost) /\ Members(few) \subseteq says
  BY MessageTypes, FewMessages
<1>3. CASE Post(few)
  BY <1>1, <1>2, <1>3, MessagesPost
<1>4. CASE Post(all) /\ c \in OpenCards
  <2>1. tabOf[c] \in Tabs
    BY <1>4, Types DEF OpenCards, CallsHaveTabs
  <2>2. all \in Seq(ToHost) /\ Members(all) \subseteq says
    BY <2>1, MessageTypes, TabMessageTypes, FewMessages
  <2> QED
    BY <1>1, <1>4, <2>2, MessagesPost
<1> QED
  BY <1>3, <1>4 DEF CallTimeout, ReceiveCancelled

\* Nor does a closed tab.
LEMMA MessagesCloseTab ==
  ASSUME TypeInv, MessagesHonest, CardsKept, NEW t \in Tabs, CloseTab(t)
  PROVE  MessagesHonest'
<1> DEFINE n == Cardinality(CardsOn(t))
<1>1. n \in Nat /\ CardsOn(t) \subseteq Calls
  BY CardsFinite
<1>2. PICK order \in [1..n -> CardsOn(t)] : Post(<<TabClosed(t)>> \o Refusals(order, t))
  BY DEF CloseTab
<1>3. order \in [1..n -> Calls]
  BY <1>1, <1>2
<1> DEFINE refusals == Refusals(order, t)
<1>4. /\ refusals \in Seq(ToHost)
      /\ \A m \in Members(refusals) : m.type \notin {"operation", "grant-offer"}
  BY <1>1, <1>3, RefusalsType DEF Members
<1>5. <<TabClosed(t)>> \in Seq(ToHost) /\ Members(<<TabClosed(t)>>) = {TabClosed(t)}
  BY TabMessageTypes, FewMessages
<1> HIDE DEF refusals
<1> DEFINE ms == <<TabClosed(t)>> \o refusals
<1>6. ms \in Seq(ToHost) /\ Members(ms) \subseteq {TabClosed(t)} \cup Members(refusals)
  BY <1>4, <1>5, ConcatProperties, MembersConcat
<1>7. \A m \in Members(ms) : HonestMessage(m)'
  BY <1>4, <1>6, HonestByType DEF TabClosed
<1>8. Post(ms)
  BY <1>2 DEF refusals
<1> HIDE DEF ms
<1> QED
  BY <1>6, <1>7, <1>8, MessagesPost

-----------------------------------------------------------------------------
(* What the Playwright host makes of it *)

\* What waits in the host for a tab is operations.
LEMMA QueuedOperations ==
  ASSUME TypeInv, NEW t \in Tabs
  PROVE  Queued(t) \subseteq Operation
  BY Types, ElementOfSeq DEF Queued, Members

\* The call a tab is executing is one it queued.
LEMMA CurrentQueued ==
  ASSUME TypeInv, QueuesHonest, NEW t \in Tabs, queue[t] # <<>>
  PROVE  /\ Current(t) \in Queued(t)
         /\ Current(t) \in Operation
         /\ Current(t).tab = t
         /\ Current(t).call \in Calls
         /\ Honest(Current(t))
<1>1. Current(t) \in Queued(t)
  BY Types, MembersTail DEF Current, Queued
<1>2. Current(t) \in Operation
  BY <1>1, QueuedOperations
<1> QED
  BY <1>1, <1>2 DEF QueuesHonest, Operation

\* Queues of the host that gain nothing stay honest.
LEMMA QueuesKept ==
  ASSUME TypeInv, QueuesHonest, CardsKept, \A t \in Tabs : Queued(t)' \subseteq Queued(t)
  PROVE  QueuesHonest'
  BY QueuedOperations, HonestKept DEF QueuesHonest

\* Offers that only shrink stay honest.
LEMMA OffersKept ==
  ASSUME TypeInv, OffersHonest, CardsKept, offers' \subseteq offers
  PROVE  OffersHonest'
  BY Types, HonestKept DEF OffersHonest

\* What tab t executes is as it was before the step.
ExecutesAsBefore(t) ==
  /\ phase'[t] = phase[t]
  /\ key'[t] = key[t]
  /\ checked'[t] = checked[t]
  /\ Head(queue'[t]) = Head(queue[t])

\* What is established about the call of tab t.
ExecutionHonestOn(t) ==
  /\ phase[t] = "checking" /\ Current(t).grant =>
       key[t] = cardPage[Current(t).call]
  /\ phase[t] = "confirming" =>
       IF Current(t).grant THEN checked[t] = cardPage[Current(t).call]
       ELSE Covered(Current(t), checked[t])

\* The call executed on a tab stays honest if that tab's execution did not move.
LEMMA ExecutionKeptOn ==
  ASSUME TypeInv, QueuesHonest, ExecutionHonest, CardsKept, NEW t \in Tabs,
         phase'[t] \in {"checking", "confirming"} => ExecutesAsBefore(t)
  PROVE  ExecutionHonestOn(t)'
<1> SUFFICES ASSUME phase'[t] \in {"checking", "confirming"}
             PROVE  ExecutionHonestOn(t)'
  BY DEF ExecutionHonestOn
<1>1. PICK m : m = Head(queue[t])
  OBVIOUS
<1>2. Current(t) = m /\ Current(t)' = m
  BY <1>1 DEF ExecutesAsBefore, Current
<1>3. queue[t] # <<>>
  BY Types DEF ExecutesAsBefore, ExecutingHasCall
<1>4. m.call \in Calls /\ Honest(m)
  BY <1>2, <1>3, CurrentQueued
<1>5. m.grant => cardPage'[m.call] = cardPage[m.call]
  BY <1>4 DEF Honest, CardsKept, Allowing
<1> QED
  BY <1>2, <1>5 DEF ExecutionHonest, ExecutionHonestOn, ExecutesAsBefore, Covered

\* The same for every tab.
LEMMA ExecutionKept ==
  ASSUME TypeInv, QueuesHonest, ExecutionHonest, CardsKept,
         \A t \in Tabs : phase'[t] \in {"checking", "confirming"} => ExecutesAsBefore(t)
  PROVE  ExecutionHonest'
<1>1. \A t \in Tabs : ExecutionHonestOn(t)'
  BY ExecutionKeptOn
<1> QED
  BY <1>1 DEF ExecutionHonest, ExecutionHonestOn

\* By whose leave run r reached its page.
Consent(r) ==
  \/ /\ r.by = "grant"
     /\ decision[r.call] \in Allowing
     /\ tabOf[r.call] = r.tab
     /\ cardPage[r.call] = r.page
  \/ /\ r.by = "allowance"
     /\ <<r.call, r.page>> \notin OnceOnly
     /\ TaskOf[r.call] # NoTask
     /\ Consented(r.tab, TaskOf[r.call], ActionOrigin[r.call][r.page])

\* ActsOnlyWithConsent, stated with the consent of a single run.
LEMMA ActsMeansConsent ==
  ActsOnlyWithConsent <=> \A r \in ran : r.call \in Acting => Consent(r)
  BY DEF ActsOnlyWithConsent, Consent, Consented

\* The consent of a run outlives every step that keeps the cards.
LEMMA ConsentKept ==
  ASSUME TypeInv, CardsKept, NEW r \in Run, Consent(r)
  PROVE  Consent(r)'
<1>1. r.call \in Calls /\ r.tab \in Tabs
  BY DEF Run
<1>2. CASE /\ r.by = "grant"
           /\ decision[r.call] \in Allowing
           /\ tabOf[r.call] = r.tab
           /\ cardPage[r.call] = r.page
  BY <1>1, <1>2, ConstantsAssumption DEF Consent, CardsKept, Allowing
<1>3. CASE /\ r.by = "allowance"
           /\ <<r.call, r.page>> \notin OnceOnly
           /\ TaskOf[r.call] # NoTask
           /\ Consented(r.tab, TaskOf[r.call], ActionOrigin[r.call][r.page])
  BY <1>1, <1>3, ConsentedKept DEF Consent
<1> QED
  BY <1>2, <1>3 DEF Consent

\* A step whose new runs have consent keeps ActsOnlyWithConsent.
LEMMA ActsKept ==
  ASSUME TypeInv, ActsOnlyWithConsent, CardsKept,
         \A r \in ran' : r \in ran \/ (r.call \in Acting => Consent(r)')
  PROVE  ActsOnlyWithConsent'
<1>1. \A r \in ran : r.call \in Acting => Consent(r)'
  BY ActsMeansConsent, ConsentKept, Types
<1>2. \A r \in ran' : r.call \in Acting => Consent(r)'
  BY <1>1
<1> QED
  BY <1>2 DEF ActsOnlyWithConsent, Consent, Consented

\* A step that lets nothing new through the host.
LEMMA HostKept ==
  ASSUME TypeInv, OnTheWay, CardsKept, offers' \subseteq offers, UNCHANGED ran,
         \A t \in Tabs : Queued(t)' \subseteq Queued(t),
         \A t \in Tabs : phase'[t] \in {"checking", "confirming"} => ExecutesAsBefore(t)
  PROVE  QueuesHonest' /\ OffersHonest' /\ ExecutionHonest' /\ ActsOnlyWithConsent'
  BY QueuesKept, OffersKept, ExecutionKept, ActsKept DEF OnTheWay

\* A step of another part keeps what is known of the host.
LEMMA HostUntouched ==
  ASSUME TypeInv, OnTheWay, CardsKept, UNCHANGED hostVars
  PROVE  QueuesHonest' /\ OffersHonest' /\ ExecutionHonest' /\ ActsOnlyWithConsent'
  BY HostKept DEF hostVars, executing, Queued, Members, ExecutesAsBefore

\* The host handles the first of the background's messages.
LEMMA HostReceivesKeeps ==
  ASSUME TypeInv, OnTheWay, CardsKept, HostReceives
  PROVE  OnTheWay'
<1> DEFINE m == Head(toHost)
<1>1. toHost # <<>> /\ toHost' = Tail(toHost)
  BY DEF HostReceives, ReceiveOperation, ReceiveOffer, ReceiveRevoke, ReceiveCancel,
         ReceiveSettled, Receive
<1>2. m \in Posted /\ m \in ToHost /\ Posted' \subseteq Posted
  BY <1>1, Types, MembersTail DEF Posted
<1>3. HonestMessage(m)
  BY <1>2 DEF OnTheWay, MessagesHonest
<1>4. AllowancesConsented' /\ MessagesHonest'
  BY <1>2, AllowancesKept, MessagesKept DEF OnTheWay, HostReceives, HostOnly, backgroundVars
<1>5. ASSUME ReceiveOperation(m)
      PROVE  QueuesHonest' /\ OffersHonest' /\ ExecutionHonest' /\ ActsOnlyWithConsent'
  <2>1. m \in Operation /\ m.tab \in Tabs /\ Honest(m)
    BY <1>2, <1>3, <1>5, HostMessageFields DEF ReceiveOperation, Operation, HonestMessage
  <2>2. \A t \in Tabs : surfaceWait[t] \in Seq(Operation) /\ queue[t] \in Seq(Operation)
    BY Types
  <2>3. ASSUME NEW t \in Tabs, NEW o \in Queued(t)'
        PROVE  o \in Queued(t) \/ (t = m.tab /\ o = m)
    <3>1. \/ surfaceWait' = surfaceWait /\ queue' = [queue EXCEPT ![m.tab] = Append(@, m)]
          \/ queue' = queue /\ surfaceWait' = [surfaceWait EXCEPT ![m.tab] = Append(@, m)]
      BY <1>5 DEF ReceiveOperation
    <3>2. /\ Members(Append(queue[t], m)) = Members(queue[t]) \cup {m}
          /\ Members(Append(surfaceWait[t], m)) = Members(surfaceWait[t]) \cup {m}
      BY <2>1, <2>2, MembersAppend
    <3>3. CASE t = m.tab
      <4>1. \/ surfaceWait'[t] = surfaceWait[t] /\ queue'[t] = Append(queue[t], m)
            \/ queue'[t] = queue[t] /\ surfaceWait'[t] = Append(surfaceWait[t], m)
        BY <2>1, <3>1, <3>3, Types
      <4>2. o \in Members(surfaceWait'[t]) \cup Members(queue'[t])
        BY DEF Queued, Members
      <4>3. o \in Members(surfaceWait[t]) \cup Members(queue[t]) \cup {m}
        BY <3>2, <4>1, <4>2
      <4> QED
        BY <3>3, <4>3 DEF Queued
    <3>4. CASE t # m.tab
      <4>1. queue'[t] = queue[t] /\ surfaceWait'[t] = surfaceWait[t]
        BY <2>1, <3>1, <3>4, Types
      <4> QED
        BY <4>1 DEF Queued, Members
    <3> QED
      BY <3>3, <3>4
  <2>4. QueuesHonest'
    BY <2>1, <2>3, QueuedOperations, HonestKept DEF OnTheWay, QueuesHonest
  <2>5. ASSUME NEW t \in Tabs, phase'[t] \in {"checking", "confirming"}
        PROVE  ExecutesAsBefore(t)
    <3>1. phase'[t] = phase[t] /\ key'[t] = key[t] /\ checked'[t] = checked[t]
      BY <1>5 DEF ReceiveOperation
    <3>2. queue[t] # <<>>
      BY <2>5, <3>1, Types DEF ExecutingHasCall
    <3>3. Head(Append(queue[t], m)) = Head(queue[t])
      BY <2>1, <2>2, <3>2, AppendOperation
    <3>4. Head(queue'[t]) = Head(queue[t])
      BY <1>5, <2>1, <3>3, Types DEF ReceiveOperation
    <3> QED
      BY <3>1, <3>4 DEF ExecutesAsBefore
  <2>6. ExecutionHonest'
    BY <2>5, ExecutionKept DEF OnTheWay
  <2>7. UNCHANGED <<offers, ran>>
    BY <1>5 DEF ReceiveOperation
  <2> QED
    BY <2>4, <2>6, <2>7, OffersKept, ActsKept DEF OnTheWay
<1>6. ASSUME ReceiveOffer(m)
      PROVE  QueuesHonest' /\ OffersHonest' /\ ExecutionHonest' /\ ActsOnlyWithConsent'
  <2>1. m \in Offer /\ HonestOffer(m)
    BY <1>2, <1>3, <1>6, HostMessageFields DEF ReceiveOffer, HonestMessage
  <2>2. OffersHonest'
    BY <1>6, <2>1, Types, HonestKept DEF ReceiveOffer, OnTheWay, OffersHonest
  <2>3. UNCHANGED <<surfaceWait, executing, ran>>
    BY <1>6 DEF ReceiveOffer
  <2>4. /\ \A t \in Tabs : Queued(t)' \subseteq Queued(t)
        /\ \A t \in Tabs : ExecutesAsBefore(t)
    BY <2>3 DEF executing, Queued, Members, ExecutesAsBefore
  <2> QED
    BY <2>2, <2>3, <2>4, QueuesKept, ExecutionKept, ActsKept DEF OnTheWay
<1>7. ASSUME ReceiveRevoke(m) \/ ReceiveCancel(m) \/ ReceiveSettled(m)
      PROVE  QueuesHonest' /\ OffersHonest' /\ ExecutionHonest' /\ ActsOnlyWithConsent'
  <2>1. UNCHANGED <<surfaceWait, queue, key, checked, ran>> /\ offers' \subseteq offers
    BY <1>7 DEF ReceiveRevoke, ReceiveCancel, ReceiveSettled, executing
  <2>2. \A t \in Tabs : phase'[t] \in {"checking", "confirming"} => phase'[t] = phase[t]
    BY <1>7 DEF ReceiveRevoke, ReceiveCancel, ReceiveSettled, executing
  <2>3. /\ \A t \in Tabs : Queued(t)' \subseteq Queued(t)
        /\ \A t \in Tabs : phase'[t] \in {"checking", "confirming"} => ExecutesAsBefore(t)
    BY <2>1, <2>2 DEF Queued, Members, ExecutesAsBefore
  <2> QED
    BY <2>1, <2>3, HostKept
<1> QED
  BY <1>4, <1>5, <1>6, <1>7 DEF HostReceives, OnTheWay

\* A step of the host on a tab that posts nothing and reads no message.
LEMMA HostAlone ==
  ASSUME TypeInv, OnTheWay, CardsKept, HostOnly, UNCHANGED toHost
  PROVE  AllowancesConsented' /\ MessagesHonest'
  BY AllowancesKept, MessagesKept DEF OnTheWay, HostOnly, backgroundVars, Posted, Members

\* A wait for a tab's document that ends keeps everything on the way honest.
LEMMA SurfaceKeeps ==
  ASSUME TypeInv, OnTheWay, CardsKept, NEW t \in Tabs, SurfaceStep(t)
  PROVE  OnTheWay'
<1> DEFINE m == Head(surfaceWait[t])
<1>1. /\ HostOnly
      /\ surfaceWait[t] # <<>>
      /\ surfaceWait' = [surfaceWait EXCEPT ![t] = Tail(@)]
      /\ UNCHANGED <<toHost, phase, key, checked, offers, ran>>
  BY DEF SurfaceStep, SurfaceFound, SurfaceDropped, hostChannels, executing
<1>2. surfaceWait[t] \in Seq(Operation) /\ queue[t] \in Seq(Operation)
  BY Types
<1>3. m \in Operation /\ m \in Members(surfaceWait[t])
      /\ Members(Tail(surfaceWait[t])) \subseteq Members(surfaceWait[t])
  BY <1>1, <1>2, MembersTail
<1>4. \/ UNCHANGED queue
      \/ queue' = [queue EXCEPT ![t] = Append(@, m)]
  BY DEF SurfaceStep, SurfaceFound, SurfaceDropped, executing
<1>5. Members(Append(queue[t], m)) = Members(queue[t]) \cup {m}
  BY <1>2, <1>3, MembersAppend
<1>6. \A u \in Tabs : Queued(u)' \subseteq Queued(u)
  BY <1>1, <1>3, <1>4, <1>5, Types DEF Queued
<1>7. ASSUME NEW u \in Tabs, phase'[u] \in {"checking", "confirming"}
      PROVE  ExecutesAsBefore(u)
  <2>1. queue[u] # <<>>
    BY <1>1, <1>7, Types DEF ExecutingHasCall
  <2>2. u = t => Head(Append(queue[u], m)) = Head(queue[u])
    BY <1>2, <1>3, <2>1, AppendOperation
  <2>3. Head(queue'[u]) = Head(queue[u])
    BY <1>4, <2>2, Types
  <2> QED
    BY <1>1, <2>3 DEF ExecutesAsBefore
<1> QED
  BY <1>1, <1>6, <1>7, HostAlone, HostKept DEF OnTheWay

\* So does returning from execute, with any answer.
LEMMA ReturnKeeps ==
  ASSUME TypeInv, OnTheWay, CardsKept, HostOnly, NEW t \in Tabs, NEW answer,
         queue[t] # <<>>, Return(t, answer),
         UNCHANGED <<toHost, surfaceWait, ran>>, offers' \subseteq offers
  PROVE  OnTheWay'
<1>1. queue[t] \in Seq(Operation)
  BY Types
<1>2. Members(Tail(queue[t])) \subseteq Members(queue[t])
  BY <1>1, MembersTail
<1>3. \A u \in Tabs : Queued(u)' \subseteq Queued(u)
  BY <1>2, Types DEF Return, Queued
<1>4. \A u \in Tabs : phase'[u] \in {"checking", "confirming"} => ExecutesAsBefore(u)
  BY Types DEF Return, ExecutesAsBefore
<1> QED
  BY <1>3, <1>4, HostAlone, HostKept DEF OnTheWay

\* The host starts a call only when it reads, or with leave.
LEMMA StartKeeps ==
  ASSUME TypeInv, OnTheWay, CardsKept, HostOnly, NEW t \in Tabs, queue[t] # <<>>,
         NEW by, NEW p, Start(t, by, p),
         \A r : /\ r.call = Current(t).call /\ r.tab = t /\ r.page = p /\ r.by = by
                /\ r.call \in Acting
                => Consent(r)'
  PROVE  OnTheWay'
<1> DEFINE c == Current(t).call
<1>1. CASE c \in hostCancelled
  BY <1>1, ReturnKeeps DEF Start, ReturnNotRun
<1>2. CASE c \notin hostCancelled
  <2>1. UNCHANGED <<toHost, surfaceWait, queue, offers>>
    BY <1>2 DEF Start, hostChannels
  <2>2. \A u \in Tabs : Queued(u)' \subseteq Queued(u)
    BY <2>1 DEF Queued, Members
  <2>3. \A u \in Tabs : phase'[u] \in {"checking", "confirming"} => ExecutesAsBefore(u)
    BY <1>2, <2>1, Types DEF Start, ExecutesAsBefore
  <2>4. ran' = ran \cup {[call |-> c, tab |-> t, page |-> p, by |-> by]}
    BY <1>2 DEF Start
  <2>5. ActsOnlyWithConsent'
    <3>1. \A r \in ran' : r \in ran \/ (r.call \in Acting => Consent(r)')
      BY <2>4
    <3> QED
      BY <3>1, ActsKept DEF OnTheWay
  <2> QED
    BY <2>1, <2>2, <2>3, <2>5, HostAlone, QueuesKept, OffersKept, ExecutionKept DEF OnTheWay
<1> QED
  BY <1>1, <1>2

\* So does taking up a call: a grant taken is one that was offered for its card.
LEMMA BeginsKeeps ==
  ASSUME TypeInv, OnTheWay, CardsKept, NEW t \in Tabs, Begins(t)
  PROVE  OnTheWay'
<1>1. HostOnly /\ queue[t] # <<>> /\ UNCHANGED <<toHost, surfaceWait, ran>>
  BY DEF Begins, BeginCancelled, BeginWithoutOffer, BeginHeld, Begin, MayBegin, hostChannels
<1>2. ASSUME BeginCancelled(t) \/ BeginWithoutOffer(t) \/ BeginHeld(t)
      PROVE  OnTheWay'
  <2>1. ReturnNotRun(t) /\ offers' \subseteq offers
    BY <1>2 DEF BeginCancelled, BeginWithoutOffer, BeginHeld
  <2> QED
    BY <1>1, <2>1, ReturnKeeps DEF ReturnNotRun
<1>3. ASSUME Begin(t)
      PROVE  OnTheWay'
  <2> DEFINE m == Current(t)
  <2>1. UNCHANGED queue /\ offers' \subseteq offers
    BY <1>3 DEF Begin
  <2>2. \A u \in Tabs : Queued(u)' \subseteq Queued(u)
    BY <1>1, <2>1 DEF Queued, Members
  <2>3. ASSUME NEW u \in Tabs, u # t
        PROVE  ExecutionHonestOn(u)'
    <3>1. ExecutesAsBefore(u)
      BY <1>3, <2>1, <2>3, Types DEF Begin, ExecutesAsBefore
    <3> QED
      BY <3>1, ExecutionKeptOn DEF OnTheWay
  <2>4. ExecutionHonestOn(t)'
    <3>1. phase'[t] = "checking" /\ Current(t)' = m
      BY <1>3, <2>1, Types DEF Begin, Current
    <3>2. CASE ~m.grant
      BY <3>1, <3>2 DEF ExecutionHonestOn
    <3>3. CASE m.grant
      <4>1. PICK o \in offers : o.call = m.call /\ key'[t] = o.page
        BY <1>3, <3>3, Types DEF Begin, OfferOf
      <4>2. HonestOffer(o)
        BY DEF OnTheWay, OffersHonest
      <4>3. HonestOffer(o)'
        BY <4>2, Types, HonestKept
      <4> QED
        BY <3>1, <4>1, <4>3 DEF ExecutionHonestOn, HonestOffer
    <3> QED
      BY <3>2, <3>3
  <2>5. ExecutionHonest'
    BY <2>3, <2>4 DEF ExecutionHonest, ExecutionHonestOn
  <2> QED
    BY <1>1, <2>1, <2>2, <2>5, HostAlone, QueuesKept, OffersKept, ActsKept DEF OnTheWay
<1> QED
  BY <1>2, <1>3 DEF Begins

\* So does the check of an action, against a grant, an allowance or neither.
LEMMA ChecksKeeps ==
  ASSUME TypeInv, OnTheWay, CardsKept, NEW t \in Tabs, Checks(t)
  PROVE  OnTheWay'
<1> DEFINE m == Current(t)
<1>1. HostOnly /\ phase[t] = "checking" /\ queue[t] # <<>>
  BY Types DEF Checks, CheckReading, CheckAllowed, CheckMismatch, CheckRefused, ExecutingHasCall
<1>2. ASSUME CheckReading(t)
      PROVE  OnTheWay'
  BY <1>1, <1>2, StartKeeps DEF CheckReading
<1>3. ASSUME CheckMismatch(t)
      PROVE  OnTheWay'
  BY <1>1, <1>3, ReturnKeeps DEF CheckMismatch, ReturnNotRun
<1>4. ASSUME CheckRefused(t)
      PROVE  OnTheWay'
  BY <1>1, <1>4, ReturnKeeps DEF CheckRefused
<1>5. ASSUME CheckAllowed(t)
      PROVE  OnTheWay'
  <2>1. UNCHANGED <<toHost, surfaceWait, queue, key, offers, ran>>
    BY <1>5 DEF CheckAllowed, hostChannels
  <2>2. \A u \in Tabs : Queued(u)' \subseteq Queued(u)
    BY <2>1 DEF Queued, Members
  <2>3. ASSUME NEW u \in Tabs, u # t
        PROVE  ExecutionHonestOn(u)'
    <3>1. ExecutesAsBefore(u)
      BY <1>5, <2>1, <2>3, Types DEF CheckAllowed, ExecutesAsBefore
    <3> QED
      BY <3>1, ExecutionKeptOn DEF OnTheWay
  <2>4. ExecutionHonestOn(t)'
    <3>1. /\ phase'[t] = "confirming"
          /\ checked'[t] = page[t]
          /\ Current(t)' = m
      BY <1>5, <2>1, Types DEF CheckAllowed, Current
    <3>2. CASE m.grant
      <4>1. page[t] = cardPage[m.call]
        BY <1>1, <1>5, <3>2 DEF CheckAllowed, OnTheWay, ExecutionHonest
      <4>2. cardPage'[m.call] = cardPage[m.call]
        BY <1>1, <3>2, CurrentQueued DEF OnTheWay, Honest, CardsKept, Allowing
      <4> QED
        BY <3>1, <3>2, <4>1, <4>2 DEF ExecutionHonestOn
    <3>3. CASE ~m.grant
      <4>1. Covered(m, page[t])
        BY <1>5, <3>3 DEF CheckAllowed
      <4> QED
        BY <3>1, <3>3, <4>1 DEF ExecutionHonestOn, Covered
    <3> QED
      BY <3>2, <3>3
  <2>5. ExecutionHonest'
    BY <2>3, <2>4 DEF ExecutionHonest, ExecutionHonestOn
  <2> QED
    BY <1>1, <2>1, <2>2, <2>5, HostAlone, QueuesKept, OffersKept, ActsKept DEF OnTheWay
<1> QED
  BY <1>2, <1>3, <1>4, <1>5 DEF Checks

\* The host lets an acting call through only by the grant of its card or by
\* an allowance that covers it.
LEMMA ConfirmsKeeps ==
  ASSUME TypeInv, OnTheWay, CardsKept, NEW t \in Tabs, Confirms(t)
  PROVE  OnTheWay'
<1> DEFINE m == Current(t)
<1>1. HostOnly /\ phase[t] = "confirming" /\ queue[t] # <<>>
  BY Types DEF Confirms, ConfirmStale, Confirm, ExecutingHasCall
<1>2. ASSUME ConfirmStale(t)
      PROVE  OnTheWay'
  BY <1>1, <1>2, ReturnKeeps DEF ConfirmStale, ReturnNotRun
<1>3. ASSUME Confirm(t)
      PROVE  OnTheWay'
  <2> DEFINE by == IF m.grant THEN "grant" ELSE "allowance"
  <2>1. /\ m.tab = t /\ m.call \in Calls /\ m \in Operation
        /\ Honest(m)
    BY <1>1, CurrentQueued DEF OnTheWay
  <2>2. IF m.grant THEN checked[t] = cardPage[m.call] ELSE Covered(m, checked[t])
    BY <1>1 DEF OnTheWay, ExecutionHonest
  <2>3. ASSUME NEW r, r.call = m.call, r.tab = t, r.page = checked[t], r.by = by
        PROVE  Consent(r)'
    <3>1. CASE m.grant
      <4>1. /\ decision[m.call] \in Allowing
            /\ tabOf[m.call] = t
            /\ cardPage[m.call] = checked[t]
        BY <2>1, <2>2, <3>1 DEF Honest
      <4>2. /\ decision'[m.call] \in Allowing
            /\ tabOf'[m.call] = t
            /\ cardPage'[m.call] = checked[t]
        BY <2>1, <4>1, ConstantsAssumption DEF CardsKept, Allowing
      <4> QED
        BY <2>3, <3>1, <4>2 DEF Consent
    <3>2. CASE ~m.grant
      <4>1. /\ <<m.call, checked[t]>> \notin OnceOnly
            /\ TaskOf[m.call] # NoTask
            /\ Consented(t, TaskOf[m.call], ActionOrigin[m.call][checked[t]])
        BY <2>1, <2>2, <3>2 DEF Covered, Honest
      <4>2. PICK k, o : k = TaskOf[m.call] /\ o = ActionOrigin[m.call][checked[t]]
        OBVIOUS
      <4>3. Consented(t, k, o)'
        BY <4>1, <4>2, ConsentedKept
      <4> QED
        BY <2>3, <3>2, <4>1, <4>2, <4>3 DEF Consent, Consented
    <3> QED
      BY <3>1, <3>2
  <2>4. Start(t, by, checked[t])
    BY <1>3 DEF Confirm
  <2> QED
    BY <1>1, <2>3, <2>4, StartKeeps
<1> QED
  BY <1>2, <1>3 DEF Confirms

\* So does the end of a call, run or not.
LEMMA EndsKeeps ==
  ASSUME TypeInv, OnTheWay, CardsKept, NEW t \in Tabs, Fails(t) \/ Finishes(t)
  PROVE  OnTheWay'
<1>1. HostOnly /\ queue[t] # <<>>
  BY Types DEF Fails, Finishes, Unreachable, Finish, ExecutingHasCall
<1> QED
  BY <1>1, ReturnKeeps DEF Fails, Finishes, Unreachable, Finish, ReturnNotRun

-----------------------------------------------------------------------------
(* The whole system *)

\* The initial states satisfy the consent invariant.
LEMMA ConsentInit ==
  ASSUME Init
  PROVE  ConsentInv
<1>1. TypeInv
  BY TypeInit
<1>2. FreshRequests
  BY DEF Init, ChannelsInit, BackgroundInit, FreshRequests
<1>3. CardsFollowCalls
  BY DEF Init, BackgroundInit, CardsFollowCalls
<1>4. AllowancesConsented /\ MessagesHonest
  BY DEF Init, BackgroundInit, ChannelsInit, AllowancesConsented, MessagesHonest, Posted, Members
<1>5. QueuesHonest /\ OffersHonest /\ ExecutionHonest /\ ActsOnlyWithConsent
  BY DEF Init, HostInit, QueuesHonest, Queued, Members, OffersHonest, ExecutionHonest,
         ActsOnlyWithConsent
<1> QED
  BY <1>1, <1>2, <1>3, <1>4, <1>5 DEF ConsentInv, OnTheWay

\* The steps of the background on one call.
LEMMA CallKeeps ==
  ASSUME TypeInv, OnTheWay, CardsKept, NEW c \in Calls,
         \/ Routes(c) \/ Prepares(c) \/ HostReplies(c)
         \/ CallTimeoutStep(c) \/ ExpireStep(c) \/ DenyStep(c)
         \/ \E answer \in Allowing : AllowStep(c, answer)
  PROVE  OnTheWay'
<1>1. UNCHANGED hostVars
  BY DEF Routes, Prepares, HostReplies, CallTimeoutStep, ExpireStep, DenyStep, AllowStep,
         BackgroundOnly
<1>2. UNCHANGED toHost => MessagesHonest'
  BY MessagesKept DEF OnTheWay, Posted, Members
<1>3. UNCHANGED allowances => AllowancesConsented'
  BY AllowancesKept DEF OnTheWay
<1>4. ASSUME Routes(c)
      PROVE  AllowancesConsented' /\ MessagesHonest'
  BY <1>2, <1>3, <1>4
     DEF Routes, RouteRefused, RouteWhileDeciding, RouteToTab, hostChannels
<1>5. ASSUME Prepares(c)
      PROVE  AllowancesConsented' /\ MessagesHonest'
  <2>1. CASE SendOperation(c)
    BY <2>1, AllowancesSend, MessagesSend DEF OnTheWay
  <2>2. CASE DropCancelled(c)
    BY <1>2, <1>3, <2>2 DEF DropCancelled, hostChannels
  <2>3. CASE HostUnavailable(c)
    BY <1>3, <2>3, MessagesFinish DEF HostUnavailable, FinishRun, OnTheWay
  <2> QED
    BY <1>5, <2>1, <2>2, <2>3 DEF Prepares
<1>6. ASSUME HostReplies(c)
      PROVE  AllowancesConsented' /\ MessagesHonest'
  <2>1. PICK r \in replies : HostAnswered(c, r) \/ AskPerson(c, r)
    BY <1>6 DEF HostReplies
  <2>2. CASE HostAnswered(c, r)
    BY <1>3, <2>2, MessagesFinish DEF HostAnswered, FinishRun, OnTheWay
  <2>3. CASE AskPerson(c, r)
    BY <1>3, <2>3, MessagesAsk DEF AskPerson, OnTheWay
  <2> QED
    BY <2>1, <2>2, <2>3
<1>7. ASSUME CallTimeoutStep(c)
      PROVE  AllowancesConsented' /\ MessagesHonest'
  BY <1>3, <1>7, MessagesCancel DEF CallTimeoutStep, CallTimeout, OnTheWay
<1>8. ASSUME ExpireStep(c) \/ DenyStep(c)
      PROVE  AllowancesConsented' /\ MessagesHonest'
  BY <1>3, <1>8, MessagesRefuse DEF ExpireStep, Expire, DenyStep, Deny, Refuse, OnTheWay
<1>9. ASSUME NEW answer \in Allowing, AllowStep(c, answer)
      PROVE  AllowancesConsented' /\ MessagesHonest'
  BY <1>2, <1>9, AllowancesAllow DEF AllowStep, Allow, OnTheWay, hostChannels
<1>10. AllowancesConsented' /\ MessagesHonest'
  BY <1>4, <1>5, <1>6, <1>7, <1>8, <1>9
<1> QED
  BY <1>1, <1>10, HostUntouched DEF OnTheWay

\* Every step keeps everything on the way honest.
LEMMA StepKeepsTheWay ==
  ASSUME TypeInv, OnTheWay, CardsKept, Next
  PROVE  OnTheWay'
<1>1. UNCHANGED toHost => MessagesHonest'
  BY MessagesKept DEF OnTheWay, Posted, Members
<1>2. UNCHANGED allowances => AllowancesConsented'
  BY AllowancesKept DEF OnTheWay
<1>3. ASSUME UNCHANGED <<toHost, allowances, hostVars>>
      PROVE  OnTheWay'
  BY <1>1, <1>2, <1>3, HostUntouched DEF OnTheWay
<1>4. ASSUME \/ \E c \in Calls : DispatchStep(c) \/ AgentStopsStep(c) \/ CompanionTimeoutStep(c)
             \/ CompanionReceives \/ PortLostStep \/ ReconnectStep
             \/ \E t \in Tabs : \E p \in Pages : NavigateStep(t, p)
      PROVE  OnTheWay'
  BY <1>3, <1>4
     DEF DispatchStep, AgentStopsStep, CompanionTimeoutStep, CompanionReceives, PortLostStep,
         ReconnectStep, CompanionOnly, NavigateStep, hostChannels, backgroundVars
<1>5. ASSUME BackgroundReceives
      PROVE  OnTheWay'
  <2>1. PICK c \in Calls : ReceiveRequest(c) \/ ReceiveCancelled(c)
    BY <1>5 DEF BackgroundReceives
  <2>2. UNCHANGED hostVars
    BY <1>5 DEF BackgroundReceives, BackgroundOnly
  <2>3. CASE ReceiveRequest(c)
    BY <1>3, <2>2, <2>3 DEF ReceiveRequest
  <2>4. CASE ReceiveCancelled(c)
    BY <1>2, <2>2, <2>4, MessagesCancel, HostUntouched DEF ReceiveCancelled, OnTheWay
  <2> QED
    BY <2>1, <2>3, <2>4
<1>6. ASSUME NEW t \in Tabs, CloseTabStep(t)
      PROVE  OnTheWay'
  BY <1>6, AllowancesCloseTab, MessagesCloseTab, HostUntouched DEF CloseTabStep, OnTheWay
<1>7. ASSUME HostReceives
      PROVE  OnTheWay'
  BY <1>7, HostReceivesKeeps
<1>8. ASSUME NEW t \in Tabs, SurfaceStep(t)
      PROVE  OnTheWay'
  BY <1>8, SurfaceKeeps
<1>9. ASSUME NEW t \in Tabs, Executes(t)
      PROVE  OnTheWay'
  BY <1>9, BeginsKeeps, ChecksKeeps, ConfirmsKeeps, EndsKeeps DEF Executes
<1>10. ASSUME NEW c \in Calls,
              \/ Routes(c) \/ Prepares(c) \/ HostReplies(c)
              \/ CallTimeoutStep(c) \/ ExpireStep(c) \/ DenyStep(c)
              \/ \E answer \in Allowing : AllowStep(c, answer)
       PROVE  OnTheWay'
  BY <1>10, CallKeeps
<1> QED
  BY <1>4, <1>5, <1>6, <1>7, <1>8, <1>9, <1>10 DEF Next

\* Every step, and stuttering, keeps the consent invariant.
LEMMA ConsentStep ==
  ASSUME ConsentInv, [Next]_vars
  PROVE  ConsentInv'
<1> USE DEF ConsentInv
<1>1. CASE Next
  BY <1>1, TypeStep, StepKeepsCards, StepFresh, StepCards, StepKeepsTheWay
<1>2. CASE UNCHANGED vars
  <2>1. TypeInv' /\ CardsKept
    BY <1>2, TypeStutter, UnchangedCardsKept DEF vars, backgroundVars, routing
  <2>2. FreshRequests' /\ CardsFollowCalls'
    BY <1>2 DEF vars, nativeChannels, backgroundVars, routing, asking, FreshRequests,
                CardsFollowCalls
  <2>3. AllowancesConsented' /\ MessagesHonest'
    BY <1>2, <2>1, AllowancesKept, MessagesKept
       DEF vars, hostChannels, backgroundVars, OnTheWay, Posted, Members
  <2> QED
    BY <1>2, <2>1, <2>2, <2>3, HostUntouched DEF vars, OnTheWay
<1> QED
  BY <1>1, <1>2

\* No interleaving of calls, cards, navigations, closed tabs, lost ports and
\* timers lets an acting call reach a page without the person's leave: what
\* the host runs was allowed by the card of that very call, for that very
\* action and tab, or is covered by an allowance the person gave that task
\* for that origin on that tab (background.ts settleApproval, playwright.ts
\* execute).
THEOREM ConsentHolds == Spec => []ActsOnlyWithConsent
<1>1. Init => ConsentInv
  BY ConsentInit
<1>2. ConsentInv /\ [Next]_vars => ConsentInv'
  BY ConsentStep
<1>3. ConsentInv => ActsOnlyWithConsent
  BY DEF ConsentInv, OnTheWay
<1> QED
  BY <1>1, <1>2, <1>3, PTL DEF Spec
-----------------------------------------------------------------------------
(***************************************************************************)
(* What the browser calls promise, proved for every number of calls, tabs  *)
(* and pages, and but for NothingOutlives whether or not the native port   *)
(* can be lost:                                                            *)
(*   AnswersHold      an agent is told "ran" or "not run" truthfully;      *)
(*   StoppedStays     a stopped call sends no input;                       *)
(*   MarksDie, NothingOutlives   marks, cards and offers end with calls;   *)
(*   GrantsFound      a granted call finds the offer it was granted on;    *)
(*   BusyCounts       a tab counts the calls and cards it has;             *)
(*   PromiseKept      the calls refine Consent.                            *)
(* None of them is inductive.  SafetyInv adds to ConsentInv where each     *)
(* call is: an operation is in one place (OnePlace), a call that has run   *)
(* is not on its way (SpentOnce), what was ended is closed in the          *)
(* background (EndedIsClosed), and an offer reaches the host before the    *)
(* operation that uses it (OffersReady).                                   *)
(***************************************************************************)

\* The calls whose operations a sequence of messages holds, each at most once.
CallsOf(q) == {m.call : m \in {x \in Members(q) : x.type = "operation"}}

\* A sequence holds the operation of a call at most once.
Alone(q) ==
  \A i, j \in 1..Len(q) :
    q[i].type = "operation" /\ q[j].type = "operation" /\ q[i].call = q[j].call => i = j

\* The calls whose result is on its way back.
Answering == {r.call : r \in replies}

\* The calls the host holds for tab t.
InHand(t) == CallsOf(surfaceWait[t]) \cup CallsOf(queue[t])

\* The operation of a call that was sent is in one place at most, or its result is.
OnePlace ==
  /\ Alone(toHost)
  /\ \A t \in Tabs :
       /\ Alone(surfaceWait[t])
       /\ Alone(queue[t])
       /\ CallsOf(surfaceWait[t]) \cap CallsOf(queue[t]) = {}
       /\ InHand(t) \cap CallsOf(toHost) = {}
       /\ InHand(t) \cap Answering = {}
  /\ CallsOf(toHost) \cap Answering = {}
  /\ \A r, s \in replies : r.call = s.call => r = s
  /\ \A c \in CallsOf(toHost) \cup Answering : stage[c] = "sent"
  /\ \A t \in Tabs : \A c \in InHand(t) : stage[c] = "sent"

\* The operations on their way to the host, and those it holds.
Placed == {m \in Posted : m.type = "operation"} \cup UNION {Queued(t) : t \in Tabs}

\* An operation without a grant is of a call that was not asked about.
GrantsMatch == \A m \in Placed : ~m.grant => decision[m.call] = "none"

\* The background has taken up the request of c.
Routed(c) == op[c] # "idle" /\ Request(c) \notin Members(toExtension)

\* Nothing is under way for c, in the background or on a card.
Over(c) == Routed(c) /\ decision[c] # "open" /\ stage[c] = "none"

\* No step can begin for c: it is over, or void, or past its timer.
Closed(c) ==
  /\ Routed(c)
  /\ decision[c] # "open"
  /\ stage[c] \in {"route", "prepare"} => c \in cancelledCalls
  /\ stage[c] = "sent" => c \notin pending

\* The 30 s timer runs for calls with a tab, and not while a card is open.
PendingRouted == \A c \in pending : tabOf[c] # NoTab /\ decision[c] # "open"

\* In the port to the extension a cancellation follows its request.
CancelsFollow ==
  \A c \in Calls : \A j \in 1..Len(toExtension) : toExtension[j] = Cancelled(c) =>
    /\ op[c] # "idle"
    /\ \A i \in 1..Len(toExtension) : toExtension[i] = Request(c) => i < j

\* In the port to the host a cancellation follows its operation.
CancelsTrail ==
  \A i, j \in 1..Len(toHost) :
    toHost[i].type = "operation" /\ toHost[j] = OperationCancel(toHost[i].call) => i < j

\* The agent was told the outcome of c, or the answer is on its way.
Told(c, outcome) == op[c] = outcome \/ Response(c, outcome) \in Members(toCompanion)

\* Somebody took c for ended: the host, the background or the companion.
Ended(c) ==
  \/ c \in stopped
  \/ OperationCancel(c) \in Posted
  \/ \E outcome \in Outcomes : Told(c, outcome)
  \/ /\ "port lost" \notin Events
     /\ op[c] = "abandoned"
     /\ Cancelled(c) \notin Members(toExtension)

\* A call somebody took for ended does not go on in the background.
EndedIsClosed == \A c \in Calls : Ended(c) => Closed(c)

\* The tool of c was called.
Spent(c) == \E r \in ran : r.call = c

\* The tool of the current operation of t was called and has not returned.
Runs(t) == phase[t] \in {"running", "cut"}

\* A call that has run is neither on its way to the host nor waiting there, and only
\* its run can be under way: this is why it cannot run again.
SpentOnce ==
  /\ \A c \in Calls : Spent(c) =>
       /\ Routed(c)
       /\ stage[c] \in {"none", "sent"}
       /\ decision[c] # "open"
       /\ c \notin CallsOf(toHost)
  /\ \A t \in Tabs : \A c \in CallsOf(surfaceWait[t]) : ~Spent(c)
  /\ \A t \in Tabs : \A c \in CallsOf(queue[t]) : Spent(c) <=> Runs(t) /\ Current(t).call = c
  /\ \A r \in replies : r.kind = "ran" <=> Spent(r.call)

\* An answer, told or on its way, says what happened.
ToldTrue ==
  \A c \in Calls :
    /\ Told(c, "notRun") => Over(c) /\ ~Spent(c)
    /\ Told(c, "ran") => Spent(c)

\* Where tab t holds call c, the call's mark is.
MarkedOn(c, t) ==
  /\ c \in CallsOf(surfaceWait[t]) => c \in surfaceCancelled
  /\ c \in CallsOf(queue[t]) =>
       c \in hostCancelled \/ (phase[t] = "cut" /\ Current(t).call = c)

\* Wherever the host holds a stopped call, the mark that voids it is.
StoppedMarked ==
  \A c \in stopped : c \notin CallsOf(toHost) /\ \A t \in Tabs : MarkedOn(c, t)

\* A mark voids a call before its tool is called, not after.
RunsUnmarked == \A t \in Tabs : Runs(t) => Current(t).call \notin hostCancelled

\* The host holds the offer of c's tab to c.
HasOffer(c) == \E o \in offers : o.call = c /\ o.tab = tabOf[c]

\* Message m brings the host the offer of c.
IsOffer(m, c) == m.type = "grant-offer" /\ m.call = c /\ m.tab = tabOf[c]

\* The offer of c is in the host or on its way.
Offered(c) == HasOffer(c) \/ \E m \in Posted : IsOffer(m, c)

\* The card of c is open, or c was allowed and not sent again yet.
Deciding(c) == decision[c] = "open" \/ (decision[c] \in Allowing /\ stage[c] = "prepare")

\* An offer is revoked only when the person refused.
RevokedIsRefused == \A c \in Calls : GrantRevoke(c) \in Posted => decision[c] \in Refusing

\* A call the person decides on, or allowed, has an offer.
CardsAreOffered == \A c \in Calls : Deciding(c) => Offered(c)

\* An operation with a grant comes after its offer.
OffersPrecede ==
  \A j \in 1..Len(toHost) : toHost[j].type = "operation" /\ toHost[j].grant =>
    \/ HasOffer(toHost[j].call)
    \/ \E i \in 1..Len(toHost) : i < j /\ IsOffer(toHost[i], toHost[j].call)

\* A granted operation that waits for its surface has its offer in the host.
WaitFinds(t) == \A m \in Members(surfaceWait[t]) : m.grant => HasOffer(m.call)

\* So has one in the queue until it is taken up.
QueueFinds(t) ==
  \A m \in Members(queue[t]) :
    m.grant /\ (phase[t] = "idle" \/ m # Current(t)) => HasOffer(m.call)

\* A granted call finds its offer: it is taken up once, when the call begins.
OffersReady ==
  /\ RevokedIsRefused
  /\ CardsAreOffered
  /\ OffersPrecede
  /\ \A t \in Tabs : WaitFinds(t) /\ QueueFinds(t)

\* Without the loss of the port no call is lost.
NotLost == "port lost" \notin Events => connected /\ \A c \in Calls : op[c] # "lost"

-----------------------------------------------------------------------------
(* What no step undoes *)

\* The steps of the background on one call.
CallStep(c) ==
  \/ Routes(c) \/ Prepares(c) \/ HostReplies(c)
  \/ CallTimeoutStep(c) \/ ExpireStep(c) \/ DenyStep(c)
  \/ \E answer \in Allowing : AllowStep(c, answer)

\* None of them reads a request, and none is the companion's or the host's.
LEMMA CallStepIsBackgrounds ==
  ASSUME NEW c \in Calls, CallStep(c)
  PROVE  UNCHANGED <<connected, toExtension, op, browserState, hostVars>>
  BY DEF CallStep, Routes, RouteRefused, RouteWhileDeciding, RouteToTab, Prepares, SendOperation,
         DropCancelled, HostUnavailable, FinishRun, HostReplies, HostAnswered, AskPerson,
         CallTimeoutStep, CallTimeout, ExpireStep, Expire, DenyStep, Deny, Refuse, AllowStep,
         Allow, Answer, BackgroundOnly, nativeChannels

\* A call that was routed stays so: a request is sent once.
LEMMA RoutedKept ==
  ASSUME TypeInv, Next, NEW c \in Calls, Routed(c)
  PROVE  Routed(c)'
<1>1. /\ toExtension \in Seq(ToExtension)
      /\ op \in [Calls -> {"idle"} \cup Waiting \cup Unanswered \cup Outcomes]
  BY Types DEF TypeInv, TypeOK, CompanionTypeOK
<1>2. ASSUME UNCHANGED <<op, toExtension>>
      PROVE  Routed(c)'
  BY <1>2 DEF Routed, Members
<1>3. ASSUME NEW d \in Calls, Dispatch(d)
      PROVE  Routed(c)'
  <2>1. d # c /\ op'[c] = op[c]
    BY <1>1, <1>3 DEF Dispatch, Routed
  <2>2. Members(toExtension') = Members(toExtension) \cup {Request(d)}
    BY <1>1, <1>3, MembersAppend, MessageTypes DEF Dispatch
  <2> QED
    BY <2>1, <2>2 DEF Routed, Request
<1>4. ASSUME NEW d \in Calls, GiveUp(d)
      PROVE  Routed(c)'
  <2>1. Members(toExtension') = Members(toExtension) \cup {Cancelled(d)}
    BY <1>1, <1>4, MembersAppend, MessageTypes DEF GiveUp
  <2>2. op'[c] # "idle"
    BY <1>1, <1>4 DEF GiveUp, Routed
  <2> QED
    BY <2>1, <2>2 DEF Routed, Request, Cancelled
<1>5. ASSUME PortLost
      PROVE  Routed(c)'
  <2>1. toExtension' = <<>> /\ op'[c] # "idle"
    BY <1>5 DEF PortLost, Routed
  <2> QED
    BY <2>1, FewMessages DEF Routed, Members
<1>6. ASSUME Reconnect \/ ReceiveFromExtension
      PROVE  Routed(c)'
  <2>1. UNCHANGED toExtension /\ op'[c] # "idle"
    BY <1>1, <1>6
       DEF Reconnect, ReceiveFromExtension, ReceivePending, ReceiveResponse, Routed, Outcomes
  <2> QED
    BY <2>1 DEF Routed, Members
<1>7. ASSUME BackgroundReceives
      PROVE  Routed(c)'
  <2>1. toExtension # <<>> /\ toExtension' = Tail(toExtension) /\ UNCHANGED op
    BY <1>7 DEF BackgroundReceives, BackgroundOnly, ReceiveRequest, ReceiveCancelled
  <2>2. Members(toExtension') \subseteq Members(toExtension)
    BY <1>1, <2>1, MembersTail
  <2> QED
    BY <2>1, <2>2 DEF Routed
<1>8. ASSUME NEW d \in Calls,
             DispatchStep(d) \/ AgentStopsStep(d) \/ CompanionTimeoutStep(d)
      PROVE  Routed(c)'
  BY <1>3, <1>4, <1>8
     DEF DispatchStep, AgentStopsStep, AgentStops, CompanionTimeoutStep, CompanionTimeout
<1>9. ASSUME CompanionReceives \/ PortLostStep \/ ReconnectStep
      PROVE  Routed(c)'
  BY <1>5, <1>6, <1>9 DEF CompanionReceives, PortLostStep, ReconnectStep
<1>10. ASSUME NEW d \in Calls, CallStep(d)
       PROVE  Routed(c)'
  BY <1>2, <1>10, CallStepIsBackgrounds
<1>11. ASSUME NEW t \in Tabs, CloseTabStep(t)
       PROVE  Routed(c)'
  BY <1>2, <1>11 DEF CloseTabStep, CloseTab, Answer
<1>12. ASSUME \/ HostReceives
              \/ \E t \in Tabs : SurfaceStep(t) \/ Executes(t) \/ \E p \in Pages : NavigateStep(t, p)
       PROVE  Routed(c)'
  BY <1>2, <1>12
     DEF HostReceives, SurfaceStep, Executes, Begins, Checks, Confirms, Fails, Finishes,
         HostOnly, NavigateStep, nativeChannels
<1> QED
  BY <1>7, <1>8, <1>9, <1>10, <1>11, <1>12 DEF Next, CallStep

\* The steps of the other parts leave what the background knows of calls alone.
LEMMA OthersKeepRouting ==
  ASSUME \/ \E c \in Calls : DispatchStep(c) \/ AgentStopsStep(c) \/ CompanionTimeoutStep(c)
         \/ CompanionReceives \/ PortLostStep \/ ReconnectStep
         \/ HostReceives
         \/ \E t \in Tabs : SurfaceStep(t) \/ Executes(t) \/ \E p \in Pages : NavigateStep(t, p)
  PROVE  UNCHANGED backgroundVars
  BY DEF DispatchStep, AgentStopsStep, CompanionTimeoutStep, CompanionReceives, PortLostStep,
         ReconnectStep, CompanionOnly, HostReceives, SurfaceStep, Executes, Begins, Checks,
         Confirms, Fails, Finishes, HostOnly, NavigateStep

\* A message that was taken up was in the channel.
LEMMA RequestTaken ==
  ASSUME TypeInv, NEW c \in Calls, ReceiveRequest(c)
  PROVE  ~Routed(c)
  BY Types, MembersTail DEF ReceiveRequest, Routed

\* A call that is closed stays closed, and does not start to be routed again.
LEMMA ClosedKept ==
  ASSUME TypeInv, Next, NEW c \in Calls, Closed(c)
  PROVE  Closed(c)' /\ (stage[c] = "none" => stage'[c] = "none")
<1> DEFINE Stays == /\ decision'[c] # "open"
                    /\ stage'[c] \in {"route", "prepare"} => c \in cancelledCalls'
                    /\ stage'[c] = "sent" => c \notin pending'
                    /\ stage[c] = "none" => stage'[c] = "none"
<1> USE Types DEF Closed
<1>1. ASSUME UNCHANGED backgroundVars
      PROVE  Stays
  BY <1>1 DEF backgroundVars, routing, asking
<1>2. ASSUME BackgroundReceives
      PROVE  Stays
  <2>1. PICK d \in Calls : ReceiveRequest(d) \/ ReceiveCancelled(d)
    BY <1>2 DEF BackgroundReceives
  <2>2. CASE ReceiveRequest(d)
    <3>1. d # c
      BY <2>2, RequestTaken
    <3> QED
      BY <2>2, <3>1 DEF ReceiveRequest, asking
  <2>3. CASE ReceiveCancelled(d)
    BY <2>3 DEF ReceiveCancelled, CancelInHost
  <2> QED
    BY <2>1, <2>2, <2>3
<1>3. ASSUME NEW d \in Calls, Routes(d)
      PROVE  Stays
  BY <1>3 DEF Routes, RouteRefused, RouteWhileDeciding, RouteToTab, StartRun, RoutingEnded, asking
<1>4. ASSUME NEW d \in Calls, Prepares(d)
      PROVE  Stays
  BY <1>4
     DEF Prepares, SendOperation, DropCancelled, HostUnavailable, FinishRun, RoutingEnded, asking
<1>5. ASSUME NEW d \in Calls, HostReplies(d)
      PROVE  Stays
  <2>1. PICK r \in replies : HostAnswered(d, r) \/ AskPerson(d, r)
    BY <1>5 DEF HostReplies
  <2>2. CASE HostAnswered(d, r)
    BY <2>2 DEF HostAnswered, FinishRun, RoutingEnded, asking
  <2>3. CASE AskPerson(d, r)
    BY <2>3 DEF AskPerson, Asks, RoutingEnded
  <2> QED
    BY <2>1, <2>2, <2>3
<1>6. ASSUME NEW d \in Calls, CallTimeoutStep(d)
      PROVE  Stays
  BY <1>6 DEF CallTimeoutStep, CallTimeout, CancelInHost, asking
<1>7. ASSUME NEW d \in Calls, ExpireStep(d) \/ DenyStep(d)
      PROVE  Stays
  BY <1>7 DEF ExpireStep, Expire, DenyStep, Deny, Refuse, routing
<1>8. ASSUME NEW d \in Calls, NEW answer \in Allowing, AllowStep(d, answer)
      PROVE  Stays
  BY <1>8 DEF AllowStep, Allow, OpenCards, StartRun, Allowing
<1>9. ASSUME NEW t \in Tabs, CloseTabStep(t)
      PROVE  Stays
  BY <1>9 DEF CloseTabStep, CloseTab, routing
<1>10. Stays
  BY <1>1, <1>2, <1>3, <1>4, <1>5, <1>6, <1>7, <1>8, <1>9, OthersKeepRouting DEF Next
<1> QED
  BY <1>10, RoutedKept

\* So does a call that is over.
LEMMA OverKept ==
  ASSUME TypeInv, Next, NEW c \in Calls, Over(c)
  PROVE  Over(c)'
<1>1. Closed(c)
  BY DEF Over, Closed
<1> QED
  BY <1>1, ClosedKept DEF Over, Closed

-----------------------------------------------------------------------------
(* Requests and their cancellations *)

\* A call that has a tab or is under way was routed.
LEMMA TabMeansRouted ==
  ASSUME TypeInv, FreshRequests, NEW c \in Calls, tabOf[c] # NoTab \/ stage[c] # "none"
  PROVE  Routed(c)
<1>1. op[c] # "idle"
  BY DEF FreshRequests
<1>2. ASSUME NEW i \in 1..Len(toExtension), toExtension[i] = Request(c)
      PROVE  FALSE
  <2>1. Request(c).type = "request" /\ Request(c).call = c
    BY DEF Request
  <2> QED
    BY <1>2, <2>1 DEF FreshRequests
<1> QED
  BY <1>1, <1>2 DEF Routed, Members

\* A call on the 30 s timer has a tab, and no card while the timer runs.
LEMMA PendingRoutedKept ==
  ASSUME TypeInv, CardsFollowCalls, PendingRouted, Next
  PROVE  PendingRouted'
<1> USE Types, ConstantsAssumption DEF PendingRouted
<1> pending \subseteq Calls
  BY DEF TypeInv, TypeOK, BackgroundTypeOK
<1>1. ASSUME UNCHANGED backgroundVars
      PROVE  PendingRouted'
  BY <1>1 DEF backgroundVars, routing, asking
<1>2. ASSUME BackgroundReceives
      PROVE  PendingRouted'
  BY <1>2 DEF BackgroundReceives, ReceiveRequest, ReceiveCancelled, asking
<1>3. ASSUME NEW c \in Calls, Routes(c)
      PROVE  PendingRouted'
  <2>1. CASE UNCHANGED <<pending, tabOf, asking>>
    BY <2>1 DEF asking
  <2>2. ASSUME NEW t \in Tabs, RouteToTab(c, t)
        PROVE  PendingRouted'
    <3>1. decision[c] # "open"
      BY <2>2 DEF RouteToTab, CardsFollowCalls, Allowing
    <3> QED
      BY <2>2, <3>1 DEF RouteToTab, StartRun, asking
  <2> QED
    BY <1>3, <2>1, <2>2 DEF Routes, RouteRefused, RouteWhileDeciding
<1>4. ASSUME NEW c \in Calls, Prepares(c)
      PROVE  PendingRouted'
  BY <1>4 DEF Prepares, SendOperation, DropCancelled, HostUnavailable, FinishRun, asking
<1>5. ASSUME NEW c \in Calls, HostReplies(c)
      PROVE  PendingRouted'
  BY <1>5 DEF HostReplies, HostAnswered, AskPerson, FinishRun, asking
<1>6. ASSUME NEW c \in Calls, CallTimeoutStep(c)
      PROVE  PendingRouted'
  BY <1>6 DEF CallTimeoutStep, CallTimeout, asking
<1>7. ASSUME NEW c \in Calls, ExpireStep(c) \/ DenyStep(c)
      PROVE  PendingRouted'
  BY <1>7 DEF ExpireStep, Expire, DenyStep, Deny, Refuse, OpenCards, routing
<1>8. ASSUME NEW c \in Calls, NEW answer \in Allowing, AllowStep(c, answer)
      PROVE  PendingRouted'
  BY <1>8 DEF AllowStep, Allow, OpenCards, StartRun, Allowing, CallsHaveTabs
<1>9. ASSUME NEW t \in Tabs, CloseTabStep(t)
      PROVE  PendingRouted'
  BY <1>9 DEF CloseTabStep, CloseTab, routing
<1> QED
  BY <1>1, <1>2, <1>3, <1>4, <1>5, <1>6, <1>7, <1>8, <1>9, OthersKeepRouting DEF Next

\* A cancellation follows the request it voids.
LEMMA CancelsFollowKept ==
  ASSUME TypeInv, CancelsFollow, Next
  PROVE  CancelsFollow'
<1> DEFINE n == Len(toExtension)
<1>1. /\ toExtension \in Seq(ToExtension)
      /\ n \in Nat
      /\ op \in [Calls -> {"idle"} \cup Waiting \cup Unanswered \cup Outcomes]
  BY Types, LenProperties DEF TypeInv, TypeOK, CompanionTypeOK
<1>2. ASSUME UNCHANGED toExtension, \A c \in Calls : op[c] # "idle" => op'[c] # "idle"
      PROVE  CancelsFollow'
  BY <1>2 DEF CancelsFollow
<1>3. ASSUME NEW d \in Calls, NEW m \in ToExtension, toExtension' = Append(toExtension, m),
             \/ m = Request(d) /\ op[d] = "idle"
             \/ m = Cancelled(d),
             \A c \in Calls : c = d \/ op[c] # "idle" => op'[c] # "idle"
      PROVE  CancelsFollow'
  <2>1. /\ Len(toExtension') = n + 1
        /\ \A i \in 1..n : toExtension'[i] = toExtension[i]
        /\ toExtension'[n + 1] = m
    BY <1>1, <1>3, AppendProperties
  <2> SUFFICES ASSUME NEW c \in Calls, NEW j \in 1..n + 1, toExtension'[j] = Cancelled(c)
               PROVE  /\ op'[c] # "idle"
                      /\ \A i \in 1..n + 1 : toExtension'[i] = Request(c) => i < j
    BY <2>1 DEF CancelsFollow
  <2>2. CASE j \in 1..n
    <3>1. op[c] # "idle" /\ \A i \in 1..n : toExtension[i] = Request(c) => i < j
      BY <2>1, <2>2 DEF CancelsFollow
    <3>2. m # Request(c)
      BY <1>3, <3>1 DEF Request, Cancelled
    <3>3. \A i \in 1..n + 1 : i \in 1..n \/ i = n + 1
      BY <1>1
    <3> QED
      BY <1>3, <2>1, <3>1, <3>2, <3>3
  <2>3. CASE j = n + 1
    <3>1. c = d /\ m = Cancelled(c)
      BY <1>3, <2>1, <2>3 DEF Request, Cancelled
    <3>2. m # Request(c)
      BY <3>1 DEF Request, Cancelled
    <3>3. \A i \in 1..n + 1 : i < n + 1 \/ i = n + 1
      BY <1>1
    <3> QED
      BY <1>3, <2>1, <2>3, <3>1, <3>2, <3>3
  <2> QED
    BY <1>1, <2>2, <2>3
<1>4. ASSUME NEW d \in Calls, DispatchStep(d) \/ AgentStopsStep(d) \/ CompanionTimeoutStep(d)
      PROVE  CancelsFollow'
  <2>1. Dispatch(d) \/ GiveUp(d)
    BY <1>4 DEF DispatchStep, AgentStopsStep, AgentStops, CompanionTimeoutStep, CompanionTimeout
  <2>2. \A c \in Calls : c = d \/ op[c] # "idle" => op'[c] # "idle"
    BY <1>1, <2>1 DEF Dispatch, GiveUp
  <2> QED
    BY <1>3, <2>1, <2>2, MessageTypes DEF Dispatch, GiveUp
<1>5. ASSUME PortLostStep
      PROVE  CancelsFollow'
  <2>1. Len(toExtension') = 0
    BY <1>5, EmptySeq DEF PortLostStep, PortLost
  <2> QED
    BY <2>1 DEF CancelsFollow
<1>6. ASSUME CompanionReceives \/ ReconnectStep
      PROVE  CancelsFollow'
  BY <1>1, <1>2, <1>6
     DEF CompanionReceives, ReconnectStep, Reconnect, ReceiveFromExtension, ReceivePending,
         ReceiveResponse, Outcomes
<1>7. ASSUME BackgroundReceives
      PROVE  CancelsFollow'
  <2>1. toExtension # <<>> /\ toExtension' = Tail(toExtension) /\ UNCHANGED op
    BY <1>7 DEF BackgroundReceives, BackgroundOnly, ReceiveRequest, ReceiveCancelled
  <2>2. /\ Len(toExtension') = n - 1
        /\ \A i \in 1..n - 1 : toExtension'[i] = toExtension[i + 1] /\ i + 1 \in 1..n
    BY <1>1, <2>1, HeadTailProperties, EmptySeq
  <2> QED
    BY <2>1, <2>2 DEF CancelsFollow
<1>8. ASSUME NEW c \in Calls, CallStep(c)
      PROVE  CancelsFollow'
  BY <1>2, <1>8, CallStepIsBackgrounds
<1>9. ASSUME NEW t \in Tabs, CloseTabStep(t)
      PROVE  CancelsFollow'
  BY <1>2, <1>9 DEF CloseTabStep, CloseTab, Answer
<1>10. ASSUME \/ HostReceives
              \/ \E t \in Tabs : SurfaceStep(t) \/ Executes(t) \/ \E p \in Pages : NavigateStep(t, p)
       PROVE  CancelsFollow'
  BY <1>2, <1>10
     DEF HostReceives, SurfaceStep, Executes, Begins, Checks, Confirms, Fails, Finishes,
         HostOnly, NavigateStep, nativeChannels
<1> QED
  BY <1>4, <1>5, <1>6, <1>7, <1>8, <1>9, <1>10 DEF Next, CallStep

\* The background voids a call that was routed before, and for good.
LEMMA CancelTakenIsClosed ==
  ASSUME TypeInv, FreshRequests, CardsFollowCalls, CancelsFollow, Next,
         NEW c \in Calls, ReceiveCancelled(c), UNCHANGED op
  PROVE  Closed(c)'
<1>1. toExtension \in Seq(ToExtension) /\ toExtension # <<>> /\ toExtension[1] = Cancelled(c)
  BY Types DEF ReceiveCancelled
<1>2. Len(toExtension) \in Nat /\ 1 \in 1..Len(toExtension)
  BY <1>1, EmptySeq, LenProperties
<1>3. Routed(c)
  <2>1. /\ op[c] # "idle"
        /\ \A i \in 1..Len(toExtension) : toExtension[i] = Request(c) => i < 1
    BY <1>1, <1>2 DEF CancelsFollow
  <2>2. \A i \in 1..Len(toExtension) : ~(i < 1)
    BY <1>2
  <2> QED
    BY <2>1, <2>2 DEF Routed, Members
<1>4. Routed(c)'
  BY <1>3, RoutedKept
<1>5. /\ decision'[c] # "open"
      /\ c \notin pending'
      /\ stage'[c] # "none" => c \in cancelledCalls'
  BY Types DEF ReceiveCancelled, OpenCards, CancelInHost, RoutingCalls
<1> QED
  BY <1>4, <1>5 DEF Closed

\* So does the call's own timer.
LEMMA TimeoutIsClosed ==
  ASSUME TypeInv, FreshRequests, PendingRouted, Next, NEW c \in Calls, CallTimeout(c)
  PROVE  Closed(c)'
<1>1. Routed(c) /\ decision[c] # "open"
  BY TabMeansRouted DEF CallTimeout, PendingRouted
<1>2. Routed(c)'
  BY <1>1, RoutedKept
<1>3. /\ decision'[c] # "open"
      /\ c \notin pending'
      /\ stage'[c] # "none" => c \in cancelledCalls'
  BY <1>1, Types DEF CallTimeout, CancelInHost, RoutingCalls, asking
<1> QED
  BY <1>2, <1>3 DEF Closed

-----------------------------------------------------------------------------
(* Operations in a sequence of messages *)

\* What an element added to a sequence adds to the calls it holds.
LEMMA CallsAppend ==
  ASSUME NEW S, NEW q \in Seq(S), NEW m \in S, m.type = "operation"
  PROVE  /\ CallsOf(Append(q, m)) = CallsOf(q) \cup {m.call}
         /\ Alone(q) /\ m.call \notin CallsOf(q) => Alone(Append(q, m))
<1> DEFINE n == Len(q)
<1>1. CallsOf(Append(q, m)) = CallsOf(q) \cup {m.call}
  BY MembersAppend DEF CallsOf
<1>2. /\ Len(Append(q, m)) = n + 1
      /\ \A i \in 1..n : Append(q, m)[i] = q[i]
      /\ Append(q, m)[n + 1] = m
  BY AppendProperties
<1>3. \A i \in 1..n + 1 : i \in 1..n \/ i = n + 1
  BY LenProperties
<1>4. \A i \in 1..n : q[i].type = "operation" => q[i].call \in CallsOf(q)
  BY DEF CallsOf, Members
<1> QED
  BY <1>1, <1>2, <1>3, <1>4 DEF Alone

\* A sequence holds its first and what remains.
LEMMA MembersHeadTail ==
  ASSUME NEW S, NEW q \in Seq(S), q # <<>>
  PROVE  Members(q) \subseteq Members(Tail(q)) \cup {Head(q)}
<1> DEFINE n == Len(q)
<1>1. n \in Nat \ {0} /\ Head(q) = q[1]
  BY EmptySeq
<1>2. /\ Len(Tail(q)) = n - 1
      /\ \A i \in 1..n - 1 : Tail(q)[i] = q[i + 1]
  BY <1>1, HeadTailProperties
<1>3. \A i \in 1..n : i = 1 \/ (i - 1 \in 1..n - 1 /\ (i - 1) + 1 = i)
  BY <1>1
<1> QED
  BY <1>1, <1>2, <1>3 DEF Members

\* What a sequence holds after its first was taken.
LEMMA CallsTail ==
  ASSUME NEW S, NEW q \in Seq(S), q # <<>>
  PROVE  /\ CallsOf(Tail(q)) \subseteq CallsOf(q)
         /\ Head(q).type = "operation" => Head(q).call \in CallsOf(q)
         /\ CallsOf(q) \subseteq CallsOf(Tail(q)) \cup {Head(q).call}
         /\ Alone(q) => Alone(Tail(q))
         /\ Alone(q) /\ Head(q).type = "operation" => Head(q).call \notin CallsOf(Tail(q))
<1> DEFINE n == Len(q)
<1>1. n \in Nat \ {0} /\ Head(q) = q[1]
  BY EmptySeq
<1>2. /\ Len(Tail(q)) = n - 1
      /\ \A i \in 1..n - 1 : Tail(q)[i] = q[i + 1] /\ i + 1 \in 1..n /\ i + 1 # 1
  BY <1>1, HeadTailProperties
<1>3. 1 \in 1..n /\ \A i \in 1..n : i = 1 \/ (i - 1 \in 1..n - 1 /\ (i - 1) + 1 = i)
  BY <1>1
<1>4. CallsOf(Tail(q)) \subseteq CallsOf(q) /\ (Head(q).type = "operation" => Head(q).call \in CallsOf(q))
  BY MembersTail DEF CallsOf
<1>5. CallsOf(q) \subseteq CallsOf(Tail(q)) \cup {Head(q).call}
  BY MembersHeadTail DEF CallsOf
<1>6. ASSUME Alone(q)
      PROVE  Alone(Tail(q))
  BY <1>2, <1>6 DEF Alone
<1>7. ASSUME Alone(q), Head(q).type = "operation", Head(q).call \in CallsOf(Tail(q))
      PROVE  FALSE
  <2>1. PICK i \in 1..n - 1 : Tail(q)[i].type = "operation" /\ Tail(q)[i].call = Head(q).call
    BY <1>2, <1>7 DEF CallsOf, Members
  <2> QED
    BY <1>1, <1>2, <1>3, <1>7, <2>1 DEF Alone
<1> QED
  BY <1>4, <1>5, <1>6, <1>7

\* The positions of two sequences one after the other.
LEMMA Concatenated ==
  ASSUME NEW S, NEW p \in Seq(S), NEW q \in Seq(S)
  PROVE  /\ Len(p) \in Nat /\ Len(p \o q) \in Nat /\ Len(p) <= Len(p \o q)
         /\ \A i \in 1..Len(p) : i \in 1..Len(p \o q) /\ (p \o q)[i] = p[i]
         /\ \A i \in 1..Len(p \o q) : i \notin 1..Len(p) =>
              Len(p) < i /\ (p \o q)[i] \in Members(q)
<1>1. Len(p) \in Nat /\ Len(q) \in Nat
  BY LenProperties
<1>2. /\ Len(p \o q) = Len(p) + Len(q)
      /\ \A i \in 1..Len(p) + Len(q) :
           (p \o q)[i] = IF i <= Len(p) THEN p[i] ELSE q[i - Len(p)]
  BY ConcatProperties
<1>3. \A i \in 1..Len(p) : i \in 1..Len(p) + Len(q) /\ i <= Len(p)
  BY <1>1
<1>4. \A i \in 1..Len(p) + Len(q) : i \notin 1..Len(p) =>
        Len(p) < i /\ ~(i <= Len(p)) /\ i - Len(p) \in 1..Len(q)
  BY <1>1
<1> QED
  BY <1>1, <1>2, <1>3, <1>4 DEF Members

\* Messages that are no operations add no calls.
LEMMA CallsConcat ==
  ASSUME NEW S, NEW p \in Seq(S), NEW q \in Seq(S), \A m \in Members(q) : m.type # "operation"
  PROVE  CallsOf(p \o q) = CallsOf(p) /\ (Alone(p) => Alone(p \o q))
<1>1. \A m \in Members(p \o q) : m \in Members(p) \/ m.type # "operation"
  BY MembersConcat
<1>2. Members(p) \subseteq Members(p \o q)
  BY Concatenated DEF Members
<1> QED
  BY <1>1, <1>2, Concatenated DEF CallsOf, Alone

-----------------------------------------------------------------------------
(* What the background posts *)

\* What holds of every message the background posts, but of operations.
Follows(m) ==
  /\ m.type # "operation"
  /\ \A c \in Calls : m = OperationCancel(c) => Closed(c)
  /\ \A c \in Calls : m = GrantRevoke(c) => decision[c] \in Refusing

\* Every message of the background follows from what it knows.
PostsWhatFollows ==
  \E ms \in Seq(ToHost) : toHost' = toHost \o ms /\ \A m \in Members(ms) : Follows(m)'

\* A step that posts nothing.
LEMMA PostsNothing ==
  ASSUME TypeInv, UNCHANGED toHost
  PROVE  PostsWhatFollows
<1>1. <<>> \in Seq(ToHost) /\ Members(<<>>) = {} /\ toHost \o <<>> = toHost
  BY Types, FewMessages, ConcatEmptySeq
<1> QED
  BY <1>1 DEF PostsWhatFollows

\* Which of the messages about a tab or a card follow from the state.
LEMMA FollowsByType ==
  /\ \A t : Follows(ApprovalSettled(t))'
  /\ \A t : Follows(TabClosed(t))'
  /\ \A c, t, p : Follows(GrantOffer(c, t, p))'
  /\ \A c : decision'[c] \in Refusing => Follows(GrantRevoke(c))'
  /\ \A c : Closed(c)' => Follows(OperationCancel(c))'
  BY DEF Follows, ApprovalSettled, TabClosed, GrantOffer, GrantRevoke, OperationCancel

\* The end of a run releases the tab at most.
LEMMA FinishFollows ==
  ASSUME TypeInv, NEW c \in Calls, NEW released, NEW outcome,
         stage[c] \in {"prepare", "sent"}, FinishRun(c, released, outcome)
  PROVE  PostsWhatFollows
<1> DEFINE ms == IF released THEN <<ApprovalSettled(tabOf[c])>> ELSE <<>>
<1>1. ApprovalSettled(tabOf[c]) \in ToHost
  BY Types, TabMessageTypes DEF CallsHaveTabs
<1>2. ms \in Seq(ToHost) /\ Members(ms) \subseteq {ApprovalSettled(tabOf[c])}
  BY <1>1, FewMessages
<1>3. toHost' = toHost \o ms
  BY DEF FinishRun, Post
<1> HIDE DEF ms
<1> QED
  BY <1>2, <1>3, FollowsByType DEF PostsWhatFollows

\* A refused card is revoked in the host, and its tab released.
LEMMA RefuseFollows ==
  ASSUME TypeInv, NEW c \in Calls, NEW ending \in Refusing, Refuse(c, ending)
  PROVE  PostsWhatFollows
<1> DEFINE ms == <<GrantRevoke(c), ApprovalSettled(tabOf[c])>>
<1>1. tabOf[c] \in Tabs /\ decision'[c] \in Refusing
  BY Types DEF Refuse, OpenCards, CallsHaveTabs
<1>2. ms \in Seq(ToHost) /\ Members(ms) = {GrantRevoke(c), ApprovalSettled(tabOf[c])}
  BY <1>1, MessageTypes, TabMessageTypes, FewMessages
<1>3. toHost' = toHost \o ms
  BY DEF Refuse, Post
<1> HIDE DEF ms
<1> QED
  BY <1>1, <1>2, <1>3, FollowsByType DEF PostsWhatFollows

\* A voided call is closed; its card, if it has one, is refused.
LEMMA CancelFollows ==
  ASSUME TypeInv, NEW c \in Calls, CallTimeout(c) \/ ReceiveCancelled(c), Closed(c)'
  PROVE  PostsWhatFollows
<1> DEFINE few == <<OperationCancel(c)>>
           all == <<GrantRevoke(c), ApprovalSettled(tabOf[c]), OperationCancel(c)>>
<1>1. few \in Seq(ToHost) /\ Members(few) = {OperationCancel(c)}
  BY MessageTypes, FewMessages
<1>2. CASE toHost' = toHost \o few
  <2> HIDE DEF few
  <2> QED
    BY <1>1, <1>2, FollowsByType DEF PostsWhatFollows
<1>3. CASE toHost' = toHost \o all /\ c \in OpenCards /\ ReceiveCancelled(c)
  <2>1. tabOf[c] \in Tabs /\ decision'[c] \in Refusing
    BY <1>3, Types DEF ReceiveCancelled, OpenCards, CallsHaveTabs, Refusing
  <2>2. /\ all \in Seq(ToHost)
        /\ Members(all) = {GrantRevoke(c), ApprovalSettled(tabOf[c]), OperationCancel(c)}
    BY <2>1, MessageTypes, TabMessageTypes, FewMessages
  <2> HIDE DEF all
  <2> QED
    BY <1>3, <2>1, <2>2, FollowsByType DEF PostsWhatFollows
<1> QED
  BY <1>2, <1>3 DEF CallTimeout, ReceiveCancelled, Post

\* The cards of a closed tab are refused, and nothing else is said of calls.
LEMMA CloseTabFollows ==
  ASSUME TypeInv, NEW t \in Tabs, CloseTab(t)
  PROVE  PostsWhatFollows
<1> DEFINE n == Cardinality(CardsOn(t))
<1>1. n \in Nat /\ CardsOn(t) \subseteq Calls
  BY CardsFinite
<1>2. PICK order \in [1..n -> CardsOn(t)] : Post(<<TabClosed(t)>> \o Refusals(order, t))
  BY DEF CloseTab
<1> DEFINE refusals == Refusals(order, t)
<1>3. order \in [1..n -> Calls] /\ order \in Seq(CardsOn(t)) /\ Len(order) = n
  BY <1>1, <1>2, SeqDef
<1>4. refusals \in Seq(ToHost)
  BY <1>1, <1>3, RefusalsType
<1>5. ASSUME NEW m \in Members(refusals)
      PROVE  m = ApprovalSettled(t) \/ \E c \in CardsOn(t) : m = GrantRevoke(c)
  <2>1. refusals = [i \in 1..2 * n |->
                      IF i % 2 = 1 THEN GrantRevoke(order[(i + 1) \div 2]) ELSE ApprovalSettled(t)]
    BY <1>3 DEF Refusals
  <2>2. Len(refusals) = 2 * n
    BY <1>1, <1>4, <2>1, LenProperties
  <2>3. PICK i \in 1..2 * n : m = refusals[i]
    BY <2>2 DEF Members
  <2>4. i % 2 = 1 => (i + 1) \div 2 \in 1..n
    BY <1>1
  <2> QED
    BY <1>2, <2>1, <2>3, <2>4
<1>6. <<TabClosed(t)>> \in Seq(ToHost) /\ Members(<<TabClosed(t)>>) = {TabClosed(t)}
  BY TabMessageTypes, FewMessages
<1>7. \A c \in CardsOn(t) : decision'[c] \in Refusing
  BY <1>1 DEF CloseTab, Refusing
<1> HIDE DEF refusals
<1> DEFINE ms == <<TabClosed(t)>> \o refusals
<1>8. ms \in Seq(ToHost) /\ Members(ms) \subseteq {TabClosed(t)} \cup Members(refusals)
  BY <1>4, <1>6, ConcatProperties, MembersConcat
<1>9. toHost' = toHost \o ms
  BY <1>2 DEF Post, refusals
<1> HIDE DEF ms
<1> QED
  BY <1>5, <1>7, <1>8, <1>9, FollowsByType DEF PostsWhatFollows

\* Every step of the background but the sending of an operation.
LEMMA BackgroundFollows ==
  ASSUME TypeInv, FreshRequests, CardsFollowCalls, CancelsFollow, PendingRouted, Next,
         \/ \E c \in Calls : CallStep(c) /\ ~SendOperation(c)
         \/ BackgroundReceives
         \/ \E t \in Tabs : CloseTabStep(t)
  PROVE  PostsWhatFollows
<1>1. ASSUME NEW c \in Calls, Routes(c)
      PROVE  PostsWhatFollows
  BY <1>1, PostsNothing DEF Routes, RouteRefused, RouteWhileDeciding, RouteToTab, hostChannels
<1>2. ASSUME NEW c \in Calls, Prepares(c), ~SendOperation(c)
      PROVE  PostsWhatFollows
  BY <1>2, PostsNothing, FinishFollows DEF Prepares, DropCancelled, HostUnavailable, hostChannels
<1>3. ASSUME NEW c \in Calls, HostReplies(c)
      PROVE  PostsWhatFollows
  <2>1. PICK r \in replies : HostAnswered(c, r) \/ AskPerson(c, r)
    BY <1>3 DEF HostReplies
  <2>2. CASE HostAnswered(c, r)
    BY <2>2, FinishFollows DEF HostAnswered
  <2>3. CASE AskPerson(c, r)
    <3>1. tabOf[c] \in Tabs /\ r.page \in Pages
      BY <2>3, Types DEF AskPerson, Asks, CallsHaveTabs, TypeInv, TypeOK, ChannelsTypeOK, Reply
    <3>2. PICK m : m = GrantOffer(c, tabOf[c], r.page)
      OBVIOUS
    <3>3. <<m>> \in Seq(ToHost) /\ Members(<<m>>) = {m}
      BY <3>1, <3>2, MessageTypes, FewMessages
    <3>4. toHost' = toHost \o <<m>>
      BY <2>3, <3>2 DEF AskPerson, Post
    <3> QED
      BY <3>2, <3>3, <3>4, FollowsByType DEF PostsWhatFollows
  <2> QED
    BY <2>1, <2>2, <2>3
<1>4. ASSUME NEW c \in Calls, CallTimeoutStep(c)
      PROVE  PostsWhatFollows
  BY <1>4, TimeoutIsClosed, CancelFollows DEF CallTimeoutStep
<1>5. ASSUME NEW c \in Calls, ExpireStep(c) \/ DenyStep(c)
      PROVE  PostsWhatFollows
  BY <1>5, RefuseFollows DEF ExpireStep, Expire, DenyStep, Deny, Refusing
<1>6. ASSUME NEW c \in Calls, NEW answer \in Allowing, AllowStep(c, answer)
      PROVE  PostsWhatFollows
  BY <1>6, PostsNothing DEF AllowStep, Allow, hostChannels
<1>7. ASSUME BackgroundReceives
      PROVE  PostsWhatFollows
  <2>1. PICK c \in Calls : ReceiveRequest(c) \/ ReceiveCancelled(c)
    BY <1>7 DEF BackgroundReceives
  <2>2. UNCHANGED op
    BY <1>7 DEF BackgroundReceives, BackgroundOnly
  <2>3. CASE ReceiveRequest(c)
    BY <2>3, PostsNothing DEF ReceiveRequest
  <2>4. CASE ReceiveCancelled(c)
    BY <2>2, <2>4, CancelTakenIsClosed, CancelFollows
  <2> QED
    BY <2>1, <2>3, <2>4
<1>8. ASSUME NEW t \in Tabs, CloseTabStep(t)
      PROVE  PostsWhatFollows
  BY <1>8, CloseTabFollows DEF CloseTabStep
<1> QED
  BY <1>1, <1>2, <1>3, <1>4, <1>5, <1>6, <1>7, <1>8 DEF CallStep

-----------------------------------------------------------------------------
(* What a step of the host on a tab amounts to *)

\* execute returns without having called the tool.
GivesUp(t) ==
  /\ ~Runs(t)
  /\ \E a : a.call = Current(t).call /\ a.kind # "ran" /\ Return(t, a)
  /\ UNCHANGED ran

\* The call comes closer to its tool.
Proceeds(t) ==
  /\ ~Runs(t)
  /\ \E s \in {"checking", "confirming"} : phase' = [phase EXCEPT ![t] = s]
  /\ UNCHANGED <<replies, queue, hostCancelled, ran>>

\* The tool is called.
Starts(t) ==
  /\ ~Runs(t)
  /\ Current(t).call \notin hostCancelled
  /\ phase' = [phase EXCEPT ![t] = "running"]
  /\ \E p, by : ran' = ran \cup {[call |-> Current(t).call, tab |-> t, page |-> p, by |-> by]}
  /\ UNCHANGED <<replies, queue, hostCancelled>>

\* The tool has settled.
Settles(t) ==
  /\ Runs(t)
  /\ \E a : a.call = Current(t).call /\ a.kind = "ran" /\ Return(t, a)
  /\ UNCHANGED ran

\* These are the steps of a tab's execution, each on the head of a queue.
LEMMA ExecutesMeans ==
  ASSUME TypeInv, NEW t \in Tabs, Executes(t)
  PROVE  /\ HostOnly
         /\ queue[t] # <<>>
         /\ UNCHANGED <<toHost, surfaceWait, surfaceCancelled, stopped>>
         /\ GivesUp(t) \/ Proceeds(t) \/ Starts(t) \/ Settles(t)
<1> USE DEF Runs
<1>1. HostOnly /\ queue[t] # <<>>
  BY Types
     DEF Executes, Begins, BeginCancelled, BeginWithoutOffer, BeginHeld, Begin, MayBegin,
         Checks, CheckReading, CheckAllowed, CheckMismatch, CheckRefused, Confirms, ConfirmStale,
         Confirm, Fails, Unreachable, Finishes, Finish, ExecutingHasCall
<1>2. ASSUME ReturnNotRun(t), UNCHANGED ran, phase[t] \in {"idle", "checking", "confirming"}
      PROVE  GivesUp(t)
  BY <1>2 DEF ReturnNotRun, GivesUp
<1>3. ASSUME NEW by, NEW p, Start(t, by, p), phase[t] \in {"checking", "confirming"}
      PROVE  /\ UNCHANGED <<toHost, surfaceWait, surfaceCancelled, stopped>>
             /\ GivesUp(t) \/ Starts(t)
  BY <1>2, <1>3 DEF Start, Starts, hostChannels
<1>4. ASSUME Begins(t)
      PROVE  /\ UNCHANGED <<toHost, surfaceWait, surfaceCancelled, stopped>>
             /\ GivesUp(t) \/ Proceeds(t)
  <2>1. ASSUME BeginCancelled(t) \/ BeginWithoutOffer(t) \/ BeginHeld(t)
        PROVE  /\ UNCHANGED <<toHost, surfaceWait, surfaceCancelled, stopped>>
               /\ GivesUp(t)
    BY <1>2, <2>1 DEF BeginCancelled, BeginWithoutOffer, BeginHeld, MayBegin
  <2>2. ASSUME Begin(t)
        PROVE  /\ UNCHANGED <<toHost, surfaceWait, surfaceCancelled, stopped>>
               /\ Proceeds(t)
    BY <2>2 DEF Begin, MayBegin, Proceeds, hostChannels
  <2> QED
    BY <1>4, <2>1, <2>2 DEF Begins
<1>5. ASSUME Checks(t)
      PROVE  /\ UNCHANGED <<toHost, surfaceWait, surfaceCancelled, stopped>>
             /\ GivesUp(t) \/ Proceeds(t) \/ Starts(t)
  <2>1. ASSUME CheckReading(t)
        PROVE  /\ UNCHANGED <<toHost, surfaceWait, surfaceCancelled, stopped>>
               /\ GivesUp(t) \/ Starts(t)
    BY <1>3, <2>1 DEF CheckReading
  <2>2. ASSUME CheckAllowed(t)
        PROVE  /\ UNCHANGED <<toHost, surfaceWait, surfaceCancelled, stopped>>
               /\ Proceeds(t)
    BY <2>2 DEF CheckAllowed, Proceeds, hostChannels
  <2>3. ASSUME CheckMismatch(t)
        PROVE  /\ UNCHANGED <<toHost, surfaceWait, surfaceCancelled, stopped>>
               /\ GivesUp(t)
    BY <1>2, <2>3 DEF CheckMismatch
  <2>4. ASSUME CheckRefused(t)
        PROVE  /\ UNCHANGED <<toHost, surfaceWait, surfaceCancelled, stopped>>
               /\ GivesUp(t)
    BY <2>4 DEF CheckRefused, GivesUp
  <2> QED
    BY <1>5, <2>1, <2>2, <2>3, <2>4 DEF Checks
<1>6. ASSUME Confirms(t)
      PROVE  /\ UNCHANGED <<toHost, surfaceWait, surfaceCancelled, stopped>>
             /\ GivesUp(t) \/ Starts(t)
  <2>1. ASSUME Confirm(t)
        PROVE  /\ UNCHANGED <<toHost, surfaceWait, surfaceCancelled, stopped>>
               /\ GivesUp(t) \/ Starts(t)
    <3>1. PICK by : Start(t, by, checked[t])
      BY <2>1 DEF Confirm
    <3> QED
      BY <1>3, <2>1, <3>1 DEF Confirm
  <2>2. ASSUME ConfirmStale(t)
        PROVE  /\ UNCHANGED <<toHost, surfaceWait, surfaceCancelled, stopped>>
               /\ GivesUp(t)
    BY <1>2, <2>2 DEF ConfirmStale
  <2> QED
    BY <1>6, <2>1, <2>2 DEF Confirms
<1>7. ASSUME Fails(t)
      PROVE  /\ UNCHANGED <<toHost, surfaceWait, surfaceCancelled, stopped>>
             /\ GivesUp(t)
  BY <1>2, <1>7 DEF Fails, Unreachable
<1>8. ASSUME Finishes(t)
      PROVE  /\ UNCHANGED <<toHost, surfaceWait, surfaceCancelled, stopped>>
             /\ Settles(t)
  BY <1>8 DEF Finishes, Finish, Settles
<1> QED
  BY <1>1, <1>4, <1>5, <1>6, <1>7, <1>8 DEF Executes

-----------------------------------------------------------------------------
(* A call is in one place *)

\* A call the host holds for a tab was routed to that tab.
LEMMA InHandOnTab ==
  ASSUME TypeInv, QueuesHonest, NEW t \in Tabs, NEW c \in InHand(t)
  PROVE  c \in Calls /\ tabOf[c] = t
<1>1. PICK m \in Queued(t) : m.call = c
  BY DEF InHand, CallsOf, Queued
<1> QED
  BY <1>1, QueuedOperations DEF QueuesHonest, Honest, Operation

\* The call a tab executes is one the host holds for it.
LEMMA CurrentInHand ==
  ASSUME TypeInv, NEW t \in Tabs, queue[t] # <<>>
  PROVE  /\ Current(t).type = "operation"
         /\ Current(t).call \in CallsOf(queue[t])
         /\ Current(t).call \in InHand(t)
         /\ Current(t) \in Members(queue[t])
<1>1. Current(t) \in Members(queue[t]) /\ Current(t) \in Operation
  BY Types, MembersTail DEF Current
<1> QED
  BY <1>1 DEF Operation, CallsOf, InHand

\* A call sent to the host stays so until the background takes up its answer.
LEMMA SentStays ==
  ASSUME TypeInv, FreshRequests, CardsFollowCalls, Next, NEW c \in Calls, stage[c] = "sent",
         ~HostReplies(c)
  PROVE  stage'[c] = "sent"
<1> USE Types
<1>1. ASSUME UNCHANGED backgroundVars
      PROVE  stage'[c] = "sent"
  BY <1>1 DEF backgroundVars, routing
<1>2. ASSUME BackgroundReceives
      PROVE  stage'[c] = "sent"
  <2>1. PICK d \in Calls : ReceiveRequest(d) \/ ReceiveCancelled(d)
    BY <1>2 DEF BackgroundReceives
  <2>2. ReceiveRequest(d) => d # c
    BY TabMeansRouted, RequestTaken
  <2> QED
    BY <2>1, <2>2 DEF ReceiveRequest, ReceiveCancelled
<1>3. ASSUME NEW d \in Calls, Routes(d)
      PROVE  stage'[c] = "sent"
  BY <1>3 DEF Routes, RouteRefused, RouteWhileDeciding, RouteToTab, StartRun, RoutingEnded
<1>4. ASSUME NEW d \in Calls, Prepares(d)
      PROVE  stage'[c] = "sent"
  BY <1>4 DEF Prepares, SendOperation, DropCancelled, HostUnavailable, FinishRun, RoutingEnded
<1>5. ASSUME NEW d \in Calls, HostReplies(d)
      PROVE  stage'[c] = "sent"
  BY ZenonT(30), <1>5 DEF HostReplies, HostAnswered, AskPerson, FinishRun, RoutingEnded
<1>6. ASSUME NEW d \in Calls, CallTimeoutStep(d) \/ ExpireStep(d) \/ DenyStep(d)
      PROVE  stage'[c] = "sent"
  BY <1>6 DEF CallTimeoutStep, CallTimeout, ExpireStep, Expire, DenyStep, Deny, Refuse, routing
<1>7. ASSUME NEW d \in Calls, NEW answer \in Allowing, AllowStep(d, answer)
      PROVE  stage'[c] = "sent"
  BY <1>7 DEF AllowStep, Allow, OpenCards, StartRun, CardsFollowCalls, Allowing
<1>8. ASSUME NEW t \in Tabs, CloseTabStep(t)
      PROVE  stage'[c] = "sent"
  BY <1>8 DEF CloseTabStep, CloseTab, routing
<1> QED
  BY <1>1, <1>2, <1>3, <1>4, <1>5, <1>6, <1>7, <1>8, OthersKeepRouting DEF Next

\* What the background sends for a call.
LEMMA SentOperation ==
  ASSUME TypeInv, NEW c \in Calls, SendOperation(c)
  PROVE  \E m \in Operation :
           /\ toHost' = toHost \o <<m>>
           /\ m.type = "operation"
           /\ m.call = c
           /\ m.tab = tabOf[c]
           /\ m.grant = Granted(c)
           /\ m \in ToHost
<1> DEFINE t == tabOf[c]
           task == TaskOf[c]
<1>1. t \in Tabs /\ task \in Tasks \cup {NoTask}
  BY Types, ConstantsAssumption DEF SendOperation, CallsHaveTabs
<1>2. PICK allowed, via :
        /\ Post(<<[type |-> "operation", call |-> c, tab |-> t, via |-> via,
                   grant |-> Granted(c), allowed |-> allowed]>>)
        /\ via \in {"surface", "debugger"}
        /\ allowed = {} \/ (task # NoTask /\ allowed \subseteq allowances[t][task])
  BY DEF SendOperation, Drivers
<1>3. allowed \subseteq Origins
  BY <1>1, <1>2, Types
<1>4. [type |-> "operation", call |-> c, tab |-> t, via |-> via,
       grant |-> Granted(c), allowed |-> allowed] \in Operation
  BY <1>1, <1>2, <1>3 DEF Operation, Granted
<1> QED
  BY <1>2, <1>4 DEF Post, ToHost

\* The calls in any of the places are calls.
LEMMA PlacedCalls ==
  ASSUME TypeInv
  PROVE  /\ CallsOf(toHost) \subseteq Calls
         /\ Answering \subseteq Calls
         /\ \A t \in Tabs : InHand(t) \subseteq Calls
<1>1. \A m \in Members(toHost) : m.type = "operation" => m.call \in Calls
  BY Types, ElementOfSeq, HostMessageFields DEF Members, Operation
<1>2. \A t \in Tabs : \A m \in Queued(t) : m.call \in Calls
  BY QueuedOperations DEF Operation
<1>3. \A r \in replies : r.call \in Calls
  BY DEF TypeInv, TypeOK, ChannelsTypeOK, Reply
<1> QED
  BY <1>1, <1>2, <1>3 DEF CallsOf, Answering, InHand, Queued

\* A step that adds no call to any place.
LEMMA PlacesKept ==
  ASSUME TypeInv, OnePlace, UNCHANGED <<surfaceWait, queue, replies>>,
         Alone(toHost'), CallsOf(toHost') \subseteq CallsOf(toHost),
         \A c \in Calls : stage[c] = "sent" => stage'[c] = "sent"
  PROVE  OnePlace'
<1>1. \A t \in Tabs :
        /\ surfaceWait'[t] = surfaceWait[t]
        /\ queue'[t] = queue[t]
        /\ InHand(t)' = InHand(t)
  BY DEF InHand, CallsOf, Members
<1> QED
  BY <1>1, PlacedCalls DEF OnePlace, Answering

\* A call that is sent was nowhere.
LEMMA PlaceSend ==
  ASSUME TypeInv, OnePlace, UNCHANGED hostVars, NEW c \in Calls, SendOperation(c),
         \A d \in Calls : stage[d] = "sent" => stage'[d] = "sent"
  PROVE  OnePlace'
<1>1. PICK m : /\ toHost' = toHost \o <<m>>
               /\ m.type = "operation" /\ m.call = c
               /\ m \in ToHost
  BY SentOperation
<1>2. toHost \in Seq(ToHost) /\ toHost' = Append(toHost, m)
  BY <1>1, Types, AppendIsConcat
<1>3. stage[c] # "sent" /\ stage'[c] = "sent" /\ UNCHANGED replies
  BY Types DEF SendOperation
<1>4. /\ c \notin CallsOf(toHost) /\ c \notin Answering
      /\ \A t \in Tabs : c \notin InHand(t)
  BY <1>3 DEF OnePlace
<1>5. CallsOf(toHost') = CallsOf(toHost) \cup {c} /\ Alone(toHost')
  <2>1. Alone(toHost)
    BY DEF OnePlace
  <2>2. /\ CallsOf(Append(toHost, m)) = CallsOf(toHost) \cup {m.call}
        /\ m.call \notin CallsOf(toHost) => Alone(Append(toHost, m))
    BY <1>1, <1>2, <2>1, CallsAppend
  <2> QED
    BY <1>1, <1>2, <1>4, <2>2
<1>6. \A t \in Tabs :
        /\ surfaceWait'[t] = surfaceWait[t]
        /\ queue'[t] = queue[t]
        /\ InHand(t)' = InHand(t)
  BY DEF InHand, CallsOf, Members, hostVars, executing
<1> QED
  BY <1>3, <1>4, <1>5, <1>6, PlacedCalls DEF OnePlace, Answering

\* An operation the host takes up goes to its tab, and every other message to none.
LEMMA PlaceReceive ==
  ASSUME TypeInv, OnePlace, HostReceives
  PROVE  OnePlace'
<1>0. PICK m, c, t : m = Head(toHost) /\ c = m.call /\ t = m.tab
  OBVIOUS
<1>1. /\ toHost # <<>> /\ toHost' = Tail(toHost) /\ toHost \in Seq(ToHost)
      /\ UNCHANGED <<replies, stage>>
  BY Types
     DEF HostReceives, ReceiveOperation, ReceiveOffer, ReceiveRevoke, ReceiveCancel,
         ReceiveSettled, Receive, HostOnly, backgroundVars, routing
<1>2. /\ Alone(toHost') /\ CallsOf(toHost') \subseteq CallsOf(toHost)
      /\ m.type = "operation" => c \in CallsOf(toHost) /\ c \notin CallsOf(toHost')
  BY <1>0, <1>1, CallsTail DEF OnePlace
<1>3. CASE UNCHANGED <<surfaceWait, queue>>
  BY <1>1, <1>2, <1>3, PlacesKept
<1>4. CASE ReceiveOperation(m)
  <2>1. m \in Operation /\ m.type = "operation" /\ t \in Tabs
    BY <1>0, <1>1, <1>4, HostMessageFields, HeadTailProperties DEF ReceiveOperation, Operation
  <2>2. /\ \A u \in Tabs : c \notin InHand(u)
        /\ c \notin Answering
        /\ stage[c] = "sent"
    BY <1>2, <2>1 DEF OnePlace
  <2>3. ASSUME NEW q \in Seq(Operation), Alone(q), c \notin CallsOf(q)
        PROVE  Alone(Append(q, m)) /\ CallsOf(Append(q, m)) = CallsOf(q) \cup {c}
    BY <1>0, <2>1, <2>3, CallsAppend
  <2>4. /\ surfaceWait[t] \in Seq(Operation) /\ queue[t] \in Seq(Operation)
        /\ Alone(surfaceWait[t]) /\ Alone(queue[t])
        /\ c \notin CallsOf(surfaceWait[t]) /\ c \notin CallsOf(queue[t])
    BY <2>1, <2>2, Types DEF OnePlace, InHand
  <2>5. \/ surfaceWait'[t] = surfaceWait[t] /\ queue'[t] = Append(queue[t], m)
        \/ queue'[t] = queue[t] /\ surfaceWait'[t] = Append(surfaceWait[t], m)
    BY <1>0, <1>4, <2>1, Types DEF ReceiveOperation
  <2>6. \A u \in Tabs \ {t} : surfaceWait'[u] = surfaceWait[u] /\ queue'[u] = queue[u]
    BY <1>0, <1>4, <2>1, Types DEF ReceiveOperation
  <2>7. /\ Alone(surfaceWait'[t]) /\ Alone(queue'[t])
        /\ CallsOf(surfaceWait'[t]) \cap CallsOf(queue'[t]) = {}
        /\ InHand(t)' = InHand(t) \cup {c}
    <3>1. CallsOf(surfaceWait[t]) \cap CallsOf(queue[t]) = {}
      BY <2>1 DEF OnePlace
    <3>2. InHand(t)' = CallsOf(surfaceWait'[t]) \cup CallsOf(queue'[t])
      BY DEF InHand, CallsOf, Members
    <3> QED
      BY <2>3, <2>4, <2>5, <3>1, <3>2 DEF InHand
  <2>8. \A u \in Tabs \ {t} : InHand(u)' = InHand(u)
    BY <2>6 DEF InHand, CallsOf, Members
  <2>9. ASSUME NEW u \in Tabs
        PROVE  /\ Alone(surfaceWait'[u]) /\ Alone(queue'[u])
               /\ CallsOf(surfaceWait'[u]) \cap CallsOf(queue'[u]) = {}
               /\ InHand(u)' \subseteq InHand(u) \cup {c}
    BY <2>6, <2>7, <2>8 DEF OnePlace
  <2> QED
    BY <1>1, <1>2, <2>1, <2>2, <2>9 DEF OnePlace, Answering
<1> QED
  BY <1>0, <1>3, <1>4
     DEF HostReceives, ReceiveOffer, ReceiveRevoke, ReceiveCancel, ReceiveSettled, executing

\* A call leaves its wait for a document for the queue, or for an answer.
LEMMA PlaceSurface ==
  ASSUME TypeInv, OnePlace, QueuesHonest, NEW t \in Tabs, SurfaceStep(t)
  PROVE  OnePlace'
<1>0. PICK m, c : m = Head(surfaceWait[t]) /\ c = m.call
  OBVIOUS
<1>1. /\ surfaceWait[t] # <<>> /\ surfaceWait[t] \in Seq(Operation) /\ queue[t] \in Seq(Operation)
      /\ surfaceWait' = [surfaceWait EXCEPT ![t] = Tail(@)]
      /\ UNCHANGED <<toHost, stage>>
  BY Types DEF SurfaceStep, SurfaceFound, SurfaceDropped, HostOnly, hostChannels, backgroundVars,
               routing
<1>2. m \in Operation /\ m.type = "operation" /\ c \in CallsOf(surfaceWait[t])
  <2>1. m \in Operation /\ m.type = "operation"
    BY <1>0, <1>1, TakeOperation DEF Operation
  <2> QED
    BY <1>0, <1>1, <2>1, CallsTail
<1>3. /\ c \in InHand(t) /\ c \notin CallsOf(queue[t])
      /\ c \notin CallsOf(toHost) /\ c \notin Answering
      /\ stage[c] = "sent"
      /\ Alone(surfaceWait[t]) /\ Alone(queue[t])
  BY <1>2 DEF OnePlace, InHand
<1>4. /\ surfaceWait'[t] = Tail(surfaceWait[t])
      /\ Alone(surfaceWait'[t])
      /\ CallsOf(surfaceWait'[t]) \subseteq CallsOf(surfaceWait[t]) \ {c}
  <2>1. surfaceWait'[t] = Tail(surfaceWait[t])
    BY <1>1, Types
  <2> QED
    BY <1>0, <1>1, <1>2, <1>3, <2>1, CallsTail
<1>5. \A u \in Tabs \ {t} : c \notin InHand(u)
  BY <1>3, InHandOnTab
<1>6. \A u \in Tabs \ {t} : surfaceWait'[u] = surfaceWait[u]
  BY <1>1, Types
<1>7. \A u \in Tabs : InHand(u)' = CallsOf(surfaceWait'[u]) \cup CallsOf(queue'[u])
  BY DEF InHand, CallsOf, Members
<1>8. CallsOf(toHost)' = CallsOf(toHost) /\ Alone(toHost)'
  BY <1>1 DEF CallsOf, Members, OnePlace
<1>9. CASE SurfaceFound(t)
  <2>1. UNCHANGED replies /\ queue' = [queue EXCEPT ![t] = Append(@, m)]
    BY <1>0, <1>9 DEF SurfaceFound, hostChannels
  <2>2. Alone(Append(queue[t], m)) /\ CallsOf(Append(queue[t], m)) = CallsOf(queue[t]) \cup {c}
    BY <1>0, <1>1, <1>2, <1>3, CallsAppend
  <2>3. queue'[t] = Append(queue[t], m) /\ \A u \in Tabs \ {t} : queue'[u] = queue[u]
    BY <2>1, Types
  <2>4. ASSUME NEW u \in Tabs
        PROVE  /\ Alone(surfaceWait'[u]) /\ Alone(queue'[u])
               /\ CallsOf(surfaceWait'[u]) \cap CallsOf(queue'[u]) = {}
               /\ InHand(u)' \subseteq InHand(u)
    <3>1. CASE u = t
      BY <1>2, <1>3, <1>4, <1>7, <2>2, <2>3, <3>1 DEF OnePlace, InHand
    <3>2. CASE u # t
      BY <1>6, <1>7, <2>3, <3>2 DEF OnePlace, InHand
    <3> QED
      BY <3>1, <3>2
  <2> QED
    BY <1>1, <1>8, <2>1, <2>4 DEF OnePlace, Answering
<1>10. CASE SurfaceDropped(t)
  <2>1. UNCHANGED queue /\ replies' = replies \cup {[call |-> c, kind |-> "notRun"]}
    BY <1>0, <1>10 DEF SurfaceDropped, executing
  <2>2. ASSUME NEW u \in Tabs
        PROVE  /\ Alone(surfaceWait'[u]) /\ Alone(queue'[u])
               /\ CallsOf(surfaceWait'[u]) \cap CallsOf(queue'[u]) = {}
               /\ InHand(u)' \subseteq InHand(u) \ {c}
    <3>1. CASE u = t
      BY <1>3, <1>4, <1>7, <2>1, <3>1 DEF OnePlace, InHand
    <3>2. CASE u # t
      BY <1>5, <1>6, <1>7, <2>1, <3>2 DEF OnePlace, InHand
    <3> QED
      BY <3>1, <3>2
  <2>3. PICK a : a = [call |-> c, kind |-> "notRun"]
    OBVIOUS
  <2>5. Answering' = Answering \cup {c}
    BY <2>1, <2>3 DEF Answering
  <2>4. \A r, s \in replies' : r.call = s.call => r = s
    BY <1>3, <2>1, <2>3 DEF OnePlace, Answering
  <2>6. \A u \in Tabs :
          /\ InHand(u)' \cap CallsOf(toHost') = {}
          /\ InHand(u)' \cap Answering' = {}
          /\ \A d \in InHand(u)' : stage'[d] = "sent"
    BY <1>1, <1>8, <2>2, <2>5 DEF OnePlace
  <2>7. /\ CallsOf(toHost') \cap Answering' = {}
        /\ \A d \in CallsOf(toHost') \cup Answering' : stage'[d] = "sent"
    BY <1>1, <1>3, <1>8, <2>5 DEF OnePlace
  <2> QED
    BY <1>8, <2>2, <2>4, <2>6, <2>7 DEF OnePlace
<1> QED
  BY <1>9, <1>10 DEF SurfaceStep

\* A call that returns from execute leaves its queue for an answer.
LEMMA PlaceReturn ==
  ASSUME TypeInv, OnePlace, QueuesHonest, NEW t \in Tabs, NEW a, queue[t] # <<>>,
         a.call = Current(t).call, Return(t, a), UNCHANGED <<toHost, surfaceWait, stage>>
  PROVE  OnePlace'
<1> DEFINE c == Current(t).call
<1>1. /\ queue[t] \in Seq(Operation)
      /\ queue'[t] = Tail(queue[t])
      /\ \A u \in Tabs \ {t} : queue'[u] = queue[u]
      /\ replies' = replies \cup {a}
  BY Types DEF Return
<1>2. /\ c \in CallsOf(queue[t]) /\ c \in InHand(t)
      /\ c \notin CallsOf(surfaceWait[t])
      /\ c \notin CallsOf(toHost) /\ c \notin Answering
      /\ stage[c] = "sent"
      /\ Alone(queue[t])
  BY CurrentInHand DEF OnePlace
<1>3. Alone(queue'[t]) /\ CallsOf(queue'[t]) \subseteq CallsOf(queue[t]) \ {c}
  BY <1>1, <1>2, CallsTail, CurrentInHand DEF Current
<1>4. \A u \in Tabs \ {t} : c \notin InHand(u)
  BY <1>2, InHandOnTab
<1>5. \A u \in Tabs : InHand(u)' = CallsOf(surfaceWait[u]) \cup CallsOf(queue'[u])
  BY DEF InHand, CallsOf, Members
<1>6. ASSUME NEW u \in Tabs
      PROVE  /\ Alone(surfaceWait[u]) /\ Alone(queue'[u])
             /\ CallsOf(surfaceWait[u]) \cap CallsOf(queue'[u]) = {}
             /\ InHand(u)' \subseteq InHand(u) \ {c}
  <2>1. CASE u = t
    BY <1>2, <1>3, <1>5, <2>1 DEF OnePlace, InHand
  <2>2. CASE u # t
    BY <1>1, <1>4, <1>5, <2>2 DEF OnePlace, InHand
  <2> QED
    BY <2>1, <2>2
<1>7. Answering' = Answering \cup {c} /\ \A r, s \in replies' : r.call = s.call => r = s
  BY <1>1, <1>2 DEF OnePlace, Answering
<1>8. CallsOf(toHost)' = CallsOf(toHost) /\ Alone(toHost)'
  BY DEF CallsOf, Members, OnePlace
<1>9. \A u \in Tabs : surfaceWait'[u] = surfaceWait[u]
  OBVIOUS
<1> QED
  BY <1>2, <1>6, <1>7, <1>8, <1>9 DEF OnePlace

\* The background takes up an answer: the call is over, or asks the person.
LEMMA PlaceAnswered ==
  ASSUME TypeInv, OnePlace, NEW c \in Calls, HostReplies(c), Alone(toHost'),
         CallsOf(toHost') \subseteq CallsOf(toHost)
  PROVE  OnePlace'
<1>1. PICK r \in replies :
        /\ r.call = c
        /\ replies' = replies \ {r}
        /\ stage' = [stage EXCEPT ![c] = "none"]
        /\ UNCHANGED hostVars
  BY DEF HostReplies, HostAnswered, AskPerson, FinishRun, RoutingEnded, BackgroundOnly
<1>2. /\ c \in Answering /\ c \notin Answering'
      /\ Answering' \subseteq Answering
      /\ \A d \in Calls \ {c} : stage'[d] = stage[d]
  BY <1>1, Types DEF Answering, OnePlace
<1>3. c \notin CallsOf(toHost') /\ \A t \in Tabs : c \notin InHand(t)
  BY <1>2 DEF OnePlace
<1>4. \A t \in Tabs :
        /\ surfaceWait'[t] = surfaceWait[t]
        /\ queue'[t] = queue[t]
        /\ InHand(t)' = InHand(t)
  BY <1>1 DEF InHand, CallsOf, Members, hostVars, executing
<1> QED
  BY <1>1, <1>2, <1>3, <1>4, PlacedCalls DEF OnePlace

\* What the background posts otherwise starts no operation.
LEMMA PostsNoOperation ==
  ASSUME TypeInv, PostsWhatFollows
  PROVE  CallsOf(toHost') = CallsOf(toHost) /\ (Alone(toHost) => Alone(toHost'))
  BY Types, CallsConcat DEF PostsWhatFollows, Follows

\* A call is never in two places.
LEMMA OnePlaceKept ==
  ASSUME ConsentInv, CancelsFollow, PendingRouted, OnePlace, Next
  PROVE  OnePlace'
<1> USE DEF ConsentInv
<1>1. ASSUME NEW c \in Calls, HostReplies(c)
      PROVE  OnePlace'
  <2>1. ~SendOperation(c)
    BY <1>1, Types DEF HostReplies, HostAnswered, AskPerson, SendOperation
  <2>2. PostsWhatFollows
    BY <1>1, <2>1, BackgroundFollows DEF CallStep
  <2> QED
    BY <1>1, <2>2, PostsNoOperation, PlaceAnswered DEF OnePlace
<1> SUFFICES ASSUME \A c \in Calls : ~HostReplies(c)
             PROVE  OnePlace'
  BY <1>1
<1>2. \A c \in Calls : stage[c] = "sent" => stage'[c] = "sent"
  BY SentStays
<1>3. ASSUME UNCHANGED <<surfaceWait, queue, replies>>, UNCHANGED toHost \/ PostsWhatFollows
      PROVE  OnePlace'
  BY <1>2, <1>3, PlacesKept, PostsNoOperation DEF OnePlace
<1>4. ASSUME NEW c \in Calls, CallStep(c)
      PROVE  OnePlace'
  <2>1. UNCHANGED hostVars
    BY <1>4, CallStepIsBackgrounds
  <2>2. CASE SendOperation(c)
    BY <1>2, <2>1, <2>2, PlaceSend
  <2>3. CASE ~SendOperation(c)
    <3>1. UNCHANGED replies
      BY <1>4, <2>3
         DEF CallStep, Routes, RouteRefused, RouteWhileDeciding, RouteToTab, Prepares,
             DropCancelled, HostUnavailable, CallTimeoutStep, CallTimeout, ExpireStep, Expire,
             DenyStep, Deny, Refuse, AllowStep, Allow, hostChannels
    <3>2. PostsWhatFollows
      BY <1>4, <2>3, BackgroundFollows
    <3> QED
      BY <1>3, <2>1, <3>1, <3>2 DEF hostVars, executing
  <2> QED
    BY <2>2, <2>3
<1>5. ASSUME BackgroundReceives \/ \E t \in Tabs : CloseTabStep(t)
      PROVE  OnePlace'
  <2>1. UNCHANGED <<surfaceWait, queue, replies>>
    BY <1>5 DEF BackgroundReceives, ReceiveRequest, ReceiveCancelled, BackgroundOnly, CloseTabStep,
                CloseTab, hostVars, executing
  <2> QED
    BY <1>3, <1>5, <2>1, BackgroundFollows
<1>6. ASSUME \/ \E c \in Calls : DispatchStep(c) \/ AgentStopsStep(c) \/ CompanionTimeoutStep(c)
             \/ CompanionReceives \/ PortLostStep \/ ReconnectStep
             \/ \E t \in Tabs : \E p \in Pages : NavigateStep(t, p)
      PROVE  OnePlace'
  BY <1>3, <1>6
     DEF DispatchStep, AgentStopsStep, CompanionTimeoutStep, CompanionReceives, PortLostStep,
         ReconnectStep, CompanionOnly, NavigateStep, hostChannels, hostVars, executing
<1>7. ASSUME HostReceives
      PROVE  OnePlace'
  BY <1>7, PlaceReceive
<1>8. ASSUME NEW t \in Tabs, SurfaceStep(t)
      PROVE  OnePlace'
  BY <1>8, PlaceSurface DEF OnTheWay
<1>9. ASSUME NEW t \in Tabs, Executes(t)
      PROVE  OnePlace'
  <2>1. /\ queue[t] # <<>>
        /\ UNCHANGED <<toHost, surfaceWait, stage>>
        /\ GivesUp(t) \/ Proceeds(t) \/ Starts(t) \/ Settles(t)
    BY <1>9, ExecutesMeans DEF HostOnly, backgroundVars, routing
  <2>2. CASE GivesUp(t) \/ Settles(t)
    BY <2>1, <2>2, PlaceReturn DEF GivesUp, Settles, OnTheWay
  <2>3. CASE Proceeds(t) \/ Starts(t)
    BY <1>3, <2>1, <2>3 DEF Proceeds, Starts
  <2> QED
    BY <2>1, <2>2, <2>3
<1> QED
  BY <1>4, <1>5, <1>6, <1>7, <1>8, <1>9 DEF Next, CallStep

-----------------------------------------------------------------------------
(* The steps, by what they can change *)

\* The steps of the background.
BackgroundSteps ==
  \/ \E c \in Calls : CallStep(c)
  \/ BackgroundReceives
  \/ \E t \in Tabs : CloseTabStep(t)

\* The steps of the companion and of the pages.
OtherSteps ==
  \/ \E c \in Calls : DispatchStep(c) \/ AgentStopsStep(c) \/ CompanionTimeoutStep(c)
  \/ CompanionReceives \/ PortLostStep \/ ReconnectStep
  \/ \E t \in Tabs : \E p \in Pages : NavigateStep(t, p)

\* The steps of the host.
HostSteps == HostReceives \/ \E t \in Tabs : SurfaceStep(t) \/ Executes(t)

\* Every step is of one of these parts, and leaves the state of the others alone.
LEMMA StepKinds ==
  ASSUME TypeInv, Next
  PROVE  /\ BackgroundSteps \/ OtherSteps \/ HostSteps
         /\ BackgroundSteps => UNCHANGED <<op, hostVars>>
         /\ OtherSteps => UNCHANGED <<toHost, replies, backgroundVars, hostVars>>
         /\ HostSteps => UNCHANGED <<nativeChannels, op, backgroundVars>>
<1>1. BackgroundSteps \/ OtherSteps \/ HostSteps
  BY DEF Next, BackgroundSteps, OtherSteps, HostSteps, CallStep
<1>2. BackgroundSteps => UNCHANGED <<op, hostVars>>
  BY CallStepIsBackgrounds
     DEF BackgroundSteps, BackgroundReceives, BackgroundOnly, CloseTabStep
<1>3. OtherSteps => UNCHANGED <<toHost, replies, backgroundVars, hostVars>>
  BY DEF OtherSteps, DispatchStep, AgentStopsStep, CompanionTimeoutStep, CompanionReceives,
         PortLostStep, ReconnectStep, CompanionOnly, NavigateStep, hostChannels
<1>4. HostReceives \/ (\E t \in Tabs : SurfaceStep(t)) => HostOnly
  BY DEF HostReceives, SurfaceStep
<1>5. \A t \in Tabs : Executes(t) => HostOnly
  BY ExecutesMeans
<1> QED
  BY <1>1, <1>2, <1>3, <1>4, <1>5 DEF HostSteps, HostOnly

\* An operation in any of the places is of a call that was sent and not answered.
LEMMA PlacedIsSent ==
  ASSUME TypeInv, OnePlace, NEW m \in Placed
  PROVE  /\ m.type = "operation"
         /\ m.call \in Calls
         /\ stage[m.call] = "sent"
         /\ m.call \notin Answering
<1>1. CASE m \in Posted /\ m.type = "operation"
  <2>1. m.call \in CallsOf(toHost)
    BY <1>1 DEF Posted, CallsOf
  <2> QED
    BY <1>1, <2>1, PlacedCalls DEF OnePlace
<1>2. ASSUME NEW t \in Tabs, m \in Queued(t)
      PROVE  m.type = "operation" /\ m.call \in InHand(t)
  <2>1. m.type = "operation"
    BY <1>2, QueuedOperations DEF Operation
  <2> QED
    BY <1>2, <2>1 DEF Queued, InHand, CallsOf
<1> QED
  BY <1>1, <1>2, PlacedCalls DEF Placed, OnePlace

\* What is placed after a step was placed before, or is being sent.
LEMMA OperationsMove ==
  ASSUME TypeInv, FreshRequests, CardsFollowCalls, CancelsFollow, PendingRouted, Next
  PROVE  \A m \in Placed' : \/ m \in Placed
                            \/ /\ SendOperation(m.call)
                               /\ m.call \in Calls
                               /\ m.grant = Granted(m.call)
<1> DEFINE Good(m) == m \in Placed \/ (SendOperation(m.call) /\ m.call \in Calls /\ m.grant = Granted(m.call))
<1>1. ASSUME UNCHANGED hostVars,
             \A m \in Members(toHost') : m.type = "operation" => m \in Posted \/ Good(m)
      PROVE  \A m \in Placed' : Good(m)
  BY <1>1 DEF Placed, Posted, Queued, Members, hostVars, executing
<1>2. ASSUME NEW t \in Tabs, Members(toHost') \subseteq Posted,
             \A u \in Tabs \ {t} : surfaceWait'[u] = surfaceWait[u] /\ queue'[u] = queue[u],
             \A m \in Members(surfaceWait'[t]) \cup Members(queue'[t]) : m \in Placed
      PROVE  \A m \in Placed' : Good(m)
  <2>2. \A u \in Tabs \ {t} : Queued(u)' = Queued(u)
    BY <1>2 DEF Queued, Members
  <2>3. Queued(t)' \subseteq Placed
    BY <1>2 DEF Queued, Members
  <2>4. \A u \in Tabs : Queued(u) \subseteq Placed
    BY DEF Placed
  <2>5. Posted' = Members(toHost')
    BY DEF Posted, Members
  <2>6. \A m \in Placed' : (m \in Posted' /\ m.type = "operation") \/ \E u \in Tabs : m \in Queued(u)'
    BY DEF Placed
  <2> QED
    BY <1>2, <2>2, <2>3, <2>4, <2>5, <2>6 DEF Placed
<1>3. \A t \in Tabs : Members(surfaceWait[t]) \cup Members(queue[t]) \subseteq Placed
  BY DEF Placed, Queued
<1>4. CASE OtherSteps
  BY <1>1, <1>4, StepKinds DEF Posted
<1>5. CASE BackgroundSteps /\ \E c \in Calls : SendOperation(c)
  <2>1. PICK c \in Calls : SendOperation(c)
    BY <1>5
  <2>2. PICK m : /\ toHost' = toHost \o <<m>>
                 /\ m.call = c /\ m.grant = Granted(c)
                 /\ m \in ToHost
    BY <2>1, SentOperation
  <2>3. Members(toHost') = Posted \cup {m}
    <3>1. toHost \in Seq(ToHost) /\ m \in ToHost /\ toHost' = Append(toHost, m)
      BY <2>2, Types, AppendIsConcat
    <3> QED
      BY <3>1, MembersAppend DEF Posted
  <2> QED
    BY <1>1, <1>5, <2>1, <2>2, <2>3, StepKinds
<1>6. CASE BackgroundSteps /\ \A c \in Calls : ~SendOperation(c)
  <2>1. PostsWhatFollows
    BY <1>6, BackgroundFollows DEF BackgroundSteps
  <2>2. \A m \in Members(toHost') : m.type = "operation" => m \in Posted
    BY <2>1, Types, MembersConcat DEF PostsWhatFollows, Follows, Posted
  <2> QED
    BY <1>1, <1>6, <2>2, StepKinds
<1>7. CASE HostReceives
  <2>1. PICK m : m = Head(toHost)
    OBVIOUS
  <2>2. /\ toHost # <<>> /\ toHost' = Tail(toHost)
        /\ UNCHANGED <<surfaceWait, queue>> \/ ReceiveOperation(m)
    BY <1>7, <2>1
       DEF HostReceives, ReceiveOperation, ReceiveOffer, ReceiveRevoke, ReceiveCancel,
           ReceiveSettled, Receive, executing
  <2>3. m \in Posted /\ m \in ToHost
    BY <2>1, <2>2, Types, MembersTail DEF Posted
  <2>4. CASE UNCHANGED <<surfaceWait, queue>>
    <3>1. Members(toHost') \subseteq Posted
      BY <2>2, Types, MembersTail DEF Posted
    <3> QED
      BY SMTT(20), <2>4, <3>1 DEF Placed, Posted, Queued, Members
  <2>5. CASE ReceiveOperation(m)
    <3>1. m \in Operation /\ m.tab \in Tabs /\ m \in Placed
      BY <2>3, <2>5, HostMessageFields DEF ReceiveOperation, Operation, Placed
    <3>2. PICK t \in Tabs : t = m.tab
      BY <3>1
    <3>3. \A u \in Tabs \ {t} : surfaceWait'[u] = surfaceWait[u] /\ queue'[u] = queue[u]
      BY <2>5, <3>2, Types DEF ReceiveOperation
    <3>4. \/ surfaceWait'[t] = surfaceWait[t] /\ queue'[t] = Append(queue[t], m)
          \/ queue'[t] = queue[t] /\ surfaceWait'[t] = Append(surfaceWait[t], m)
      BY <2>5, <3>2, Types DEF ReceiveOperation
    <3>5. /\ Members(Append(queue[t], m)) = Members(queue[t]) \cup {m}
          /\ Members(Append(surfaceWait[t], m)) = Members(surfaceWait[t]) \cup {m}
      BY <3>1, Types, MembersAppend
    <3>6. \A x \in Members(surfaceWait'[t]) \cup Members(queue'[t]) : x \in Placed
      BY <1>3, <3>1, <3>4, <3>5
    <3>7. Members(toHost') \subseteq Posted
      BY <2>2, Types, MembersTail DEF Posted
    <3> QED
      BY <1>2, <3>3, <3>6, <3>7
  <2> QED
    BY <2>2, <2>4, <2>5
<1>8. ASSUME NEW t \in Tabs, SurfaceStep(t)
      PROVE  \A m \in Placed' : Good(m)
  <2>1. PICK m : m = Head(surfaceWait[t])
    OBVIOUS
  <2>2. /\ surfaceWait[t] # <<>>
        /\ surfaceWait' = [surfaceWait EXCEPT ![t] = Tail(@)]
        /\ UNCHANGED queue \/ queue' = [queue EXCEPT ![t] = Append(@, m)]
        /\ UNCHANGED toHost
    BY <1>8, <2>1 DEF SurfaceStep, SurfaceFound, SurfaceDropped, hostChannels, executing
  <2>3. m \in Operation /\ m \in Members(surfaceWait[t])
    BY <2>1, <2>2, Types, TakeOperation, MembersTail
  <2>4. Members(Append(queue[t], m)) = Members(queue[t]) \cup {m}
    BY <2>3, Types, MembersAppend
  <2>5. Members(Tail(surfaceWait[t])) \subseteq Members(surfaceWait[t])
    BY <2>2, Types, MembersTail
  <2>6. /\ surfaceWait'[t] = Tail(surfaceWait[t])
        /\ queue'[t] = queue[t] \/ queue'[t] = Append(queue[t], m)
        /\ \A u \in Tabs \ {t} : surfaceWait'[u] = surfaceWait[u] /\ queue'[u] = queue[u]
        /\ Members(toHost') \subseteq Posted
    BY <2>2, Types DEF Posted
  <2>7. \A x \in Members(surfaceWait'[t]) \cup Members(queue'[t]) : x \in Placed
    BY <1>3, <2>3, <2>4, <2>5, <2>6
  <2> QED
    BY <1>2, <2>6, <2>7
<1>9. ASSUME NEW t \in Tabs, Executes(t)
      PROVE  \A m \in Placed' : Good(m)
  <2>1. /\ queue[t] # <<>>
        /\ UNCHANGED <<toHost, surfaceWait>>
        /\ UNCHANGED queue \/ queue' = [queue EXCEPT ![t] = Tail(@)]
    BY <1>9, ExecutesMeans DEF GivesUp, Proceeds, Starts, Settles, Return
  <2>2. Members(Tail(queue[t])) \subseteq Members(queue[t])
    BY <2>1, Types, MembersTail
  <2>3. /\ queue'[t] = queue[t] \/ queue'[t] = Tail(queue[t])
        /\ \A u \in Tabs \ {t} : surfaceWait'[u] = surfaceWait[u] /\ queue'[u] = queue[u]
        /\ Members(toHost') \subseteq Posted
    BY <2>1, Types DEF Posted
  <2>4. \A x \in Members(surfaceWait'[t]) \cup Members(queue'[t]) : x \in Placed
    BY <1>3, <2>1, <2>2, <2>3
  <2> QED
    BY <1>2, <2>3, <2>4
<1> QED
  BY <1>4, <1>5, <1>6, <1>7, <1>8, <1>9, StepKinds DEF HostSteps

\* While a call is sent and unanswered, nobody decides about it.
LEMMA DecisionWaits ==
  ASSUME TypeInv, CardsFollowCalls, Next, NEW c \in Calls, stage[c] = "sent", c \notin Answering
  PROVE  decision'[c] = decision[c]
<1> USE Types
<1>1. decision[c] # "open"
  BY DEF CardsFollowCalls, Allowing
<1>2. ASSUME UNCHANGED backgroundVars
      PROVE  decision'[c] = decision[c]
  BY <1>2 DEF backgroundVars, asking
<1>3. ASSUME BackgroundReceives
      PROVE  decision'[c] = decision[c]
  BY <1>1, <1>3 DEF BackgroundReceives, ReceiveRequest, ReceiveCancelled, OpenCards, asking
<1>4. ASSUME NEW d \in Calls, Routes(d) \/ Prepares(d) \/ CallTimeoutStep(d)
      PROVE  decision'[c] = decision[c]
  BY <1>4 DEF Routes, RouteRefused, RouteWhileDeciding, RouteToTab, Prepares, SendOperation,
              DropCancelled, HostUnavailable, FinishRun, CallTimeoutStep, CallTimeout, asking
<1>5. ASSUME NEW d \in Calls, HostReplies(d)
      PROVE  decision'[c] = decision[c]
  <2>1. PICK r \in replies : HostAnswered(d, r) \/ AskPerson(d, r)
    BY <1>5 DEF HostReplies
  <2>2. r.call = d /\ d # c
    BY <2>1 DEF HostAnswered, AskPerson, Answering
  <2> QED
    BY <2>1, <2>2 DEF HostAnswered, AskPerson, FinishRun, asking
<1>6. ASSUME NEW d \in Calls, ExpireStep(d) \/ DenyStep(d)
      PROVE  decision'[c] = decision[c]
  BY <1>1, <1>6 DEF ExpireStep, Expire, DenyStep, Deny, Refuse, OpenCards
<1>7. ASSUME NEW d \in Calls, NEW answer \in Allowing, AllowStep(d, answer)
      PROVE  decision'[c] = decision[c]
  BY <1>1, <1>7 DEF AllowStep, Allow, OpenCards
<1>8. ASSUME NEW t \in Tabs, CloseTabStep(t)
      PROVE  decision'[c] = decision[c]
  BY <1>1, <1>8 DEF CloseTabStep, CloseTab, CardsOn, OpenCards
<1> QED
  BY <1>2, <1>3, <1>4, <1>5, <1>6, <1>7, <1>8, OthersKeepRouting DEF Next

\* An operation says as long as it is placed whether its call's card allowed it.
LEMMA GrantsMatchKept ==
  ASSUME ConsentInv, CancelsFollow, PendingRouted, OnePlace, GrantsMatch, Next
  PROVE  GrantsMatch'
<1> USE DEF ConsentInv
<1> SUFFICES ASSUME NEW m \in Placed', ~m.grant
             PROVE  decision'[m.call] = "none"
  BY DEF GrantsMatch
<1>1. CASE m \in Placed
  BY <1>1, PlacedIsSent, DecisionWaits DEF GrantsMatch
<1>2. CASE SendOperation(m.call) /\ m.call \in Calls /\ m.grant = Granted(m.call)
  <2>1. decision[m.call] = "none"
    BY <1>2 DEF SendOperation, CardsFollowCalls, Granted
  <2>2. decision'[m.call] = decision[m.call]
    BY <1>2 DEF SendOperation, asking
  <2> QED
    BY <2>1, <2>2
<1> QED
  BY <1>1, <1>2, OperationsMove

-----------------------------------------------------------------------------
(* What the background answers *)

\* What holds of every answer the background gives the companion.
Deserved(m) ==
  m.type = "response" =>
    /\ Closed(m.call)
    /\ m.outcome = "notRun" => Over(m.call) /\ ~Spent(m.call)
    /\ m.outcome = "ran" => Spent(m.call)

\* Every answer of the background follows from what it knows.
AnswersWhatFollows ==
  \E ms \in Seq(ToCompanion) :
    /\ toCompanion' = toCompanion \o ms
    /\ \A m \in Members(ms) : Deserved(m)'

\* Answers of at most one message.
LEMMA FewAnswers ==
  /\ <<>> \in Seq(ToCompanion) /\ Members(<<>>) = {}
  /\ \A m \in ToCompanion : <<m>> \in Seq(ToCompanion) /\ Members(<<m>>) = {m}
  BY DEF Members

\* Whether or not there is a port to answer on.
LEMMA AnswerFollows ==
  ASSUME TypeInv, NEW ms \in Seq(ToCompanion), Answer(ms), \A m \in Members(ms) : Deserved(m)'
  PROVE  AnswersWhatFollows
<1>1. toCompanion \in Seq(ToCompanion)
  BY DEF TypeInv, TypeOK, ChannelsTypeOK
<1>2. CASE toCompanion' = toCompanion
  <2>1. toCompanion \o <<>> = toCompanion
    BY <1>1, ConcatEmptySeq
  <2> QED
    BY <1>2, <2>1, FewAnswers DEF AnswersWhatFollows
<1>3. CASE toCompanion' = toCompanion \o ms
  BY <1>3 DEF AnswersWhatFollows
<1> QED
  BY <1>2, <1>3 DEF Answer

\* A step that answers nothing.
LEMMA AnswersNothing ==
  ASSUME TypeInv, UNCHANGED toCompanion
  PROVE  AnswersWhatFollows
<1>1. toCompanion \in Seq(ToCompanion)
  BY DEF TypeInv, TypeOK, ChannelsTypeOK
<1>2. toCompanion \o <<>> = toCompanion
  BY <1>1, ConcatEmptySeq
<1> QED
  BY <1>2, FewAnswers DEF AnswersWhatFollows

\* A call that ends is over, and has run or not as before.
LEMMA EndIsOver ==
  ASSUME TypeInv, Next, UNCHANGED ran, NEW c \in Calls, Routed(c), stage'[c] = "none",
         decision'[c] # "open"
  PROVE  /\ Over(c)' /\ Closed(c)'
         /\ Spent(c)' <=> Spent(c)
<1>1. Routed(c)'
  BY RoutedKept
<1> QED
  BY <1>1 DEF Over, Closed, Spent

\* A call whose card is open was routed, is not under way and has not run.
LEMMA OpenCardWaits ==
  ASSUME TypeInv, FreshRequests, CardsFollowCalls, SpentOnce, NEW c \in OpenCards
  PROVE  c \in Calls /\ Routed(c) /\ stage[c] = "none" /\ ~Spent(c)
<1>1. c \in Calls /\ decision[c] = "open"
  BY DEF OpenCards
<1>2. tabOf[c] # NoTab
  BY <1>1, Types, ConstantsAssumption DEF CallsHaveTabs
<1>3. stage[c] = "none"
  BY <1>1 DEF CardsFollowCalls, Allowing
<1>4. ~Spent(c)
  BY <1>1 DEF SpentOnce
<1> QED
  BY <1>1, <1>2, <1>3, <1>4, TabMeansRouted

\* The end of a run is answered with what the host says of the page.
LEMMA FinishAnswers ==
  ASSUME TypeInv, FreshRequests, CardsFollowCalls, Next, UNCHANGED ran, NEW c \in Calls,
         NEW released, NEW outcome \in {"ran", "notRun"}, FinishRun(c, released, outcome),
         stage[c] \in {"prepare", "sent"}, outcome = "ran" <=> Spent(c)
  PROVE  AnswersWhatFollows
<1>1. Routed(c) /\ decision[c] # "open"
  BY TabMeansRouted DEF CardsFollowCalls, Allowing
<1>2. stage'[c] = "none" /\ decision'[c] = decision[c]
  BY Types DEF FinishRun, RoutingEnded, asking
<1>3. Over(c)' /\ Closed(c)' /\ (Spent(c)' <=> Spent(c))
  BY <1>1, <1>2, EndIsOver
<1>4. PICK m : m = Response(c, outcome)
  OBVIOUS
<1>5. Deserved(m)' /\ m \in ToCompanion
  BY <1>3, <1>4, MessageTypes DEF Deserved, Response, Outcomes
<1>6. Answer(<<m>>) \/ Answer(<<>>)
  BY <1>4 DEF FinishRun
<1>7. CASE Answer(<<m>>)
  BY <1>5, <1>7, AnswerFollows, FewAnswers
<1>8. CASE Answer(<<>>)
  BY <1>8, AnswerFollows, FewAnswers
<1> QED
  BY <1>6, <1>7, <1>8

\* A refused card is answered with the truth: nothing ran.
LEMMA RefuseAnswers ==
  ASSUME TypeInv, FreshRequests, CardsFollowCalls, SpentOnce, Next, UNCHANGED ran,
         NEW c \in Calls, NEW ending \in Refusing, Refuse(c, ending)
  PROVE  AnswersWhatFollows
<1>1. Routed(c) /\ stage[c] = "none" /\ ~Spent(c)
  BY OpenCardWaits DEF Refuse
<1>2. stage'[c] = "none" /\ decision'[c] # "open"
  BY <1>1, Types DEF Refuse, routing, Refusing
<1>3. Over(c)' /\ Closed(c)' /\ ~Spent(c)'
  BY <1>1, <1>2, EndIsOver
<1>4. PICK m : m = Response(c, "notRun")
  OBVIOUS
<1>5. Deserved(m)' /\ m \in ToCompanion
  BY <1>3, <1>4, MessageTypes DEF Deserved, Response, Outcomes
<1>6. Answer(<<m>>)
  BY <1>4 DEF Refuse
<1> QED
  BY <1>5, <1>6, AnswerFollows, FewAnswers

\* So are the cards of a closed tab.
LEMMA CloseTabAnswers ==
  ASSUME TypeInv, FreshRequests, CardsFollowCalls, SpentOnce, Next, UNCHANGED ran,
         NEW t \in Tabs, CloseTab(t)
  PROVE  AnswersWhatFollows
<1> DEFINE n == Cardinality(CardsOn(t))
<1>1. n \in Nat /\ CardsOn(t) \subseteq Calls
  BY CardsFinite
<1>2. PICK order \in [1..n -> CardsOn(t)] :
        Answer([i \in DOMAIN order |-> Response(order[i], "notRun")])
  BY DEF CloseTab
<1>3. PICK ms : ms = [i \in DOMAIN order |-> Response(order[i], "notRun")]
  OBVIOUS
<1>4. \A i \in 1..n : order[i] \in Calls /\ ms[i] = Response(order[i], "notRun")
  BY <1>1, <1>2, <1>3
<1>5. ms \in [1..n -> ToCompanion]
  BY <1>2, <1>3, <1>4, MessageTypes DEF Outcomes
<1>6. ms \in Seq(ToCompanion) /\ Len(ms) = n
  BY <1>1, <1>5, SeqDef, LenProperties
<1>7. ASSUME NEW c \in CardsOn(t)
      PROVE  Over(c)' /\ Closed(c)' /\ ~Spent(c)'
  <2>1. c \in Calls /\ Routed(c) /\ stage[c] = "none" /\ ~Spent(c)
    BY OpenCardWaits DEF CardsOn
  <2>2. stage'[c] = "none" /\ decision'[c] # "open"
    BY <2>1 DEF CloseTab, routing
  <2> QED
    BY <2>1, <2>2, EndIsOver
<1>8. ASSUME NEW m \in Members(ms)
      PROVE  Deserved(m)'
  <2>1. PICK i \in 1..n : m = Response(order[i], "notRun")
    BY <1>4, <1>6 DEF Members
  <2> QED
    BY <1>2, <1>7, <2>1 DEF Deserved, Response
<1> QED
  BY <1>2, <1>3, <1>6, <1>8, AnswerFollows

\* Every answer of the background is true of the page, and the last of its call.
LEMMA BackgroundAnswers ==
  ASSUME ConsentInv, PendingRouted, SpentOnce, Next, BackgroundSteps
  PROVE  AnswersWhatFollows
<1> USE DEF ConsentInv
<1>0. UNCHANGED hostVars /\ UNCHANGED ran
  BY StepKinds DEF hostVars
<1>1. ASSUME NEW c \in Calls, Routes(c)
      PROVE  AnswersWhatFollows
  <2>1. CASE UNCHANGED toCompanion
    BY <2>1, AnswersNothing
  <2>2. CASE stage[c] = "route" /\ RoutingEnded(c) /\ UNCHANGED asking /\ Answer(<<Response(c, "notRun")>>)
    <3>1. Routed(c) /\ decision[c] # "open" /\ ~Spent(c)
      BY <2>2, TabMeansRouted DEF CardsFollowCalls, Allowing, SpentOnce
    <3>2. stage'[c] = "none" /\ decision'[c] # "open"
      BY <2>2, <3>1, Types DEF RoutingEnded, asking
    <3>3. Over(c)' /\ Closed(c)' /\ ~Spent(c)'
      BY <1>0, <3>1, <3>2, EndIsOver
    <3>4. PICK m : m = Response(c, "notRun")
      OBVIOUS
    <3>5. Deserved(m)' /\ m \in ToCompanion
      BY <3>3, <3>4, MessageTypes DEF Deserved, Response, Outcomes
    <3> QED
      BY <2>2, <3>4, <3>5, AnswerFollows, FewAnswers
  <2> QED
    BY <1>1, <2>1, <2>2 DEF Routes, RouteRefused, RouteWhileDeciding, RouteToTab, nativeChannels
<1>2. ASSUME NEW c \in Calls, Prepares(c)
      PROVE  AnswersWhatFollows
  <2>1. CASE UNCHANGED toCompanion
    BY <2>1, AnswersNothing
  <2>2. CASE HostUnavailable(c)
    <3>1. ~Spent(c) /\ stage[c] = "prepare"
      BY <2>2 DEF HostUnavailable, SpentOnce
    <3> QED
      BY <1>0, <2>2, <3>1, FinishAnswers DEF HostUnavailable
  <2> QED
    BY <1>2, <2>1, <2>2 DEF Prepares, SendOperation, DropCancelled, nativeChannels
<1>3. ASSUME NEW c \in Calls, HostReplies(c)
      PROVE  AnswersWhatFollows
  <2>1. PICK r \in replies : HostAnswered(c, r) \/ AskPerson(c, r)
    BY <1>3 DEF HostReplies
  <2>2. CASE HostAnswered(c, r)
    <3>1. r.kind = "ran" <=> Spent(c)
      BY <2>2 DEF HostAnswered, SpentOnce
    <3> QED
      BY <1>0, <2>2, <3>1, FinishAnswers DEF HostAnswered
  <2>3. CASE AskPerson(c, r)
    <3>1. PICK m : m = Pending(c)
      OBVIOUS
    <3>2. Deserved(m)' /\ m \in ToCompanion
      BY <3>1, MessageTypes DEF Deserved, Pending
    <3>3. Answer(<<m>>)
      BY <2>3, <3>1 DEF AskPerson
    <3> QED
      BY <3>2, <3>3, AnswerFollows, FewAnswers
  <2> QED
    BY <2>1, <2>2, <2>3
<1>4. ASSUME NEW c \in Calls, CallTimeoutStep(c)
      PROVE  AnswersWhatFollows
  <2>1. Closed(c)'
    BY <1>4, TimeoutIsClosed DEF CallTimeoutStep
  <2>2. PICK m : m = Response(c, "unknown")
    OBVIOUS
  <2>3. Deserved(m)' /\ m \in ToCompanion
    BY <2>1, <2>2, MessageTypes DEF Deserved, Response, Outcomes
  <2>4. Answer(<<m>>)
    BY <1>4, <2>2 DEF CallTimeoutStep, CallTimeout
  <2> QED
    BY <2>3, <2>4, AnswerFollows, FewAnswers
<1>5. ASSUME NEW c \in Calls, ExpireStep(c) \/ DenyStep(c)
      PROVE  AnswersWhatFollows
  BY <1>0, <1>5, RefuseAnswers DEF ExpireStep, Expire, DenyStep, Deny, Refusing
<1>6. ASSUME NEW c \in Calls, NEW answer \in Allowing, AllowStep(c, answer)
      PROVE  AnswersWhatFollows
  <2>1. PICK m : m = Pending(c)
    OBVIOUS
  <2>2. Deserved(m)' /\ m \in ToCompanion
    BY <2>1, MessageTypes DEF Deserved, Pending
  <2>3. Answer(<<m>>)
    BY <1>6, <2>1 DEF AllowStep, Allow
  <2> QED
    BY <2>2, <2>3, AnswerFollows, FewAnswers
<1>7. ASSUME BackgroundReceives
      PROVE  AnswersWhatFollows
  BY <1>7, AnswersNothing DEF BackgroundReceives, ReceiveRequest, ReceiveCancelled
<1>8. ASSUME NEW t \in Tabs, CloseTabStep(t)
      PROVE  AnswersWhatFollows
  BY <1>0, <1>8, CloseTabAnswers DEF CloseTabStep
<1> QED
  BY <1>1, <1>2, <1>3, <1>4, <1>5, <1>6, <1>7, <1>8 DEF BackgroundSteps, CallStep

\* What the agent is told was on its way to it, or is said in this step.
LEMMA ToldBefore ==
  ASSUME ConsentInv, PendingRouted, SpentOnce, Next, NEW c \in Calls, NEW outcome \in Outcomes,
         Told(c, outcome)'
  PROVE  Told(c, outcome) \/ Deserved(Response(c, outcome))'
<1> USE DEF ConsentInv
<1>1. /\ toCompanion \in Seq(ToCompanion)
      /\ op \in [Calls -> {"idle"} \cup Waiting \cup Unanswered \cup Outcomes]
      /\ outcome \notin {"idle"} \cup Waiting \cup Unanswered
  BY DEF TypeInv, TypeOK, ChannelsTypeOK, CompanionTypeOK, Outcomes, Waiting, Unanswered
<1>2. Told(c, outcome)' <=> op'[c] = outcome \/ Response(c, outcome) \in Members(toCompanion')
  BY DEF Told, Members
<1>3. CASE BackgroundSteps
  <2>1. PICK ms \in Seq(ToCompanion) : /\ toCompanion' = toCompanion \o ms
                                       /\ \A m \in Members(ms) : Deserved(m)'
    BY <1>3, BackgroundAnswers DEF AnswersWhatFollows
  <2>2. Members(toCompanion') \subseteq Members(toCompanion) \cup Members(ms)
    BY <1>1, <2>1, MembersConcat
  <2>3. UNCHANGED op
    BY <1>3, StepKinds
  <2> QED
    BY <1>2, <2>1, <2>2, <2>3 DEF Told
<1>4. CASE HostSteps
  BY <1>4, StepKinds DEF Told, Members, nativeChannels
<1>5. ASSUME NEW d \in Calls, DispatchStep(d) \/ AgentStopsStep(d) \/ CompanionTimeoutStep(d)
      PROVE  Told(c, outcome)
  <2>1. UNCHANGED toCompanion /\ (op'[c] = op[c] \/ op'[c] \in {"waiting", "abandoned"})
    BY <1>1, <1>5
       DEF DispatchStep, Dispatch, AgentStopsStep, AgentStops, CompanionTimeoutStep,
           CompanionTimeout, GiveUp
  <2> QED
    BY <1>1, <1>2, <2>1 DEF Told, Waiting, Unanswered
<1>6. CASE PortLostStep
  <2>1. toCompanion' = <<>> /\ (op'[c] = op[c] \/ op'[c] = "lost")
    BY <1>1, <1>6 DEF PortLostStep, PortLost
  <2> QED
    BY <1>1, <1>2, <2>1, FewAnswers DEF Told, Unanswered
<1>7. CASE ReconnectStep \/ \E t \in Tabs : \E p \in Pages : NavigateStep(t, p)
  BY <1>7 DEF ReconnectStep, Reconnect, NavigateStep, nativeChannels, Told, Members
<1>8. CASE CompanionReceives
  <2>1. toCompanion # <<>> /\ toCompanion' = Tail(toCompanion)
    BY <1>8 DEF CompanionReceives, ReceiveFromExtension, ReceivePending, ReceiveResponse
  <2>2. /\ Members(toCompanion') \subseteq Members(toCompanion)
        /\ Head(toCompanion) \in Members(toCompanion)
    BY <1>1, <2>1, MembersTail
  <2>3. op'[c] = outcome => op[c] = outcome \/ Head(toCompanion) = Response(c, outcome)
    BY <1>1, <1>8
       DEF CompanionReceives, ReceiveFromExtension, ReceivePending, ReceiveResponse, Waiting
  <2> QED
    BY <1>2, <2>2, <2>3 DEF Told
<1> QED
  BY <1>3, <1>4, <1>5, <1>6, <1>7, <1>8, StepKinds DEF OtherSteps

-----------------------------------------------------------------------------
(* A call that ended is closed *)

\* What the background and the host have been told of ends is true.
LEMMA StoppedBefore ==
  ASSUME TypeInv, FreshRequests, CardsFollowCalls, CancelsFollow, PendingRouted, Next,
         NEW c \in Calls
  PROVE  /\ c \in stopped' => c \in stopped \/ OperationCancel(c) \in Posted
         /\ OperationCancel(c) \in Posted' => OperationCancel(c) \in Posted \/ Closed(c)'
<1> DEFINE Good == /\ c \in stopped' => c \in stopped \/ OperationCancel(c) \in Posted
                   /\ OperationCancel(c) \in Posted' =>
                        OperationCancel(c) \in Posted \/ Closed(c)'
<1>1. Posted' = Members(toHost') /\ Posted = Members(toHost)
  BY DEF Posted, Members
<1>2. CASE OtherSteps
  BY <1>2, StepKinds DEF Posted, Members, hostVars
<1>3. CASE BackgroundSteps
  <2>1. UNCHANGED stopped
    BY <1>3, StepKinds DEF hostVars
  <2>2. CASE \E d \in Calls : SendOperation(d)
    <3>1. PICK d \in Calls : SendOperation(d)
      BY <2>2
    <3>2. PICK m \in ToHost : m.type = "operation" /\ toHost' = toHost \o <<m>>
      BY <3>1, SentOperation
    <3>3. toHost \in Seq(ToHost) /\ toHost' = Append(toHost, m)
      BY <3>2, Types, AppendIsConcat
    <3>4. Posted' = Posted \cup {m}
      BY ZenonT(30), <1>1, <3>2, <3>3, MembersAppend
    <3>5. m # OperationCancel(c)
      BY <3>2 DEF OperationCancel
    <3> QED
      BY <2>1, <3>4, <3>5
  <2>3. CASE \A d \in Calls : ~SendOperation(d)
    <3>1. PICK ms \in Seq(ToHost) : /\ toHost' = toHost \o ms
                                    /\ \A m \in Members(ms) : Follows(m)'
      BY <1>3, <2>3, BackgroundFollows DEF BackgroundSteps, PostsWhatFollows
    <3>2. Posted' \subseteq Posted \cup Members(ms)
      BY <1>1, <3>1, Types, MembersConcat
    <3>3. OperationCancel(c) \in Members(ms) => Closed(c)'
      BY <3>1 DEF Follows
    <3> QED
      BY <2>1, <3>2, <3>3
  <2> QED
    BY <2>2, <2>3
<1>4. CASE HostReceives
  <2>1. PICK m : m = Head(toHost)
    OBVIOUS
  <2>2. /\ toHost # <<>> /\ toHost' = Tail(toHost)
        /\ UNCHANGED stopped \/ (m.type = "operation-cancel" /\ stopped' = stopped \cup {m.call})
    BY <1>4, <2>1
       DEF HostReceives, ReceiveOperation, ReceiveOffer, ReceiveRevoke, ReceiveCancel,
           ReceiveSettled, Receive
  <2>3. Posted' \subseteq Posted /\ m \in Posted /\ m \in ToHost
    BY <1>1, <2>1, <2>2, Types, MembersTail
  <2>4. m.type = "operation-cancel" => m = OperationCancel(m.call)
    BY <2>3 DEF ToHost, Operation, Offer, OperationCancel
  <2> QED
    BY <2>2, <2>3, <2>4
<1>5. ASSUME NEW t \in Tabs, SurfaceStep(t) \/ Executes(t)
      PROVE  Good
  <2>1. UNCHANGED <<toHost, stopped>>
    BY <1>5, ExecutesMeans DEF SurfaceStep, SurfaceFound, SurfaceDropped, hostChannels
  <2> QED
    BY <2>1 DEF Posted, Members
<1> QED
  BY <1>2, <1>3, <1>4, <1>5, StepKinds DEF HostSteps

\* The companion gives a call up by voiding it, and the background takes that up.
LEMMA GivenUpBefore ==
  ASSUME TypeInv, FreshRequests, CardsFollowCalls, CancelsFollow, Next, NEW c \in Calls,
         "port lost" \notin Events, op'[c] = "abandoned",
         Cancelled(c) \notin Members(toExtension')
  PROVE  \/ op[c] = "abandoned" /\ Cancelled(c) \notin Members(toExtension)
         \/ Closed(c)'
<1> DEFINE Good == \/ op[c] = "abandoned" /\ Cancelled(c) \notin Members(toExtension)
                   \/ Closed(c)'
<1>1. /\ toExtension \in Seq(ToExtension)
      /\ op \in [Calls -> {"idle"} \cup Waiting \cup Unanswered \cup Outcomes]
  BY Types DEF TypeInv, TypeOK, CompanionTypeOK
<1>2. ASSUME op'[c] = op[c], Members(toExtension') = Members(toExtension)
      PROVE  Good
  BY <1>2
<1>3. ASSUME NEW d \in Calls, Dispatch(d)
      PROVE  Good
  <2>1. Members(toExtension) \subseteq Members(toExtension')
    <3>1. PICK m \in ToExtension : toExtension' = Append(toExtension, m)
      BY <1>3, MessageTypes DEF Dispatch
    <3>2. Members(Append(toExtension, m)) = Members(toExtension) \cup {m}
      BY ZenonT(30), <1>1, <3>1, MembersAppend
    <3> QED
      BY <3>1, <3>2
  <2>2. op'[c] = op[c]
    BY <1>1, <1>3 DEF Dispatch
  <2> QED
    BY <2>1, <2>2
<1>4. ASSUME NEW d \in Calls, GiveUp(d)
      PROVE  Good
  <2>1. Members(toExtension') = Members(toExtension) \cup {Cancelled(d)}
    BY ZenonT(30), <1>1, <1>4, MessageTypes, MembersAppend DEF GiveUp
  <2>2. d # c
    BY <2>1
  <2>3. op'[c] = op[c]
    BY <1>1, <1>4, <2>2 DEF GiveUp
  <2> QED
    BY <2>1, <2>3
<1>5. CASE BackgroundReceives
  <2>1. UNCHANGED op
    BY <1>5 DEF BackgroundReceives, BackgroundOnly
  <2>2. PICK d \in Calls : ReceiveRequest(d) \/ ReceiveCancelled(d)
    BY <1>5 DEF BackgroundReceives
  <2>3. /\ toExtension # <<>> /\ toExtension' = Tail(toExtension)
        /\ Head(toExtension) = Request(d) \/ (Head(toExtension) = Cancelled(d) /\ ReceiveCancelled(d))
    BY <2>2 DEF ReceiveRequest, ReceiveCancelled
  <2>4. Members(toExtension) \subseteq Members(Tail(toExtension)) \cup {Head(toExtension)}
    BY <1>1, <2>3, MembersHeadTail
  <2>5. CASE Head(toExtension) = Cancelled(d) /\ ReceiveCancelled(d)
    <3>1. CASE d = c
      BY <2>1, <2>5, <3>1, CancelTakenIsClosed
    <3>2. CASE d # c
      <4>1. Cancelled(c) # Head(toExtension)
        <5>1. Cancelled(c).call = c /\ Cancelled(d).call = d
          BY DEF Cancelled
        <5> QED
          BY <2>5, <3>2, <5>1
      <4> QED
        BY <2>1, <2>3, <2>4, <4>1
    <3> QED
      BY <3>1, <3>2
  <2>6. CASE Head(toExtension) = Request(d)
    <3>1. Cancelled(c) # Head(toExtension)
      <4>1. Cancelled(c).type = "cancelled" /\ Request(d).type = "request"
        BY DEF Cancelled, Request
      <4> QED
        BY <2>6, <4>1
    <3> QED
      BY <2>1, <2>3, <2>4, <3>1
  <2> QED
    BY <2>3, <2>5, <2>6
<1>6. CASE HostSteps
  BY <1>2, <1>6, StepKinds DEF nativeChannels
<1>7. ASSUME NEW d \in Calls, CallStep(d)
      PROVE  Good
  BY <1>2, <1>7, CallStepIsBackgrounds
<1>8. ASSUME NEW t \in Tabs, CloseTabStep(t)
      PROVE  Good
  BY <1>2, <1>8 DEF CloseTabStep, CloseTab, Answer
<1>9. ASSUME OtherSteps
      PROVE  Good
  <2>1. ~PortLostStep
    BY DEF PortLostStep, PortLost
  <2>2. CompanionReceives => op'[c] = op[c] /\ UNCHANGED toExtension
    BY <1>1 DEF CompanionReceives, ReceiveFromExtension, ReceivePending, ReceiveResponse,
                Outcomes
  <2> QED
    BY <1>2, <1>3, <1>4, <1>9, <2>1, <2>2
       DEF OtherSteps, DispatchStep, AgentStopsStep, AgentStops, CompanionTimeoutStep,
           CompanionTimeout, ReconnectStep, Reconnect, NavigateStep, nativeChannels
<1> QED
  BY <1>5, <1>6, <1>7, <1>8, <1>9, StepKinds DEF BackgroundSteps

\* Whatever ends a call closes it, and it stays closed.
LEMMA EndedIsClosedKept ==
  ASSUME ConsentInv, CancelsFollow, PendingRouted, SpentOnce, EndedIsClosed, Next
  PROVE  EndedIsClosed'
<1> USE DEF ConsentInv
<1> SUFFICES ASSUME NEW c \in Calls, Ended(c)'
             PROVE  Closed(c)'
  BY DEF EndedIsClosed
<1>1. Ended(c) => Closed(c)'
  BY ClosedKept DEF EndedIsClosed
<1>2. CASE c \in stopped' \/ OperationCancel(c) \in Posted'
  BY <1>1, <1>2, StoppedBefore DEF Ended
<1>3. ASSUME NEW outcome \in Outcomes, Told(c, outcome)'
      PROVE  Closed(c)'
  <2>1. Told(c, outcome) \/ Deserved(Response(c, outcome))'
    BY <1>3, ToldBefore
  <2>2. Deserved(Response(c, outcome))' => Closed(c)'
    BY DEF Deserved, Response
  <2> QED
    BY <1>1, <2>1, <2>2 DEF Ended
<1>4. CASE /\ "port lost" \notin Events
           /\ op'[c] = "abandoned"
           /\ Cancelled(c) \notin Members(toExtension')
  BY <1>1, <1>4, GivenUpBefore DEF Ended
<1> QED
  BY <1>2, <1>3, <1>4 DEF Ended, Members

\* The host is told of no end before the operation it ends.
LEMMA CancelsTrailKept ==
  ASSUME ConsentInv, CancelsFollow, PendingRouted, EndedIsClosed, CancelsTrail, Next
  PROVE  CancelsTrail'
<1> USE DEF ConsentInv
<1> DEFINE n == Len(toHost)
<1>1. toHost \in Seq(ToHost) /\ n \in Nat
  BY Types, LenProperties
<1>2. CASE UNCHANGED toHost
  BY <1>2 DEF CancelsTrail
<1>3. CASE BackgroundSteps /\ \E d \in Calls : SendOperation(d)
  <2>1. PICK d \in Calls : SendOperation(d)
    BY <1>3
  <2>2. PICK m \in ToHost : m.type = "operation" /\ m.call = d /\ toHost' = toHost \o <<m>>
    BY <2>1, SentOperation
  <2>3. toHost' = Append(toHost, m)
    BY <1>1, <2>2, AppendIsConcat
  <2>4. /\ Len(toHost') = n + 1
        /\ \A i \in 1..n : toHost'[i] = toHost[i]
        /\ toHost'[n + 1] = m
    BY <1>1, <2>3, AppendProperties
  <2>5. ASSUME NEW j \in 1..n, toHost[j] = OperationCancel(d)
        PROVE  FALSE
    <3>1. OperationCancel(d) \in Posted
      BY <2>5 DEF Posted, Members
    <3>2. Closed(d)
      BY <3>1 DEF EndedIsClosed, Ended
    <3> QED
      BY <2>1, <3>2 DEF SendOperation, Closed
  <2>6. \A c : m # OperationCancel(c)
    BY <2>2 DEF OperationCancel
  <2>7. \A i \in 1..n + 1 : i \in 1..n \/ i = n + 1
    BY <1>1
  <2> SUFFICES ASSUME NEW i \in 1..n + 1, NEW j \in 1..n + 1, toHost'[i].type = "operation",
                      toHost'[j] = OperationCancel(toHost'[i].call)
               PROVE  i < j
    BY <2>4 DEF CancelsTrail
  <2>8. j \in 1..n
    BY <2>4, <2>6, <2>7
  <2>9. i \in 1..n
    BY <2>2, <2>4, <2>5, <2>7, <2>8
  <2> QED
    BY <2>4, <2>8, <2>9 DEF CancelsTrail
<1>4. CASE BackgroundSteps /\ \A d \in Calls : ~SendOperation(d)
  <2>1. PICK ms \in Seq(ToHost) : /\ toHost' = toHost \o ms
                                  /\ \A m \in Members(ms) : Follows(m)'
    BY <1>4, BackgroundFollows DEF BackgroundSteps, PostsWhatFollows
  <2>2. /\ Len(toHost') \in Nat
        /\ \A i \in 1..n : toHost'[i] = toHost[i]
        /\ \A i \in 1..Len(toHost') : i \notin 1..n => n < i /\ toHost'[i] \in Members(ms)
    BY <1>1, <2>1, Concatenated
  <2> SUFFICES ASSUME NEW i \in 1..Len(toHost'), NEW j \in 1..Len(toHost'),
                      toHost'[i].type = "operation",
                      toHost'[j] = OperationCancel(toHost'[i].call)
               PROVE  i < j
    BY DEF CancelsTrail
  <2>3. i \in 1..n
    BY <2>1, <2>2 DEF Follows
  <2>4. CASE j \in 1..n
    BY <2>2, <2>3, <2>4 DEF CancelsTrail
  <2>5. CASE j \notin 1..n
    BY <1>1, <2>2, <2>3, <2>5
  <2> QED
    BY <2>4, <2>5
<1>5. CASE HostReceives
  <2>1. toHost # <<>> /\ toHost' = Tail(toHost)
    BY <1>5
       DEF HostReceives, ReceiveOperation, ReceiveOffer, ReceiveRevoke, ReceiveCancel,
           ReceiveSettled, Receive
  <2>2. /\ Len(toHost') = n - 1
        /\ \A i \in 1..n - 1 : toHost'[i] = toHost[i + 1] /\ i + 1 \in 1..n
    BY <1>1, <2>1, HeadTailProperties, EmptySeq
  <2> QED
    BY <1>1, <2>2 DEF CancelsTrail
<1>6. ASSUME NEW t \in Tabs, SurfaceStep(t) \/ Executes(t)
      PROVE  UNCHANGED toHost
  BY <1>6, ExecutesMeans DEF SurfaceStep, SurfaceFound, SurfaceDropped, hostChannels
<1> QED
  BY <1>2, <1>3, <1>4, <1>5, <1>6, StepKinds DEF HostSteps

-----------------------------------------------------------------------------
(* A call reaches its page once *)

\* Only the sending of an operation adds a call to the channel.
LEMMA PostedCalls ==
  ASSUME TypeInv, FreshRequests, CardsFollowCalls, CancelsFollow, PendingRouted, Next,
         NEW c \in CallsOf(toHost')
  PROVE  c \in CallsOf(toHost) \/ (c \in Calls /\ SendOperation(c))
<1>1. CASE UNCHANGED toHost
  BY <1>1
<1>2. CASE BackgroundSteps /\ \E d \in Calls : SendOperation(d)
  <2>1. PICK d \in Calls : SendOperation(d)
    BY <1>2
  <2>2. PICK m \in ToHost : m.type = "operation" /\ m.call = d /\ toHost' = toHost \o <<m>>
    BY <2>1, SentOperation
  <2>3. toHost \in Seq(ToHost) /\ toHost' = Append(toHost, m)
    BY <2>2, Types, AppendIsConcat
  <2>4. CallsOf(toHost') = CallsOf(toHost) \cup {m.call}
    BY <2>2, <2>3, CallsAppend
  <2> QED
    BY <2>1, <2>2, <2>4
<1>3. CASE BackgroundSteps /\ \A d \in Calls : ~SendOperation(d)
  BY <1>3, BackgroundFollows, PostsNoOperation DEF BackgroundSteps
<1>4. CASE HostReceives
  <2>1. toHost # <<>> /\ toHost' = Tail(toHost)
    BY <1>4
       DEF HostReceives, ReceiveOperation, ReceiveOffer, ReceiveRevoke, ReceiveCancel,
           ReceiveSettled, Receive
  <2> QED
    BY <2>1, Types, CallsTail
<1>5. ASSUME NEW t \in Tabs, SurfaceStep(t) \/ Executes(t)
      PROVE  UNCHANGED toHost
  BY <1>5, ExecutesMeans DEF SurfaceStep, SurfaceFound, SurfaceDropped, hostChannels
<1> QED
  BY <1>1, <1>2, <1>3, <1>4, <1>5, StepKinds DEF HostSteps

\* A call is spent where its tool is called, and stays spent.
LEMMA SpentBefore ==
  ASSUME TypeInv, Next, NEW c
  PROVE  /\ Spent(c) => Spent(c)'
         /\ Spent(c)' => Spent(c) \/ \E t \in Tabs : Executes(t) /\ Starts(t) /\ c = Current(t).call
<1>1. CASE UNCHANGED ran
  BY <1>1 DEF Spent
<1>2. CASE BackgroundSteps \/ OtherSteps
  BY <1>1, <1>2, StepKinds DEF hostVars
<1>3. CASE HostReceives \/ \E t \in Tabs : SurfaceStep(t)
  BY <1>1, <1>3
     DEF HostReceives, ReceiveOperation, ReceiveOffer, ReceiveRevoke, ReceiveCancel,
         ReceiveSettled, SurfaceStep, SurfaceFound, SurfaceDropped
<1>4. ASSUME NEW t \in Tabs, Executes(t)
      PROVE  /\ Spent(c) => Spent(c)'
             /\ Spent(c)' => Spent(c) \/ (Starts(t) /\ c = Current(t).call)
  <2>1. UNCHANGED ran \/ Starts(t)
    BY <1>4, ExecutesMeans DEF GivesUp, Proceeds, Settles
  <2>2. CASE Starts(t)
    BY <2>2 DEF Starts, Spent
  <2> QED
    BY <1>1, <2>1, <2>2 DEF Spent
<1> QED
  BY <1>2, <1>3, <1>4, StepKinds DEF HostSteps

\* The background neither runs a spent call again nor asks about it.
LEMMA SpentRests ==
  ASSUME TypeInv, FreshRequests, CardsFollowCalls, SpentOnce, Next, NEW c \in Calls, Spent(c)
  PROVE  stage'[c] \in {"none", "sent"} /\ decision'[c] # "open"
<1> DEFINE Rests == stage'[c] \in {"none", "sent"} /\ decision'[c] # "open"
<1> USE Types
<1>0. Routed(c) /\ stage[c] \in {"none", "sent"} /\ decision[c] # "open"
  BY DEF SpentOnce
<1>1. ASSUME UNCHANGED backgroundVars
      PROVE  Rests
  BY <1>0, <1>1 DEF backgroundVars, routing, asking
<1>2. ASSUME BackgroundReceives
      PROVE  Rests
  <2>1. PICK d \in Calls : ReceiveRequest(d) \/ ReceiveCancelled(d)
    BY <1>2 DEF BackgroundReceives
  <2>2. ReceiveRequest(d) => d # c
    BY <1>0, RequestTaken
  <2> QED
    BY <1>0, <2>1, <2>2 DEF ReceiveRequest, ReceiveCancelled, asking
<1>3. ASSUME NEW d \in Calls, Routes(d)
      PROVE  Rests
  BY <1>0, <1>3
     DEF Routes, RouteRefused, RouteWhileDeciding, RouteToTab, StartRun, RoutingEnded, asking
<1>4. ASSUME NEW d \in Calls, Prepares(d)
      PROVE  Rests
  BY <1>0, <1>4
     DEF Prepares, SendOperation, DropCancelled, HostUnavailable, FinishRun, RoutingEnded, asking
<1>5. ASSUME NEW d \in Calls, HostReplies(d)
      PROVE  Rests
  <2>1. PICK r \in replies : HostAnswered(d, r) \/ AskPerson(d, r)
    BY <1>5 DEF HostReplies
  <2>2. CASE HostAnswered(d, r)
    BY <1>0, <2>2 DEF HostAnswered, FinishRun, RoutingEnded, asking
  <2>3. CASE AskPerson(d, r)
    <3>1. r.call = d /\ r.kind = "approval"
      BY <2>3 DEF AskPerson, Asks
    <3>2. d # c
      BY <3>1 DEF SpentOnce
    <3> QED
      BY <1>0, <2>3, <3>2 DEF AskPerson, RoutingEnded
  <2> QED
    BY <2>1, <2>2, <2>3
<1>6. ASSUME NEW d \in Calls, CallTimeoutStep(d) \/ ExpireStep(d) \/ DenyStep(d)
      PROVE  Rests
  BY <1>0, <1>6
     DEF CallTimeoutStep, CallTimeout, ExpireStep, Expire, DenyStep, Deny, Refuse, routing, asking
<1>7. ASSUME NEW d \in Calls, NEW answer \in Allowing, AllowStep(d, answer)
      PROVE  Rests
  BY <1>0, <1>7 DEF AllowStep, Allow, OpenCards, StartRun
<1>8. ASSUME NEW t \in Tabs, CloseTabStep(t)
      PROVE  Rests
  BY <1>0, <1>8 DEF CloseTabStep, CloseTab, routing
<1> QED
  BY <1>1, <1>2, <1>3, <1>4, <1>5, <1>6, <1>7, <1>8, OthersKeepRouting DEF Next

\* A spent call stays out of every place from which it could run again.
LEMMA SpentCallKept ==
  ASSUME ConsentInv, CancelsFollow, PendingRouted, OnePlace, SpentOnce, Next, NEW c \in Calls,
         Spent(c)'
  PROVE  /\ Routed(c)'
         /\ stage'[c] \in {"none", "sent"}
         /\ decision'[c] # "open"
         /\ c \notin CallsOf(toHost')
<1> USE DEF ConsentInv
<1>1. CASE Spent(c)
  <2>1. Routed(c) /\ stage[c] # "prepare" /\ c \notin CallsOf(toHost)
    BY <1>1 DEF SpentOnce
  <2>2. c \notin CallsOf(toHost')
    BY <2>1, PostedCalls DEF SendOperation
  <2> QED
    BY <1>1, <2>1, <2>2, RoutedKept, SpentRests
<1>2. CASE ~Spent(c)
  <2>1. PICK t \in Tabs : Executes(t) /\ c = Current(t).call
    BY <1>2, SpentBefore
  <2>2. queue[t] # <<>> /\ UNCHANGED <<toHost, backgroundVars>>
    BY <2>1, ExecutesMeans DEF HostOnly
  <2>3. c \in InHand(t)
    BY <2>1, <2>2, CurrentInHand
  <2>4. stage[c] = "sent" /\ c \notin CallsOf(toHost)
    BY <2>3 DEF OnePlace
  <2>5. Routed(c) /\ decision[c] # "open"
    BY <2>4, TabMeansRouted DEF CardsFollowCalls, Allowing
  <2> QED
    BY <2>2, <2>4, <2>5, RoutedKept DEF backgroundVars, routing, asking
<1> QED
  BY <1>1, <1>2

\* The operations a tab holds have not run, but for the one it is running.
SpentOn(t) ==
  /\ \A c \in CallsOf(surfaceWait[t]) : ~Spent(c)
  /\ \A c \in CallsOf(queue[t]) : Spent(c) <=> Runs(t) /\ Current(t).call = c

\* The background takes answers up, and adds none.
LEMMA BackgroundTakesReplies ==
  ASSUME BackgroundSteps
  PROVE  replies' \subseteq replies
  BY ZenonT(30) DEF BackgroundSteps, CallStep, Routes, RouteRefused, RouteWhileDeciding, RouteToTab,
         Prepares, SendOperation, DropCancelled, HostUnavailable, HostReplies, HostAnswered,
         AskPerson, CallTimeoutStep, CallTimeout, ExpireStep, Expire, DenyStep, Deny, Refuse,
         AllowStep, Allow, BackgroundReceives, ReceiveRequest, ReceiveCancelled, CloseTabStep,
         CloseTab, hostChannels

\* Handling a message: what it adds to a tab has not run.
LEMMA SpentReceive ==
  ASSUME ConsentInv, OnePlace, SpentOnce, Next, HostReceives, NEW t \in Tabs
  PROVE  SpentOn(t)'
<1> USE DEF ConsentInv
<1>0. PICK m : m = Head(toHost)
  OBVIOUS
<1>1. /\ toHost # <<>> /\ toHost \in Seq(ToHost)
      /\ UNCHANGED ran
      /\ SpentOn(t)
  BY <1>0, Types
     DEF HostReceives, ReceiveOperation, ReceiveOffer, ReceiveRevoke, ReceiveCancel,
         ReceiveSettled, Receive, SpentOnce, SpentOn
<1>2. \A c : Spent(c)' <=> Spent(c)
  BY <1>1 DEF Spent
<1>3. CASE /\ surfaceWait'[t] = surfaceWait[t] /\ queue'[t] = queue[t]
           /\ Runs(t)' <=> Runs(t)
  <2>1. Current(t)' = Current(t)
    BY <1>3 DEF Current
  <2> QED
    BY <1>1, <1>2, <1>3, <2>1 DEF SpentOn, CallsOf, Members
<1>4. CASE /\ UNCHANGED <<surfaceWait, queue>>
           /\ UNCHANGED phase \/ ReceiveCancel(m)
  <2>1. Runs(t)' <=> Runs(t)
    BY <1>4 DEF Runs, ReceiveCancel, RunningTabs
  <2> QED
    BY <1>3, <1>4, <2>1
<1>5. CASE ReceiveOperation(m)
  <2>1. m \in Operation /\ m.type = "operation" /\ m.tab \in Tabs /\ UNCHANGED phase
    BY <1>0, <1>1, <1>5, HostMessageFields, HeadTailProperties DEF ReceiveOperation, Operation
  <2>2. PICK c : c = m.call
    OBVIOUS
  <2>3. c \in CallsOf(toHost)
    BY <1>0, <1>1, <2>1, <2>2, CallsTail
  <2>4. ~Spent(c) /\ c \notin InHand(t) /\ c \in Calls
    BY <2>3, PlacedCalls DEF SpentOnce, OnePlace
  <2>5. CASE m.tab # t
    <3>1. surfaceWait'[t] = surfaceWait[t] /\ queue'[t] = queue[t]
      BY <1>5, <2>1, <2>5, Types DEF ReceiveOperation
    <3> QED
      BY <1>3, <2>1, <3>1 DEF Runs
  <2>6. CASE m.tab = t
    <3>1. surfaceWait[t] \in Seq(Operation) /\ queue[t] \in Seq(Operation)
      BY Types
    <3>2. CASE surfaceWait'[t] = Append(surfaceWait[t], m) /\ queue'[t] = queue[t]
      <4>1. CallsOf(surfaceWait'[t]) = CallsOf(surfaceWait[t]) \cup {c}
        BY <2>1, <2>2, <3>1, <3>2, CallsAppend
      <4>2. CallsOf(surfaceWait[t])' = CallsOf(surfaceWait'[t]) /\ CallsOf(queue[t])' = CallsOf(queue[t])
        BY <3>2 DEF CallsOf, Members
      <4>3. Current(t)' = Current(t) /\ (Runs(t)' <=> Runs(t))
        BY <2>1, <3>2 DEF Current, Runs
      <4> QED
        BY <1>1, <1>2, <2>4, <4>1, <4>2, <4>3 DEF SpentOn
    <3>3. CASE queue'[t] = Append(queue[t], m) /\ surfaceWait'[t] = surfaceWait[t]
      <4>1. CallsOf(queue'[t]) = CallsOf(queue[t]) \cup {c}
        BY <2>1, <2>2, <3>1, <3>3, CallsAppend
      <4>2. CallsOf(queue[t])' = CallsOf(queue'[t]) /\ CallsOf(surfaceWait[t])' = CallsOf(surfaceWait[t])
        BY <3>3 DEF CallsOf, Members
      <4>3. Runs(t)' <=> Runs(t)
        BY <2>1 DEF Runs
      <4>4. Runs(t) => /\ Current(t)' = Current(t)
                       /\ Current(t).call \in CallsOf(queue[t])
        <5>1. Runs(t) => queue[t] # <<>>
          BY Types DEF Runs, ExecutingHasCall
        <5>2. queue[t] # <<>> => Head(queue'[t]) = Head(queue[t])
          BY <2>1, <3>1, <3>3, AppendOperation
        <5> QED
          BY <5>1, <5>2, CurrentInHand DEF Current
      <4>5. c \notin CallsOf(queue[t])
        BY <2>4 DEF InHand
      <4> QED
        BY <1>1, <1>2, <2>4, <4>1, <4>2, <4>3, <4>4, <4>5 DEF SpentOn
    <3> QED
      BY <1>5, <2>6, <3>2, <3>3, Types DEF ReceiveOperation
  <2> QED
    BY <2>5, <2>6
<1> QED
  BY <1>0, <1>4, <1>5
     DEF HostReceives, ReceiveOffer, ReceiveRevoke, ReceiveCancel, ReceiveSettled, executing

\* Leaving the wait for a document: the call has not run.
LEMMA SpentSurface ==
  ASSUME ConsentInv, OnePlace, SpentOnce, NEW u \in Tabs, SurfaceStep(u), NEW t \in Tabs
  PROVE  /\ SpentOn(t)'
         /\ \A r \in replies' : r.kind = "ran" <=> Spent(r.call)'
<1> USE DEF ConsentInv
<1>0. PICK m, c : m = Head(surfaceWait[u]) /\ c = m.call
  OBVIOUS
<1>1. /\ surfaceWait[u] # <<>>
      /\ surfaceWait' = [surfaceWait EXCEPT ![u] = Tail(@)]
      /\ UNCHANGED <<ran, phase>>
      /\ \/ UNCHANGED replies /\ queue' = [queue EXCEPT ![u] = Append(@, m)]
         \/ UNCHANGED queue /\ replies' = replies \cup {[call |-> c, kind |-> "notRun"]}
  BY <1>0 DEF SurfaceStep, SurfaceFound, SurfaceDropped, executing, hostChannels
<1>2. \A x : Spent(x)' <=> Spent(x)
  BY <1>1 DEF Spent
<1>3. m \in Operation /\ m.type = "operation" /\ c \in CallsOf(surfaceWait[u])
  <2>1. m \in Operation /\ m.type = "operation"
    BY <1>0, <1>1, Types, TakeOperation DEF Operation
  <2> QED
    BY <1>0, <1>1, <2>1, Types, CallsTail
<1>4. ~Spent(c) /\ c \notin CallsOf(queue[u])
  BY <1>3 DEF SpentOnce, OnePlace
<1>5. \A r \in replies' : r.kind = "ran" <=> Spent(r.call)'
  BY <1>1, <1>2, <1>4 DEF SpentOnce
<1>6. SpentOn(t)
  BY DEF SpentOnce, SpentOn
<1>7. CallsOf(surfaceWait[t])' = CallsOf(surfaceWait'[t]) /\ CallsOf(queue[t])' = CallsOf(queue'[t])
  BY DEF CallsOf, Members
<1>8. Runs(t)' <=> Runs(t)
  BY <1>1 DEF Runs
<1>9. surfaceWait[t] \in Seq(Operation) /\ queue[t] \in Seq(Operation)
  BY Types
<1>10. CallsOf(surfaceWait'[t]) \subseteq CallsOf(surfaceWait[t])
  <2>1. CASE t = u
    <3>1. surfaceWait'[t] = Tail(surfaceWait[t])
      BY <1>1, <2>1, Types
    <3> QED
      BY <1>1, <1>9, <2>1, <3>1, CallsTail
  <2>2. CASE t # u
    <3>1. surfaceWait'[t] = surfaceWait[t]
      BY <1>1, <2>2, Types
    <3> QED
      BY <3>1
  <2> QED
    BY <2>1, <2>2
<1>11. CASE queue'[t] = queue[t]
  <2>1. Current(t)' = Current(t)
    BY <1>11 DEF Current
  <2> QED
    BY <1>2, <1>5, <1>6, <1>7, <1>8, <1>10, <1>11, <2>1 DEF SpentOn
<1>12. CASE t = u /\ queue'[t] = Append(queue[t], m)
  <2>1. CallsOf(queue'[t]) = CallsOf(queue[t]) \cup {c}
    BY <1>0, <1>3, <1>9, <1>12, CallsAppend
  <2>2. Runs(t) => /\ Current(t)' = Current(t)
                   /\ Current(t).call \in CallsOf(queue[t])
    <3>1. Runs(t) => queue[t] # <<>>
      BY Types DEF Runs, ExecutingHasCall
    <3>2. queue[t] # <<>> => Head(queue'[t]) = Head(queue[t])
      BY <1>3, <1>9, <1>12, AppendOperation
    <3> QED
      BY <3>1, <3>2, CurrentInHand DEF Current
  <2> QED
    BY <1>2, <1>4, <1>5, <1>6, <1>7, <1>8, <1>10, <1>12, <2>1, <2>2 DEF SpentOn
<1> QED
  BY <1>1, <1>11, <1>12, Types

\* Executing: a call that starts had not run, and one that returns says whether it has.
LEMMA SpentExecutes ==
  ASSUME ConsentInv, OnePlace, SpentOnce, Next, NEW u \in Tabs, Executes(u), NEW t \in Tabs
  PROVE  /\ SpentOn(t)'
         /\ \A r \in replies' : r.kind = "ran" <=> Spent(r.call)'
<1> USE DEF ConsentInv
<1>0. PICK c : c = Current(u).call
  OBVIOUS
<1>1. /\ queue[u] # <<>>
      /\ UNCHANGED surfaceWait
      /\ GivesUp(u) \/ Proceeds(u) \/ Starts(u) \/ Settles(u)
  BY ExecutesMeans
<1>2. /\ c \in CallsOf(queue[u]) /\ c \in InHand(u)
      /\ c \notin Answering
      /\ Alone(queue[u])
      /\ c \notin CallsOf(surfaceWait[u])
  BY <1>0, <1>1, CurrentInHand DEF OnePlace
<1>3. \A v \in Tabs \ {u} : c \notin InHand(v)
  BY <1>2, InHandOnTab DEF OnTheWay
<1>4. SpentOn(t) /\ SpentOn(u)
  BY DEF SpentOnce, SpentOn
<1>5. CallsOf(surfaceWait[t])' = CallsOf(surfaceWait[t]) /\ CallsOf(queue[t])' = CallsOf(queue'[t])
  BY <1>1 DEF CallsOf, Members
<1>6. CASE GivesUp(u) \/ Settles(u)
  <2>1. PICK a : /\ a.call = c
                 /\ a.kind = "ran" <=> Runs(u)
                 /\ Return(u, a)
                 /\ UNCHANGED ran
    BY <1>0, <1>6 DEF GivesUp, Settles
  <2>2. \A x : Spent(x)' <=> Spent(x)
    BY <2>1 DEF Spent
  <2>3. Spent(c) <=> Runs(u)
    BY <1>0, <1>2, <1>4 DEF SpentOn
  <2>4. \A r \in replies' : r.kind = "ran" <=> Spent(r.call)'
    BY <2>1, <2>2, <2>3 DEF Return, SpentOnce
  <2>5. CASE t = u
    <3>1. queue'[t] = Tail(queue[t]) /\ phase'[t] = "idle"
      BY <2>1, <2>5, Types DEF Return
    <3>2. CallsOf(queue'[t]) \subseteq CallsOf(queue[t]) \ {c}
      <4>1. /\ queue[t] \in Seq(Operation) /\ queue[t] # <<>> /\ Alone(queue[t])
            /\ Head(queue[t]).type = "operation" /\ Head(queue[t]).call = c
        BY <1>0, <1>1, <1>2, <2>5, Types, CurrentInHand DEF Current
      <4> QED
        BY <3>1, <4>1, CallsTail
    <3>3. ~Runs(t)'
      BY <3>1 DEF Runs
    <3> QED
      BY <1>0, <1>4, <1>5, <2>2, <2>4, <2>5, <3>2, <3>3 DEF SpentOn
  <2>6. CASE t # u
    <3>1. queue'[t] = queue[t] /\ phase'[t] = phase[t]
      BY <2>1, <2>6, Types DEF Return
    <3>2. Current(t)' = Current(t) /\ (Runs(t)' <=> Runs(t))
      BY <3>1 DEF Current, Runs
    <3> QED
      BY <1>4, <1>5, <2>2, <2>4, <3>1, <3>2 DEF SpentOn
  <2> QED
    BY <2>5, <2>6
<1>7. CASE Proceeds(u) \/ Starts(u)
  <2>1. /\ UNCHANGED <<queue, replies>>
        /\ ~Runs(u)
        /\ \A v \in Tabs \ {u} : phase'[v] = phase[v]
    BY <1>7, Types DEF Proceeds, Starts
  <2>2. Current(t)' = Current(t)
    BY <2>1 DEF Current
  <2>3. CASE Proceeds(u)
    <3>1. phase'[u] \in {"checking", "confirming"} /\ UNCHANGED ran
      BY <2>3, Types DEF Proceeds
    <3>2. Runs(t)' <=> Runs(t)
      BY <2>1, <3>1 DEF Runs
    <3>3. \A x : Spent(x)' <=> Spent(x)
      BY <3>1 DEF Spent
    <3> QED
      BY <1>4, <1>5, <2>1, <2>2, <3>2, <3>3 DEF SpentOn, SpentOnce
  <2>4. CASE Starts(u)
    <3>1. phase'[u] = "running"
      BY <2>4, Types DEF Starts
    <3>2. \A x : Spent(x)' <=> Spent(x) \/ x = c
      <4>1. PICK r : r.call = c /\ ran' = ran \cup {r}
        BY <1>0, <2>4 DEF Starts
      <4> QED
        BY <4>1 DEF Spent
    <3>3. Runs(t)' <=> Runs(t) \/ t = u
      BY <2>1, <3>1 DEF Runs
    <3>4. \A r \in replies' : r.call # c
      BY <1>2, <2>1 DEF Answering
    <3>5. \A r \in replies' : r.kind = "ran" <=> Spent(r.call)'
      BY <2>1, <3>2, <3>4 DEF SpentOnce
    <3>6. CASE t = u
      BY <1>0, <1>2, <1>4, <1>5, <2>1, <2>2, <3>2, <3>3, <3>5, <3>6 DEF SpentOn
    <3>7. CASE t # u
      <4>1. c \notin CallsOf(queue[t]) /\ c \notin CallsOf(surfaceWait[t])
        BY <1>3, <3>7 DEF InHand
      <4> QED
        BY <1>4, <1>5, <2>1, <2>2, <3>2, <3>3, <3>5, <3>7, <4>1 DEF SpentOn
    <3> QED
      BY <3>6, <3>7
  <2> QED
    BY <1>7, <2>3, <2>4
<1> QED
  BY <1>1, <1>6, <1>7

\* A call that reached its page is nowhere from where it could reach it again.
LEMMA SpentOnceKept ==
  ASSUME ConsentInv, CancelsFollow, PendingRouted, OnePlace, SpentOnce, Next
  PROVE  SpentOnce'
<1> USE DEF ConsentInv
<1>1. \A c \in Calls : Spent(c)' =>
        /\ Routed(c)'
        /\ stage'[c] \in {"none", "sent"}
        /\ decision'[c] # "open"
        /\ c \notin CallsOf(toHost')
  BY SpentCallKept
<1>2. ASSUME BackgroundSteps \/ OtherSteps
      PROVE  /\ \A t \in Tabs : SpentOn(t)'
             /\ \A r \in replies' : r.kind = "ran" <=> Spent(r.call)'
  <2>1. UNCHANGED hostVars /\ replies' \subseteq replies
    BY <1>2, StepKinds, BackgroundTakesReplies
  <2>2. \A x : Spent(x)' <=> Spent(x)
    BY <2>1 DEF Spent, hostVars
  <2>3. \A t \in Tabs : /\ CallsOf(surfaceWait[t])' = CallsOf(surfaceWait[t])
                        /\ CallsOf(queue[t])' = CallsOf(queue[t])
                        /\ Current(t)' = Current(t)
                        /\ Runs(t)' <=> Runs(t)
    BY <2>1 DEF CallsOf, Members, Current, Runs, hostVars, executing
  <2> QED
    BY <2>1, <2>2, <2>3 DEF SpentOnce, SpentOn
<1>3. ASSUME HostReceives
      PROVE  /\ \A t \in Tabs : SpentOn(t)'
             /\ \A r \in replies' : r.kind = "ran" <=> Spent(r.call)'
  <2>1. UNCHANGED <<ran, replies>>
    BY <1>3
       DEF HostReceives, ReceiveOperation, ReceiveOffer, ReceiveRevoke, ReceiveCancel,
           ReceiveSettled
  <2>2. \A x : Spent(x)' <=> Spent(x)
    BY <2>1 DEF Spent
  <2> QED
    BY <1>3, <2>1, <2>2, SpentReceive DEF SpentOnce
<1>4. ASSUME NEW u \in Tabs, SurfaceStep(u) \/ Executes(u)
      PROVE  /\ \A t \in Tabs : SpentOn(t)'
             /\ \A r \in replies' : r.kind = "ran" <=> Spent(r.call)'
  BY <1>4, SpentSurface, SpentExecutes
<1>5. /\ \A t \in Tabs : SpentOn(t)'
      /\ \A r \in replies' : r.kind = "ran" <=> Spent(r.call)'
  BY <1>2, <1>3, <1>4, StepKinds DEF HostSteps
<1> QED
  BY <1>1, <1>5 DEF SpentOnce, SpentOn, CallsOf, Members

\* What the agent is told of a call is true of its page, and stays so.
LEMMA ToldTrueKept ==
  ASSUME ConsentInv, CancelsFollow, PendingRouted, OnePlace, SpentOnce, ToldTrue, Next
  PROVE  ToldTrue'
<1> USE DEF ConsentInv
<1> SUFFICES ASSUME NEW c \in Calls
             PROVE  /\ Told(c, "notRun")' => Over(c)' /\ ~Spent(c)'
                    /\ Told(c, "ran")' => Spent(c)'
  BY DEF ToldTrue
<1>1. Told(c, "ran")' => Told(c, "ran") \/ Spent(c)'
  BY ToldBefore DEF Outcomes, Deserved, Response
<1>2. Told(c, "notRun")' => Told(c, "notRun") \/ (Over(c)' /\ ~Spent(c)')
  BY ToldBefore DEF Outcomes, Deserved, Response
<1>3. Told(c, "ran") => Spent(c)'
  BY SpentBefore DEF ToldTrue
<1>4. ASSUME Over(c), ~Spent(c)
      PROVE  Over(c)' /\ ~Spent(c)'
  <2>1. ASSUME Spent(c)'
        PROVE  FALSE
    <3>1. PICK t \in Tabs : Executes(t) /\ c = Current(t).call
      BY <1>4, <2>1, SpentBefore
    <3>2. c \in InHand(t)
      BY <3>1, ExecutesMeans, CurrentInHand
    <3> QED
      BY <1>4, <3>2 DEF OnePlace, Over
  <2> QED
    BY <1>4, <2>1, OverKept
<1> QED
  BY <1>1, <1>2, <1>3, <1>4 DEF ToldTrue

-----------------------------------------------------------------------------
(* A stopped call is marked wherever it is *)

\* A queue of operations: its calls, by either definition.
LEMMA QueueCalls ==
  ASSUME NEW q \in Seq(Operation)
  PROVE  CallsIn(q) = CallsOf(q)
<1>1. \A i \in 1..Len(q) : q[i] \in Operation
  BY ElementOfSeq
<1>2. \A i \in 1..Len(q) : q[i].type = "operation"
  BY <1>1 DEF Operation
<1>3. DOMAIN q = 1..Len(q)
  BY LenProperties
<1> QED
  BY <1>2, <1>3 DEF CallsIn, CallsOf, Members

\* The calls of either place, tab by tab.
LEMMA WaitingCalls ==
  ASSUME TypeInv
  PROVE  /\ \A c : c \in WaitingForSurface <=> \E t \in Tabs : c \in CallsOf(surfaceWait[t])
         /\ \A c : c \in InFlight <=> \E t \in Tabs : c \in CallsOf(queue[t])
  BY Types, QueueCalls DEF WaitingForSurface, InFlight

\* A queue that grew at its end executes what it executed.
LEMMA StillCurrent ==
  ASSUME TypeInv, NEW t \in Tabs, NEW m \in Operation, phase[t] # "idle",
         queue'[t] = queue[t] \/ queue'[t] = Append(queue[t], m)
  PROVE  Current(t)' = Current(t) /\ queue[t] # <<>>
<1>1. queue[t] # <<>> /\ queue[t] \in Seq(Operation)
  BY Types DEF ExecutingHasCall
<1>2. Head(Append(queue[t], m)) = Head(queue[t])
  BY <1>1, AppendOperation
<1> QED
  BY <1>1, <1>2 DEF Current

\* The cancellation of a call marks it in the one place where it is.
LEMMA CancelMarks ==
  ASSUME ConsentInv, OnePlace, CancelsTrail, NEW m, m = Head(toHost), ReceiveCancel(m)
  PROVE  m.call \notin CallsOf(toHost') /\ \A t \in Tabs : MarkedOn(m.call, t)'
<1> USE DEF ConsentInv
<1>0. PICK c : c = m.call
  OBVIOUS
<1>1. /\ toHost # <<>> /\ toHost' = Tail(toHost) /\ toHost \in Seq(ToHost)
      /\ m \in ToHost /\ m.type = "operation-cancel" /\ m = toHost[1]
      /\ UNCHANGED <<surfaceWait, queue>>
  BY Types, HeadTailProperties DEF ReceiveCancel, Receive
<1>2. m = OperationCancel(c)
  BY <1>0, <1>1 DEF ToHost, Operation, Offer, OperationCancel
<1>3. c \notin CallsOf(toHost)
  <2>1. Len(toHost) \in Nat \ {0} /\ 1 \in 1..Len(toHost)
    BY <1>1, EmptySeq, LenProperties
  <2>2. ASSUME NEW i \in 1..Len(toHost), toHost[i].type = "operation", toHost[i].call = c
        PROVE  FALSE
    <3>1. i < 1
      BY <1>1, <1>2, <2>1, <2>2 DEF CancelsTrail
    <3> QED
      BY <2>1, <3>1
  <2> QED
    BY <2>2 DEF CallsOf, Members
<1>4. c \notin CallsOf(toHost')
  BY <1>1, <1>3, CallsTail
<1> SUFFICES ASSUME NEW t \in Tabs
             PROVE  MarkedOn(c, t)'
  BY <1>0, <1>4
<1>5. CallsOf(surfaceWait[t])' = CallsOf(surfaceWait[t]) /\ CallsOf(queue[t])' = CallsOf(queue[t])
  BY <1>1 DEF CallsOf, Members
<1>6. c \in CallsOf(surfaceWait[t]) => c \in surfaceCancelled'
  BY <1>0, WaitingCalls DEF ReceiveCancel
<1>7. ASSUME c \in CallsOf(queue[t])
      PROVE  c \in hostCancelled' \/ (phase'[t] = "cut" /\ Current(t)'.call = c)
  <2>1. c \in InFlight
    BY <1>7, WaitingCalls
  <2>2. CASE RunningTabs(c) = {}
    BY <1>0, <2>1, <2>2 DEF ReceiveCancel
  <2>3. ASSUME NEW u \in RunningTabs(c)
        PROVE  phase'[t] = "cut" /\ Current(t)'.call = c
    <3>1. u \in Tabs /\ phase[u] \in {"running", "cut"} /\ Current(u).call = c
      BY <2>3 DEF RunningTabs, Current
    <3>2. queue[u] # <<>>
      BY <3>1, Types DEF ExecutingHasCall
    <3>3. c \in InHand(u) /\ c \in InHand(t)
      BY <1>7, <3>1, <3>2, CurrentInHand DEF InHand
    <3>4. u = t
      BY <3>1, <3>3, InHandOnTab DEF OnTheWay
    <3>5. phase'[t] = "cut"
      BY <1>0, <2>3, <3>4 DEF ReceiveCancel
    <3> QED
      BY <1>1, <3>1, <3>4, <3>5 DEF Current
  <2> QED
    BY <2>2, <2>3
<1> QED
  BY <1>5, <1>6, <1>7 DEF MarkedOn

\* A mark stays while the host handles other messages.
LEMMA MarkedReceive ==
  ASSUME ConsentInv, HostReceives, NEW c, c \notin CallsOf(toHost), NEW t \in Tabs, MarkedOn(c, t)
  PROVE  c \notin CallsOf(toHost') /\ MarkedOn(c, t)'
<1> USE DEF ConsentInv
<1>0. PICK m : m = Head(toHost)
  OBVIOUS
<1>1. toHost # <<>> /\ toHost' = Tail(toHost) /\ toHost \in Seq(ToHost)
  BY Types
     DEF HostReceives, ReceiveOperation, ReceiveOffer, ReceiveRevoke, ReceiveCancel,
         ReceiveSettled, Receive
<1>2. c \notin CallsOf(toHost')
  BY <1>1, CallsTail
<1>3. CASE /\ UNCHANGED <<surfaceWait, queue>>
           /\ surfaceCancelled \subseteq surfaceCancelled' /\ hostCancelled \subseteq hostCancelled'
           /\ phase[t] = "cut" => phase'[t] = "cut"
  BY <1>2, <1>3 DEF MarkedOn, CallsOf, Members, Current
<1>4. CASE ReceiveCancel(m)
  <2>1. phase[t] = "cut" => phase'[t] = "cut"
    BY <1>4 DEF ReceiveCancel
  <2> QED
    BY <1>3, <1>4, <2>1 DEF ReceiveCancel
<1>5. CASE ReceiveOperation(m)
  <2>1. m \in Operation /\ m.type = "operation" /\ UNCHANGED <<phase, surfaceCancelled, hostCancelled>>
    BY <1>0, <1>1, <1>5, HostMessageFields, HeadTailProperties DEF ReceiveOperation
  <2>2. m.call # c
    BY <1>0, <1>1, <2>1, CallsTail
  <2>3. /\ surfaceWait'[t] = surfaceWait[t] \/ surfaceWait'[t] = Append(surfaceWait[t], m)
        /\ queue'[t] = queue[t] \/ queue'[t] = Append(queue[t], m)
    BY <1>5, Types DEF ReceiveOperation
  <2>4. /\ c \in CallsOf(surfaceWait'[t]) => c \in CallsOf(surfaceWait[t])
        /\ c \in CallsOf(queue'[t]) => c \in CallsOf(queue[t])
    <3>1. /\ CallsOf(Append(surfaceWait[t], m)) = CallsOf(surfaceWait[t]) \cup {m.call}
          /\ CallsOf(Append(queue[t], m)) = CallsOf(queue[t]) \cup {m.call}
      BY <2>1, Types, CallsAppend
    <3> QED
      BY <2>2, <2>3, <3>1
  <2>5. phase[t] = "cut" => Current(t)' = Current(t)
    BY <2>1, <2>3, StillCurrent
  <2>6. CallsOf(surfaceWait[t])' = CallsOf(surfaceWait'[t]) /\ CallsOf(queue[t])' = CallsOf(queue'[t])
    BY DEF CallsOf, Members
  <2> QED
    BY <1>2, <2>1, <2>4, <2>5, <2>6 DEF MarkedOn
<1> QED
  BY <1>0, <1>3, <1>4, <1>5
     DEF HostReceives, ReceiveOffer, ReceiveRevoke, ReceiveSettled, executing

\* A marked call does not go from the wait for a document to the queue.
LEMMA MarkedSurface ==
  ASSUME ConsentInv, OnePlace, NEW u \in Tabs, SurfaceStep(u), NEW c, NEW t \in Tabs,
         \A v \in Tabs : MarkedOn(c, v)
  PROVE  MarkedOn(c, t)'
<1> USE DEF ConsentInv
<1>0. PICK m : m = Head(surfaceWait[u])
  OBVIOUS
<1>1. /\ surfaceWait[u] # <<>>
      /\ surfaceWait' = [surfaceWait EXCEPT ![u] = Tail(@)]
      /\ UNCHANGED <<phase, hostCancelled>>
      /\ \/ /\ UNCHANGED surfaceCancelled
            /\ m.call \notin surfaceCancelled
            /\ queue' = [queue EXCEPT ![u] = Append(@, m)]
         \/ /\ UNCHANGED queue
            /\ surfaceCancelled' = surfaceCancelled \ {m.call}
  BY <1>0 DEF SurfaceStep, SurfaceFound, SurfaceDropped, executing
<1>2. /\ m \in Operation /\ m.type = "operation"
      /\ surfaceWait[u] \in Seq(Operation) /\ Head(surfaceWait[u]).type = "operation"
  BY <1>0, <1>1, Types, TakeOperation DEF Operation
<1>3. m.call \in CallsOf(surfaceWait[u]) /\ m.call \notin CallsOf(Tail(surfaceWait[u]))
  <2>1. Alone(surfaceWait[u])
    BY DEF OnePlace
  <2> QED
    BY <1>0, <1>1, <1>2, <2>1, CallsTail
<1>4. CallsOf(surfaceWait[t])' = CallsOf(surfaceWait'[t]) /\ CallsOf(queue[t])' = CallsOf(queue'[t])
  BY DEF CallsOf, Members
<1>5. /\ surfaceWait'[u] = Tail(surfaceWait[u])
      /\ t # u => surfaceWait'[t] = surfaceWait[t] /\ queue'[t] = queue[t]
      /\ queue'[t] = queue[t] \/ queue'[t] = Append(queue[t], m)
  BY <1>1, Types
<1>6. CallsOf(surfaceWait'[t]) \subseteq CallsOf(surfaceWait[t]) \ {m.call}
  <2>1. CASE t = u
    BY <1>1, <1>2, <1>3, <1>5, <2>1, CallsTail
  <2>2. CASE t # u
    <3>1. m.call \notin InHand(t)
      BY <1>3, <2>2, InHandOnTab DEF OnTheWay, InHand
    <3> QED
      BY <1>5, <2>2, <3>1 DEF InHand
  <2> QED
    BY <2>1, <2>2
<1>7. phase[t] = "cut" => Current(t)' = Current(t)
  BY <1>2, <1>5, StillCurrent
<1>8. c \in CallsOf(surfaceWait'[t]) => c \in surfaceCancelled'
  BY <1>1, <1>6 DEF MarkedOn
<1>9. c \in CallsOf(queue'[t]) => c \in CallsOf(queue[t])
  <2>1. CASE queue'[t] = queue[t]
    BY <2>1
  <2>2. CASE queue'[t] # queue[t]
    <3>1. /\ t = u /\ queue'[t] = Append(queue[t], m) /\ m.call \notin surfaceCancelled
          /\ queue[t] \in Seq(Operation)
      BY <1>1, <1>5, <2>2, Types
    <3>2. CallsOf(queue'[t]) = CallsOf(queue[t]) \cup {m.call}
      BY <1>2, <3>1, CallsAppend
    <3>3. c # m.call
      BY <1>3, <3>1 DEF MarkedOn
    <3> QED
      BY <3>2, <3>3
  <2> QED
    BY <2>1, <2>2
<1> QED
  BY <1>1, <1>4, <1>7, <1>8, <1>9 DEF MarkedOn

\* A marked call is not started; its mark goes with it.
LEMMA MarkedExecutes ==
  ASSUME ConsentInv, OnePlace, NEW u \in Tabs, Executes(u), NEW c, NEW t \in Tabs,
         \A v \in Tabs : MarkedOn(c, v)
  PROVE  MarkedOn(c, t)'
<1> USE DEF ConsentInv
<1>0. PICK d : d = Current(u).call
  OBVIOUS
<1>1. /\ queue[u] # <<>>
      /\ UNCHANGED <<surfaceWait, surfaceCancelled>>
      /\ GivesUp(u) \/ Proceeds(u) \/ Starts(u) \/ Settles(u)
  BY ExecutesMeans
<1>2. /\ d \in CallsOf(queue[u]) /\ d \in InHand(u)
      /\ queue[u] \in Seq(Operation) /\ Alone(queue[u])
      /\ Head(queue[u]).type = "operation" /\ Head(queue[u]).call = d
  BY <1>0, <1>1, Types, CurrentInHand DEF OnePlace, Current
<1>3. \A v \in Tabs \ {u} : d \notin InHand(v)
  BY <1>2, InHandOnTab DEF OnTheWay
<1>4. /\ CallsOf(surfaceWait[t])' = CallsOf(surfaceWait[t])
      /\ CallsOf(queue[t])' = CallsOf(queue'[t])
  BY <1>1 DEF CallsOf, Members
<1>5. MarkedOn(c, t)
  OBVIOUS
<1>6. CASE GivesUp(u) \/ Settles(u)
  <2>1. PICK a : Return(u, a)
    BY <1>6 DEF GivesUp, Settles
  <2>2. hostCancelled' = hostCancelled \ {d}
    BY <1>0, <2>1 DEF Return
  <2>3. CASE t = u
    <3>1. queue'[t] = Tail(queue[t])
      BY <2>1, <2>3, Types DEF Return
    <3>2. CallsOf(queue'[t]) \subseteq CallsOf(queue[t]) \ {d}
      BY <1>1, <1>2, <2>3, <3>1, CallsTail
    <3> QED
      BY <1>0, <1>1, <1>4, <1>5, <2>2, <2>3, <3>2 DEF MarkedOn
  <2>4. CASE t # u
    <3>1. queue'[t] = queue[t] /\ phase'[t] = phase[t]
      BY <2>1, <2>4, Types DEF Return
    <3>2. Current(t)' = Current(t)
      BY <3>1 DEF Current
    <3>3. d \notin CallsOf(queue[t])
      BY <1>3, <2>4 DEF InHand
    <3> QED
      BY <1>1, <1>4, <1>5, <2>2, <3>1, <3>2, <3>3 DEF MarkedOn
  <2> QED
    BY <2>3, <2>4
<1>7. CASE Proceeds(u) \/ Starts(u)
  <2>1. /\ UNCHANGED <<queue, hostCancelled>>
        /\ phase[t] = "cut" => phase'[t] = "cut"
    BY <1>7, Types DEF Proceeds, Starts, Runs
  <2>2. Current(t)' = Current(t)
    BY <2>1 DEF Current
  <2> QED
    BY <1>1, <1>4, <1>5, <2>1, <2>2 DEF MarkedOn
<1> QED
  BY <1>1, <1>6, <1>7

\* A call whose cancellation the host has handled stays marked.
LEMMA StoppedMarkedKept ==
  ASSUME ConsentInv, CancelsFollow, PendingRouted, OnePlace, EndedIsClosed, CancelsTrail,
         StoppedMarked, Next
  PROVE  StoppedMarked'
<1> USE DEF ConsentInv
<1> SUFFICES ASSUME NEW c \in stopped'
             PROVE  c \notin CallsOf(toHost') /\ \A t \in Tabs : MarkedOn(c, t)'
  BY DEF StoppedMarked, CallsOf, Members
<1>1. c \in Calls
  BY TypeStep DEF TypeInv, TypeOK, HostTypeOK
<1>2. CASE c \notin stopped
  <2>1. HostReceives
    BY <1>2, StepKinds, ExecutesMeans
       DEF HostSteps, SurfaceStep, SurfaceFound, SurfaceDropped, hostVars
  <2>2. PICK m : m = Head(toHost) /\ ReceiveCancel(m) /\ c = m.call
    BY <1>2, <2>1
       DEF HostReceives, ReceiveOperation, ReceiveOffer, ReceiveRevoke, ReceiveCancel,
           ReceiveSettled
  <2> QED
    BY <2>2, CancelMarks
<1>3. CASE c \in stopped
  <2>1. c \notin CallsOf(toHost) /\ \A t \in Tabs : MarkedOn(c, t)
    BY <1>3 DEF StoppedMarked
  <2>2. ~SendOperation(c)
    BY <1>1, <1>3 DEF EndedIsClosed, Ended, Closed, SendOperation
  <2>3. c \notin CallsOf(toHost')
    BY <2>1, <2>2, PostedCalls
  <2>4. CASE BackgroundSteps \/ OtherSteps
    <3>1. UNCHANGED hostVars
      BY <2>4, StepKinds
    <3> QED
      BY <2>1, <2>3, <3>1 DEF MarkedOn, CallsOf, Members, Current, hostVars, executing
  <2>5. CASE HostReceives
    BY <2>1, <2>3, <2>5, MarkedReceive
  <2>6. ASSUME NEW u \in Tabs, SurfaceStep(u) \/ Executes(u)
        PROVE  \A t \in Tabs : MarkedOn(c, t)'
    BY <2>1, <2>6, MarkedSurface, MarkedExecutes
  <2> QED
    BY <2>3, <2>4, <2>5, <2>6, StepKinds DEF HostSteps
<1> QED
  BY <1>2, <1>3

\* No call is marked once its tool is called.
LEMMA RunsUnmarkedKept ==
  ASSUME ConsentInv, OnePlace, RunsUnmarked, Next
  PROVE  RunsUnmarked'
<1> USE DEF ConsentInv
<1> SUFFICES ASSUME NEW t \in Tabs, Runs(t)'
             PROVE  Current(t)'.call \notin hostCancelled'
  BY DEF RunsUnmarked
<1>1. CASE BackgroundSteps \/ OtherSteps
  BY <1>1, StepKinds DEF RunsUnmarked, Runs, Current, hostVars, executing
<1>2. CASE HostReceives
  <2>1. PICK m : m = Head(toHost)
    OBVIOUS
  <2>2. Runs(t)
    BY <1>2
       DEF HostReceives, ReceiveOperation, ReceiveOffer, ReceiveRevoke, ReceiveCancel,
           ReceiveSettled, executing, Runs, RunningTabs
  <2>3. CASE UNCHANGED <<queue, hostCancelled>>
    BY <2>2, <2>3 DEF RunsUnmarked, Current
  <2>4. CASE ReceiveOperation(m)
    <3>1. m \in Operation
      BY <2>1, <2>4, Types, HostMessageFields, HeadTailProperties DEF ReceiveOperation, Receive
    <3>2. queue'[t] = queue[t] \/ queue'[t] = Append(queue[t], m)
      BY <2>4, Types DEF ReceiveOperation
    <3>3. Current(t)' = Current(t)
      BY <2>2, <3>1, <3>2, StillCurrent DEF Runs
    <3> QED
      BY <2>2, <2>4, <3>3 DEF RunsUnmarked, ReceiveOperation
  <2>5. CASE ReceiveCancel(m)
    <3>1. Current(t)' = Current(t)
      BY <2>5 DEF ReceiveCancel, Current
    <3>2. t \in RunningTabs(Current(t).call)
      BY <2>2 DEF RunningTabs, Runs, Current
    <3> QED
      BY <2>2, <2>5, <3>1, <3>2 DEF RunsUnmarked, ReceiveCancel
  <2> QED
    BY <1>2, <2>1, <2>3, <2>4, <2>5
       DEF HostReceives, ReceiveOffer, ReceiveRevoke, ReceiveSettled, executing
<1>3. ASSUME NEW u \in Tabs, SurfaceStep(u)
      PROVE  Current(t)'.call \notin hostCancelled'
  <2>1. PICK m : m = Head(surfaceWait[u])
    OBVIOUS
  <2>2. /\ surfaceWait[u] # <<>>
        /\ UNCHANGED <<phase, hostCancelled>>
        /\ UNCHANGED queue \/ queue' = [queue EXCEPT ![u] = Append(@, m)]
    BY <1>3, <2>1 DEF SurfaceStep, SurfaceFound, SurfaceDropped, executing
  <2>3. m \in Operation
    BY <2>1, <2>2, Types, TakeOperation
  <2>4. queue'[t] = queue[t] \/ queue'[t] = Append(queue[t], m)
    BY <2>2, Types
  <2>5. Runs(t)
    BY <2>2 DEF Runs
  <2>6. Current(t)' = Current(t)
    BY <2>3, <2>4, <2>5, StillCurrent DEF Runs
  <2> QED
    BY <2>2, <2>5, <2>6 DEF RunsUnmarked
<1>4. ASSUME NEW u \in Tabs, Executes(u)
      PROVE  Current(t)'.call \notin hostCancelled'
  <2>1. GivesUp(u) \/ Proceeds(u) \/ Starts(u) \/ Settles(u)
    BY <1>4, ExecutesMeans
  <2>2. CASE t # u
    <3>1. queue'[t] = queue[t] /\ phase'[t] = phase[t] /\ hostCancelled' \subseteq hostCancelled
      BY <2>1, <2>2, Types DEF GivesUp, Proceeds, Starts, Settles, Return
    <3> QED
      BY <3>1 DEF RunsUnmarked, Runs, Current
  <2>3. CASE t = u
    <3>1. Starts(u)
      BY <2>1, <2>3, Types DEF GivesUp, Proceeds, Settles, Return, Runs
    <3> QED
      BY <2>3, <3>1 DEF Starts, Current
  <2> QED
    BY <2>2, <2>3
<1> QED
  BY <1>1, <1>2, <1>3, <1>4, StepKinds DEF HostSteps

\* So a stopped call's tool is not being called.
LEMMA StoppedDoesNotRun ==
  ASSUME TypeInv, StoppedMarked, RunsUnmarked
  PROVE  StoppedCallSendsNoInput
<1> SUFFICES ASSUME NEW t \in Tabs, phase[t] = "running", Current(t).call \in stopped
             PROVE  FALSE
  BY DEF StoppedCallSendsNoInput
<1>1. queue[t] # <<>>
  BY Types DEF ExecutingHasCall
<1>2. Current(t).call \in CallsOf(queue[t])
  BY <1>1, CurrentInHand
<1> QED
  BY <1>2 DEF StoppedMarked, MarkedOn, RunsUnmarked, Runs


-----------------------------------------------------------------------------
(* A mark goes with its call *)

\* The same, place by place.
Marks ==
  /\ \A c \in cancelledCalls : stage[c] # "none"
  /\ \A c \in surfaceCancelled : \E t \in Tabs : c \in CallsOf(surfaceWait[t])
  /\ \A c \in hostCancelled : \E t \in Tabs : c \in CallsOf(queue[t])

\* The marks, one by one.
LEMMA MarksMean ==
  ASSUME TypeInv
  PROVE  MarksDieWithTheirCalls <=> Marks
<1>1. cancelledCalls \subseteq Calls
  BY DEF TypeInv, TypeOK, BackgroundTypeOK
<1> QED
  BY <1>1, WaitingCalls DEF MarksDieWithTheirCalls, Marks, RoutingCalls

\* A voided call is unmarked as its coroutine ends.
LEMMA RoutingMarks ==
  ASSUME TypeInv, Marks, BackgroundSteps
  PROVE  \A c \in cancelledCalls' : stage'[c] # "none"
<1>1. /\ stage \in [Calls -> {"none", "route", "prepare", "sent"}]
      /\ cancelledCalls \subseteq Calls
      /\ \A c \in cancelledCalls : stage[c] # "none"
  BY Types DEF TypeInv, TypeOK, BackgroundTypeOK, Marks
<1>2. ASSUME NEW c \in Calls, RoutingEnded(c)
      PROVE  \A d \in cancelledCalls' : stage'[d] # "none"
  BY <1>1, <1>2 DEF RoutingEnded
<1>3. ASSUME NEW c \in Calls, CancelInHost(c), UNCHANGED stage
      PROVE  \A d \in cancelledCalls' : stage'[d] # "none"
  BY <1>1, <1>3 DEF CancelInHost, RoutingCalls
<1>4. ASSUME UNCHANGED cancelledCalls, UNCHANGED stage
      PROVE  \A d \in cancelledCalls' : stage'[d] # "none"
  BY <1>1, <1>4
<1>5. ASSUME UNCHANGED cancelledCalls, NEW c \in Calls, NEW s \in {"route", "prepare", "sent"},
             stage' = [stage EXCEPT ![c] = s]
      PROVE  \A d \in cancelledCalls' : stage'[d] # "none"
  BY <1>1, <1>5
<1>6. ASSUME NEW c \in Calls, CallStep(c)
      PROVE  \A d \in cancelledCalls' : stage'[d] # "none"
  <2>1. CASE Routes(c)
    BY <1>2, <1>5, <2>1
       DEF Routes, RouteRefused, RouteWhileDeciding, RouteToTab, StartRun
  <2>2. CASE Prepares(c)
    <3>1. CASE SendOperation(c)
      BY <1>5, <3>1 DEF SendOperation
    <3>2. CASE DropCancelled(c) \/ HostUnavailable(c)
      BY <1>2, <3>2 DEF DropCancelled, HostUnavailable, FinishRun
    <3> QED
      BY <2>2, <3>1, <3>2 DEF Prepares
  <2>3. CASE HostReplies(c)
    BY <1>2, <2>3 DEF HostReplies, HostAnswered, AskPerson, FinishRun
  <2>4. CASE CallTimeoutStep(c)
    BY <1>3, <2>4 DEF CallTimeoutStep, CallTimeout
  <2>5. CASE ExpireStep(c) \/ DenyStep(c)
    BY <1>4, <2>5 DEF ExpireStep, Expire, DenyStep, Deny, Refuse, routing
  <2>6. ASSUME NEW answer \in Allowing, AllowStep(c, answer)
        PROVE  \A d \in cancelledCalls' : stage'[d] # "none"
    BY <1>5, <2>6 DEF AllowStep, Allow, StartRun
  <2> QED
    BY <1>6, <2>1, <2>2, <2>3, <2>4, <2>5, <2>6 DEF CallStep
<1>7. ASSUME BackgroundReceives
      PROVE  \A d \in cancelledCalls' : stage'[d] # "none"
  <2>1. PICK c \in Calls : ReceiveRequest(c) \/ ReceiveCancelled(c)
    BY <1>7 DEF BackgroundReceives
  <2> QED
    BY <1>3, <1>5, <2>1 DEF ReceiveRequest, ReceiveCancelled
<1>8. ASSUME NEW t \in Tabs, CloseTabStep(t)
      PROVE  \A d \in cancelledCalls' : stage'[d] # "none"
  BY <1>4, <1>8 DEF CloseTabStep, CloseTab, routing
<1> QED
  BY <1>6, <1>7, <1>8 DEF BackgroundSteps

\* Handling a message marks only a call that is there.
LEMMA MarksReceive ==
  ASSUME TypeInv, Marks, HostReceives
  PROVE  /\ \A c \in surfaceCancelled' : \E t \in Tabs : c \in CallsOf(surfaceWait'[t])
         /\ \A c \in hostCancelled' : \E t \in Tabs : c \in CallsOf(queue'[t])
<1>0. PICK m : m = Head(toHost)
  OBVIOUS
<1>1. toHost # <<>> /\ toHost \in Seq(ToHost)
  BY Types DEF HostReceives
<1>2. CASE UNCHANGED <<surfaceWait, surfaceCancelled, queue, hostCancelled>>
  BY <1>2 DEF Marks
<1>3. CASE ReceiveOperation(m)
  <2>1. m \in Operation /\ m.type = "operation"
    BY <1>0, <1>1, <1>3, HostMessageFields, HeadTailProperties DEF ReceiveOperation
  <2>2. ASSUME NEW t \in Tabs
        PROVE  /\ CallsOf(surfaceWait[t]) \subseteq CallsOf(surfaceWait'[t])
               /\ CallsOf(queue[t]) \subseteq CallsOf(queue'[t])
    <3>1. /\ surfaceWait'[t] = surfaceWait[t] \/ surfaceWait'[t] = Append(surfaceWait[t], m)
          /\ queue'[t] = queue[t] \/ queue'[t] = Append(queue[t], m)
      BY <1>3, Types DEF ReceiveOperation
    <3>2. /\ CallsOf(Append(surfaceWait[t], m)) = CallsOf(surfaceWait[t]) \cup {m.call}
          /\ CallsOf(Append(queue[t], m)) = CallsOf(queue[t]) \cup {m.call}
      BY <2>1, Types, CallsAppend
    <3> QED
      BY <3>1, <3>2
  <2>3. UNCHANGED <<surfaceCancelled, hostCancelled>>
    BY <1>3 DEF ReceiveOperation
  <2> QED
    BY <2>2, <2>3 DEF Marks
<1>4. CASE ReceiveCancel(m)
  <2>1. /\ UNCHANGED <<surfaceWait, queue>>
        /\ surfaceCancelled' \subseteq surfaceCancelled \cup (WaitingForSurface \cap {m.call})
        /\ hostCancelled' \subseteq hostCancelled \cup (InFlight \cap {m.call})
    BY <1>4 DEF ReceiveCancel
  <2> QED
    BY <2>1, WaitingCalls DEF Marks
<1> QED
  BY <1>0, <1>2, <1>3, <1>4
     DEF HostReceives, ReceiveOffer, ReceiveRevoke, ReceiveSettled, executing

\* A call leaves the wait for a document without its mark.
LEMMA MarksSurface ==
  ASSUME TypeInv, Marks, NEW u \in Tabs, SurfaceStep(u)
  PROVE  /\ \A c \in surfaceCancelled' : \E t \in Tabs : c \in CallsOf(surfaceWait'[t])
         /\ \A c \in hostCancelled' : \E t \in Tabs : c \in CallsOf(queue'[t])
<1>0. PICK m : m = Head(surfaceWait[u])
  OBVIOUS
<1>1. /\ surfaceWait[u] # <<>>
      /\ surfaceWait' = [surfaceWait EXCEPT ![u] = Tail(@)]
      /\ UNCHANGED hostCancelled
      /\ surfaceCancelled' \subseteq surfaceCancelled
      /\ m.call \notin surfaceCancelled'
      /\ UNCHANGED queue \/ queue' = [queue EXCEPT ![u] = Append(@, m)]
  BY <1>0 DEF SurfaceStep, SurfaceFound, SurfaceDropped, executing
<1>2. m \in Operation /\ m.type = "operation"
  BY <1>0, <1>1, Types, TakeOperation DEF Operation
<1>3. ASSUME NEW t \in Tabs
      PROVE  /\ CallsOf(surfaceWait[t]) \subseteq CallsOf(surfaceWait'[t]) \cup {m.call}
             /\ CallsOf(queue[t]) \subseteq CallsOf(queue'[t])
  <2>1. /\ surfaceWait'[t] = surfaceWait[t] \/ (t = u /\ surfaceWait'[t] = Tail(surfaceWait[u]))
        /\ queue'[t] = queue[t] \/ queue'[t] = Append(queue[t], m)
    BY <1>1, Types
  <2>2. CallsOf(surfaceWait[u]) \subseteq CallsOf(Tail(surfaceWait[u])) \cup {m.call}
    BY <1>0, <1>1, Types, CallsTail
  <2>3. CallsOf(Append(queue[t], m)) = CallsOf(queue[t]) \cup {m.call}
    BY <1>2, Types, CallsAppend
  <2> QED
    BY <2>1, <2>2, <2>3
<1> QED
  BY <1>1, <1>3 DEF Marks

\* And the queue.
LEMMA MarksExecutes ==
  ASSUME TypeInv, Marks, NEW u \in Tabs, Executes(u)
  PROVE  /\ \A c \in surfaceCancelled' : \E t \in Tabs : c \in CallsOf(surfaceWait'[t])
         /\ \A c \in hostCancelled' : \E t \in Tabs : c \in CallsOf(queue'[t])
<1>0. PICK d : d = Current(u).call
  OBVIOUS
<1>1. /\ queue[u] # <<>>
      /\ UNCHANGED <<surfaceWait, surfaceCancelled>>
      /\ GivesUp(u) \/ Proceeds(u) \/ Starts(u) \/ Settles(u)
  BY ExecutesMeans
<1>2. \/ UNCHANGED <<queue, hostCancelled>>
      \/ /\ queue' = [queue EXCEPT ![u] = Tail(@)]
         /\ hostCancelled' = hostCancelled \ {d}
  BY <1>0, <1>1 DEF GivesUp, Proceeds, Starts, Settles, Return
<1>3. ASSUME NEW t \in Tabs, queue' = [queue EXCEPT ![u] = Tail(@)]
      PROVE  CallsOf(queue[t]) \subseteq CallsOf(queue'[t]) \cup {d}
  <2>1. queue'[t] = queue[t] \/ (t = u /\ queue'[t] = Tail(queue[u]))
    BY <1>3, Types
  <2>2. CallsOf(queue[u]) \subseteq CallsOf(Tail(queue[u])) \cup {d}
    BY <1>0, <1>1, Types, CallsTail DEF Current
  <2> QED
    BY <2>1, <2>2
<1> QED
  BY <1>1, <1>2, <1>3 DEF Marks

\* No mark outlives its call, in any of the three places.
LEMMA MarksDieKept ==
  ASSUME TypeInv, MarksDieWithTheirCalls, Next
  PROVE  MarksDieWithTheirCalls'
<1>1. TypeInv' /\ Marks
  BY TypeStep, MarksMean
<1>2. Marks'
  <2>1. CASE BackgroundSteps
    <3>1. UNCHANGED hostVars
      BY <2>1, StepKinds
    <3>2. \A c \in cancelledCalls' : stage'[c] # "none"
      BY <1>1, <2>1, RoutingMarks
    <3> QED
      BY <1>1, <3>1, <3>2 DEF Marks, hostVars, executing, CallsOf, Members
  <2>2. CASE OtherSteps
    <3>1. UNCHANGED <<backgroundVars, hostVars>>
      BY <2>2, StepKinds
    <3> QED
      BY <1>1, <3>1 DEF Marks, backgroundVars, routing, hostVars, executing, CallsOf, Members
  <2>3. CASE HostSteps
    <3>1. UNCHANGED <<cancelledCalls, stage>>
      BY <2>3, StepKinds DEF backgroundVars, routing
    <3>2. /\ \A c \in surfaceCancelled' : \E t \in Tabs : c \in CallsOf(surfaceWait'[t])
          /\ \A c \in hostCancelled' : \E t \in Tabs : c \in CallsOf(queue'[t])
      BY <1>1, <2>3, MarksReceive, MarksSurface, MarksExecutes DEF HostSteps
    <3>3. \A t \in Tabs : /\ CallsOf(surfaceWait[t])' = CallsOf(surfaceWait'[t])
                          /\ CallsOf(queue[t])' = CallsOf(queue'[t])
      BY DEF CallsOf, Members
    <3> QED
      BY <1>1, <3>1, <3>2, <3>3 DEF Marks
  <2> QED
    BY <2>1, <2>2, <2>3, StepKinds
<1> QED
  BY <1>1, <1>2, MarksMean, PTL


-----------------------------------------------------------------------------
(* A granted call finds its offer *)

\* Execution takes the offer of the call it begins, and no other.
LEMMA ExecutesOffers ==
  ASSUME TypeInv, NEW t \in Tabs, Executes(t)
  PROVE  {o \in offers : o.call # Current(t).call} \subseteq offers' /\ offers' \subseteq offers
<1>1. ASSUME NEW by, NEW p, Start(t, by, p)
      PROVE  UNCHANGED offers
  BY <1>1 DEF Start
<1>2. CASE Begins(t)
  BY <1>2 DEF Begins, BeginCancelled, BeginWithoutOffer, BeginHeld, Begin
<1>3. CASE Checks(t) \/ Confirms(t)
  BY <1>1, <1>3 DEF Checks, CheckReading, CheckAllowed, CheckMismatch, CheckRefused, Confirms,
                   ConfirmStale, Confirm
<1>4. CASE Fails(t) \/ Finishes(t)
  BY <1>4 DEF Fails, Unreachable, Finishes, Finish
<1> QED
  BY <1>2, <1>3, <1>4 DEF Executes

\* Handling a message takes no offer but those of refused cards.
LEMMA ReceiveOffers ==
  ASSUME TypeInv, RevokedIsRefused, HostReceives, NEW o \in offers, decision[o.call] \notin Refusing
  PROVE  o \in offers'
<1>1. PICK m : m = Head(toHost)
  OBVIOUS
<1>2. toHost # <<>> /\ toHost \in Seq(ToHost)
  BY Types DEF HostReceives
<1>3. m \in Posted /\ m \in ToHost
  BY <1>1, <1>2, MembersTail DEF Posted
<1>4. CASE ReceiveRevoke(m)
  <2>1. m = GrantRevoke(m.call) /\ m.call \in Calls
    BY <1>3, <1>4 DEF ReceiveRevoke, ToHost, Operation, Offer, GrantRevoke
  <2>2. m.call # o.call
    BY <1>3, <2>1 DEF RevokedIsRefused
  <2> QED
    BY <1>4, <2>2 DEF ReceiveRevoke
<1> QED
  BY <1>1, <1>4
     DEF HostReceives, ReceiveOperation, ReceiveOffer, ReceiveCancel, ReceiveSettled

\* An offer is there until its card is refused or its call begins.
LEMMA OfferStays ==
  ASSUME TypeInv, FreshRequests, CardsFollowCalls, RevokedIsRefused, Next, NEW c \in Calls,
         HasOffer(c), decision[c] \notin Refusing
  PROVE  HasOffer(c)' \/ \E t \in Tabs : Executes(t) /\ c = Current(t).call
<1>1. PICK o \in offers : o.call = c /\ o.tab = tabOf[c]
  BY DEF HasOffer
<1>2. tabOf[c] \in Tabs
  BY <1>1, Types DEF Offer
<1>3. tabOf'[c] = tabOf[c]
  BY <1>2, StepKeepsCards, ConstantsAssumption DEF CardsKept
<1>4. SUFFICES ASSUME \A t \in Tabs : ~(Executes(t) /\ c = Current(t).call)
               PROVE  o \in offers'
  BY <1>1, <1>3 DEF HasOffer
<1>5. CASE BackgroundSteps \/ OtherSteps
  BY <1>1, <1>5, StepKinds DEF hostVars
<1>6. CASE HostReceives
  BY <1>1, <1>6, ReceiveOffers
<1>7. ASSUME NEW t \in Tabs, SurfaceStep(t)
      PROVE  o \in offers'
  BY <1>1, <1>7 DEF SurfaceStep, SurfaceFound, SurfaceDropped
<1>8. ASSUME NEW t \in Tabs, Executes(t)
      PROVE  o \in offers'
  BY <1>1, <1>4, <1>8, ExecutesOffers
<1> QED
  BY <1>5, <1>6, <1>7, <1>8, StepKinds DEF HostSteps

\* An offer on its way stays there until it has arrived.
LEMMA OfferArrives ==
  ASSUME TypeInv, FreshRequests, CardsFollowCalls, CancelsFollow, PendingRouted, Next,
         NEW c \in Calls, NEW m \in Posted, IsOffer(m, c)
  PROVE  Offered(c)'
<1>1. m \in ToHost /\ toHost \in Seq(ToHost)
  BY Types, MembersTail, ElementOfSeq DEF Posted, Members
<1>2. m \in Offer
  BY <1>1, HostMessageFields DEF IsOffer
<1>3. tabOf[c] \in Tabs
  BY <1>2 DEF IsOffer, Offer
<1>4. IsOffer(m, c)'
  BY <1>3, StepKeepsCards, ConstantsAssumption DEF CardsKept, IsOffer
<1>5. ASSUME m \in Members(toHost')
      PROVE  Offered(c)'
  BY <1>4, <1>5 DEF Offered, Posted, Members
<1>6. ASSUME NEW ms \in Seq(ToHost), toHost' = toHost \o ms
      PROVE  m \in Members(toHost')
  BY <1>1, <1>6, Concatenated DEF Posted, Members
<1>7. CASE BackgroundSteps
  <2>1. CASE \E d \in Calls : SendOperation(d)
    <3>1. PICK x \in ToHost : toHost' = toHost \o <<x>>
      BY <2>1, SentOperation
    <3>2. <<x>> \in Seq(ToHost)
      BY FewMessages
    <3> QED
      BY <1>5, <1>6, <3>1, <3>2
  <2>2. CASE ~ \E d \in Calls : SendOperation(d)
    <3>1. PICK ms \in Seq(ToHost) : toHost' = toHost \o ms
      BY <1>7, <2>2, BackgroundFollows DEF BackgroundSteps, PostsWhatFollows
    <3> QED
      BY <1>5, <1>6, <3>1
  <2> QED
    BY <2>1, <2>2
<1>8. ASSUME UNCHANGED toHost
      PROVE  Offered(c)'
  BY <1>5, <1>8 DEF Posted
<1>9. CASE HostReceives
  <2>1. PICK h : h = Head(toHost)
    OBVIOUS
  <2>2. toHost # <<>> /\ toHost' = Tail(toHost)
    BY <1>9
       DEF HostReceives, ReceiveOperation, ReceiveOffer, ReceiveRevoke, ReceiveCancel,
           ReceiveSettled, Receive
  <2>3. m = h \/ m \in Members(toHost')
    BY <1>1, <2>1, <2>2, MembersHeadTail DEF Posted
  <2>4. CASE m = h
    <3>1. ReceiveOffer(m)
      BY <1>9, <2>1, <2>4
         DEF HostReceives, ReceiveOperation, ReceiveRevoke, ReceiveCancel, ReceiveSettled, IsOffer
    <3>2. m \in offers'
      BY <3>1 DEF ReceiveOffer
    <3> QED
      BY <1>4, <3>2 DEF Offered, HasOffer, IsOffer
  <2> QED
    BY <1>5, <2>3, <2>4
<1>10. ASSUME NEW t \in Tabs, SurfaceStep(t) \/ Executes(t)
       PROVE  Offered(c)'
  <2>1. UNCHANGED toHost
    BY <1>10, ExecutesMeans DEF SurfaceStep, SurfaceFound, SurfaceDropped, hostChannels
  <2> QED
    BY <1>8, <2>1
<1>11. CASE OtherSteps
  BY <1>8, <1>11, StepKinds
<1> QED
  BY <1>7, <1>9, <1>10, <1>11, StepKinds DEF HostSteps

\* A card is opened only by asking, and the answer of an open card alone makes
\* a call that was allowed.
LEMMA DecidingBefore ==
  ASSUME TypeInv, FreshRequests, CardsFollowCalls, Next, NEW c \in Calls, Deciding(c)'
  PROVE  Deciding(c) \/ \E r \in replies : AskPerson(c, r)
<1> DEFINE Before == Deciding(c) \/ \E r \in replies : AskPerson(c, r)
<1>1. /\ stage \in [Calls -> {"none", "route", "prepare", "sent"}]
      /\ decision \in [Calls -> {"none", "open"} \cup Allowing \cup Refusing]
      /\ "open" \notin Allowing /\ "open" \notin Refusing
      /\ \A a \in Refusing : a \notin Allowing
      /\ decision'[c] = "open" \/ (decision'[c] \in Allowing /\ stage'[c] = "prepare")
  BY Types DEF Deciding, Allowing, Refusing
<1>2. ASSUME decision'[c] = decision[c], stage'[c] = "prepare" => stage[c] = "prepare"
      PROVE  Before
  BY <1>1, <1>2 DEF Deciding
<1>3. ASSUME NEW d \in Calls, CallStep(d)
      PROVE  Before
  <2>1. CASE Routes(d)
    <3>1. CASE \E t \in Tabs : RouteToTab(d, t)
      <4>1. stage[d] = "route" /\ decision' = decision /\ stage' = [stage EXCEPT ![d] = "prepare"]
        BY <3>1 DEF RouteToTab, StartRun, asking
      <4>2. tabOf[d] = NoTab
        BY <4>1 DEF FreshRequests
      <4>3. decision[d] = "none"
        BY <4>2, Types, ConstantsAssumption DEF CallsHaveTabs
      <4>4. "none" \notin Allowing
        BY DEF Allowing
      <4> QED
        BY <1>1, <1>2, <4>1, <4>3, <4>4
    <3>2. CASE ~ \E t \in Tabs : RouteToTab(d, t)
      <4>1. stage' = [stage EXCEPT ![d] = "none"] /\ decision' = decision
        BY <2>1, <3>2 DEF Routes, RouteRefused, RouteWhileDeciding, RoutingEnded, asking
      <4> QED
        BY <1>1, <1>2, <4>1
    <3> QED
      BY <3>1, <3>2
  <2>2. CASE Prepares(d)
    <3>1. \E s \in {"none", "sent"} : stage' = [stage EXCEPT ![d] = s]
      BY <2>2 DEF Prepares, SendOperation, DropCancelled, HostUnavailable, FinishRun, RoutingEnded
    <3>2. decision' = decision
      BY <2>2 DEF Prepares, SendOperation, DropCancelled, HostUnavailable, FinishRun, asking
    <3> QED
      BY <1>1, <1>2, <3>1, <3>2
  <2>3. CASE HostReplies(d)
    <3>1. PICK r \in replies : HostAnswered(d, r) \/ AskPerson(d, r)
      BY <2>3 DEF HostReplies
    <3>2. stage' = [stage EXCEPT ![d] = "none"]
      BY <3>1 DEF HostAnswered, AskPerson, FinishRun, RoutingEnded
    <3>3. CASE HostAnswered(d, r)
      BY <1>1, <1>2, <3>2, <3>3 DEF HostAnswered, FinishRun, asking
    <3>4. CASE AskPerson(d, r)
      <4>1. d # c => decision'[c] = decision[c]
        BY <1>1, <3>4 DEF AskPerson
      <4> QED
        BY <1>1, <1>2, <3>1, <3>2, <3>4, <4>1
    <3> QED
      BY <3>1, <3>3, <3>4
  <2>4. CASE CallTimeoutStep(d)
    BY <1>2, <2>4 DEF CallTimeoutStep, CallTimeout, asking
  <2>5. CASE ExpireStep(d) \/ DenyStep(d)
    <3>1. PICK ending \in Refusing : Refuse(d, ending)
      BY <2>5 DEF ExpireStep, Expire, DenyStep, Deny, Refusing
    <3>2. d # c => decision'[c] = decision[c]
      BY <1>1, <3>1 DEF Refuse
    <3>3. d = c => decision'[c] = ending
      BY <1>1, <3>1 DEF Refuse
    <3>4. stage' = stage
      BY <3>1 DEF Refuse, routing
    <3> QED
      BY <1>1, <1>2, <3>2, <3>3, <3>4
  <2>6. ASSUME NEW answer \in Allowing, AllowStep(d, answer)
        PROVE  Before
    <3>1. decision[d] = "open"
      BY <2>6 DEF AllowStep, Allow, OpenCards
    <3>2. d # c => decision'[c] = decision[c] /\ stage'[c] = stage[c]
      BY <1>1, <2>6 DEF AllowStep, Allow, StartRun
    <3> QED
      BY <1>2, <3>1, <3>2 DEF Deciding
  <2> QED
    BY <1>3, <2>1, <2>2, <2>3, <2>4, <2>5, <2>6 DEF CallStep
<1>4. ASSUME BackgroundReceives
      PROVE  Before
  <2>1. PICK d \in Calls : ReceiveRequest(d) \/ ReceiveCancelled(d)
    BY <1>4 DEF BackgroundReceives
  <2>2. CASE ReceiveRequest(d)
    BY <1>1, <1>2, <2>2 DEF ReceiveRequest, asking
  <2>3. CASE ReceiveCancelled(d)
    <3>1. stage' = stage
      BY <2>3 DEF ReceiveCancelled
    <3>2. decision'[c] = decision[c] \/ decision'[c] = "abandoned"
      BY <1>1, <2>3 DEF ReceiveCancelled
    <3>3. "abandoned" \in Refusing
      BY DEF Refusing
    <3> QED
      BY <1>1, <1>2, <3>1, <3>2, <3>3
  <2> QED
    BY <2>1, <2>2, <2>3
<1>5. ASSUME NEW t \in Tabs, CloseTabStep(t)
      PROVE  Before
  <2>1. decision'[c] = decision[c] \/ decision'[c] = "closed"
    BY <1>5 DEF CloseTabStep, CloseTab
  <2>2. "closed" \in Refusing /\ stage' = stage
    BY <1>5 DEF Refusing, CloseTabStep, CloseTab, routing
  <2> QED
    BY <1>1, <1>2, <2>1, <2>2
<1>6. CASE BackgroundSteps
  BY <1>3, <1>4, <1>5, <1>6 DEF BackgroundSteps
<1>7. CASE OtherSteps \/ HostSteps
  BY <1>2, <1>7, StepKinds DEF backgroundVars, routing, asking
<1> QED
  BY <1>6, <1>7, StepKinds


\* A refusal is final.
LEMMA RefusedStays ==
  ASSUME TypeInv, CardsFollowCalls, BackgroundSteps, NEW c \in Calls, decision[c] \in Refusing
  PROVE  decision'[c] = decision[c]
<1>1. decision \in [Calls -> {"none", "open"} \cup Allowing \cup Refusing] /\ decision[c] # "open"
  BY Types DEF Refusing
<1>2. ASSUME NEW d \in Calls, Routes(d) \/ Prepares(d) \/ CallTimeoutStep(d)
      PROVE  decision'[c] = decision[c]
  BY <1>2 DEF Routes, RouteRefused, RouteWhileDeciding, RouteToTab, Prepares, SendOperation,
              DropCancelled, HostUnavailable, FinishRun, CallTimeoutStep, CallTimeout, asking
<1>3. ASSUME NEW d \in Calls, HostReplies(d)
      PROVE  decision'[c] = decision[c]
  <2>1. PICK r \in replies : HostAnswered(d, r) \/ AskPerson(d, r)
    BY <1>3 DEF HostReplies
  <2>2. CASE HostAnswered(d, r)
    BY <2>2 DEF HostAnswered, FinishRun, asking
  <2>3. CASE AskPerson(d, r)
    <3>1. stage[d] = "sent"
      BY <2>3 DEF AskPerson
    <3>2. d # c
      BY <3>1 DEF CardsFollowCalls, Allowing, Refusing
    <3> QED
      BY <1>1, <2>3, <3>2 DEF AskPerson
  <2> QED
    BY <2>1, <2>2, <2>3
<1>4. ASSUME NEW d \in Calls, ExpireStep(d) \/ DenyStep(d)
      PROVE  decision'[c] = decision[c]
  BY <1>1, <1>4 DEF ExpireStep, Expire, DenyStep, Deny, Refuse, OpenCards
<1>5. ASSUME NEW d \in Calls, NEW answer \in Allowing, AllowStep(d, answer)
      PROVE  decision'[c] = decision[c]
  BY <1>1, <1>5 DEF AllowStep, Allow, OpenCards
<1>6. ASSUME BackgroundReceives
      PROVE  decision'[c] = decision[c]
  BY <1>1, <1>6 DEF BackgroundReceives, ReceiveRequest, ReceiveCancelled, OpenCards, asking
<1>7. ASSUME NEW t \in Tabs, CloseTabStep(t)
      PROVE  decision'[c] = decision[c]
  BY <1>1, <1>7 DEF CloseTabStep, CloseTab, CardsOn, OpenCards
<1> QED
  BY <1>2, <1>3, <1>4, <1>5, <1>6, <1>7 DEF BackgroundSteps, CallStep

\* Only the grant of a refused card is revoked.
LEMMA RevokedIsRefusedKept ==
  ASSUME TypeInv, FreshRequests, CardsFollowCalls, CancelsFollow, PendingRouted,
         RevokedIsRefused, Next
  PROVE  RevokedIsRefused'
<1> SUFFICES ASSUME NEW c \in Calls, GrantRevoke(c) \in Members(toHost')
             PROVE  decision'[c] \in Refusing
  BY DEF RevokedIsRefused, Posted, Members
<1>1. GrantRevoke(c).type = "grant-revoke" /\ toHost \in Seq(ToHost)
  BY Types DEF GrantRevoke
<1>2. GrantRevoke(c) \in Posted \/ decision'[c] \in Refusing
  <2>1. CASE BackgroundSteps
    <3>1. CASE \E d \in Calls : SendOperation(d)
      <4>1. PICK x \in ToHost : x.type = "operation" /\ toHost' = toHost \o <<x>>
        BY <3>1, SentOperation
      <4>2. Members(toHost') \subseteq Members(toHost) \cup {x}
        BY <1>1, <4>1, FewMessages, MembersConcat
      <4> QED
        BY <1>1, <4>1, <4>2 DEF Posted
    <3>2. CASE ~ \E d \in Calls : SendOperation(d)
      <4>1. PICK ms \in Seq(ToHost) :
              toHost' = toHost \o ms /\ \A m \in Members(ms) : Follows(m)'
        BY <2>1, <3>2, BackgroundFollows DEF BackgroundSteps, PostsWhatFollows
      <4>2. GrantRevoke(c) \in Members(toHost) \/ GrantRevoke(c) \in Members(ms)
        BY <1>1, <4>1, MembersConcat
      <4> QED
        BY <4>1, <4>2 DEF Follows, Posted
    <3> QED
      BY <3>1, <3>2
  <2>2. CASE HostReceives
    <3>1. toHost # <<>> /\ toHost' = Tail(toHost)
      BY <2>2
         DEF HostReceives, ReceiveOperation, ReceiveOffer, ReceiveRevoke, ReceiveCancel,
             ReceiveSettled, Receive
    <3> QED
      BY <1>1, <3>1, MembersTail DEF Posted
  <2>3. ASSUME UNCHANGED toHost
        PROVE  GrantRevoke(c) \in Posted
    BY <2>3 DEF Posted
  <2>4. ASSUME NEW t \in Tabs, SurfaceStep(t) \/ Executes(t)
        PROVE  UNCHANGED toHost
    BY <2>4, ExecutesMeans DEF SurfaceStep, SurfaceFound, SurfaceDropped, hostChannels
  <2> QED
    BY <2>1, <2>2, <2>3, <2>4, StepKinds DEF HostSteps
<1>3. decision[c] \in Refusing => decision'[c] = decision[c]
  <2>1. CASE BackgroundSteps
    BY <2>1, RefusedStays
  <2>2. CASE OtherSteps \/ HostSteps
    BY <2>2, StepKinds DEF backgroundVars, asking
  <2> QED
    BY <2>1, <2>2, StepKinds
<1> QED
  BY <1>2, <1>3 DEF RevokedIsRefused

\* The call of every open card, and every call that is to be sent again, has
\* its offer in the host or on the way there.
LEMMA CardsAreOfferedKept ==
  ASSUME ConsentInv, CancelsFollow, PendingRouted, OnePlace, RevokedIsRefused, CardsAreOffered,
         Next
  PROVE  CardsAreOffered'
<1> USE DEF ConsentInv
<1> SUFFICES ASSUME NEW c \in Calls, Deciding(c)'
             PROVE  Offered(c)'
  BY DEF CardsAreOffered
<1>1. CASE Deciding(c)
  <2>1. decision[c] \notin Refusing
    BY <1>1 DEF Deciding, Allowing, Refusing
  <2>2. ASSUME NEW t \in Tabs, Executes(t), c = Current(t).call
        PROVE  FALSE
    <3>1. c \in InHand(t)
      BY <2>2, ExecutesMeans, CurrentInHand
    <3>2. stage[c] = "sent"
      BY <3>1 DEF OnePlace
    <3> QED
      BY <1>1, <3>2 DEF Deciding, CardsFollowCalls, Allowing
  <2>3. HasOffer(c) => HasOffer(c)'
    BY <2>1, <2>2, OfferStays
  <2>4. HasOffer(c) \/ \E m \in Posted : IsOffer(m, c)
    BY <1>1 DEF CardsAreOffered, Offered
  <2>5. HasOffer(c)' => Offered(c)'
    BY DEF Offered
  <2> QED
    BY <2>3, <2>4, <2>5, OfferArrives
<1>2. ASSUME NEW r \in replies, AskPerson(c, r)
      PROVE  Offered(c)'
  <2>1. stage[c] = "sent" /\ tabOf[c] \in Tabs /\ r.page \in Pages /\ toHost \in Seq(ToHost)
    BY <1>2, Types DEF AskPerson, Asks, CallsHaveTabs, TypeInv, TypeOK, ChannelsTypeOK, Reply
  <2>2. PICK m : m = GrantOffer(c, tabOf[c], r.page)
    OBVIOUS
  <2>3. m \in ToHost /\ toHost' = toHost \o <<m>> /\ UNCHANGED tabOf
    BY <1>2, <2>1, <2>2, MessageTypes DEF AskPerson, Post
  <2>4. m \in Members(toHost')
    <3>1. Append(toHost, m) = toHost \o <<m>>
      BY <2>1, <2>3, AppendIsConcat
    <3>2. Members(Append(toHost, m)) = Members(toHost) \cup {m}
      BY <2>1, <2>3, MembersAppend
    <3> QED
      BY <2>3, <3>1, <3>2
  <2>5. IsOffer(m, c)'
    BY <2>2, <2>3 DEF IsOffer, GrantOffer
  <2> QED
    BY <2>4, <2>5 DEF Offered, Posted, Members
<1> QED
  BY <1>1, <1>2, DecidingBefore

\* What is in the way of the host when a granted call is sent again.
LEMMA OfferBefore ==
  ASSUME TypeInv, FreshRequests, CardsFollowCalls, OnePlace, RevokedIsRefused, Next,
         NEW c \in CallsOf(toHost), HasOffer(c), decision[c] \in Allowing
  PROVE  HasOffer(c)'
<1>1. c \in Calls
  BY PlacedCalls
<1>2. decision[c] \notin Refusing
  BY DEF Allowing, Refusing
<1>3. \A t \in Tabs : ~(Executes(t) /\ c = Current(t).call)
  <2> SUFFICES ASSUME NEW t \in Tabs, Executes(t), c = Current(t).call
               PROVE  FALSE
    OBVIOUS
  <2>1. c \in InHand(t)
    BY ExecutesMeans, CurrentInHand
  <2> QED
    BY <2>1 DEF OnePlace
<1> QED
  BY <1>1, <1>2, <1>3, OfferStays

\* An operation of a granted call in the channel is of a card that was allowed.
LEMMA GrantedWasAllowed ==
  ASSUME TypeInv, MessagesHonest, NEW j \in 1..Len(toHost), toHost[j].type = "operation"
  PROVE  /\ toHost[j].call \in CallsOf(toHost) /\ toHost[j].call \in Calls
         /\ toHost[j].grant => decision[toHost[j].call] \in Allowing
<1>1. toHost[j] \in Posted /\ toHost[j] \in ToHost
  BY Types, ElementOfSeq DEF Posted, Members
<1>2. toHost[j].call \in Calls
  BY <1>1, HostMessageFields DEF Operation
<1> QED
  BY <1>1, <1>2 DEF CallsOf, Members, MessagesHonest, HonestMessage, Honest

\* The offer of c is in the channel before place j.
Preceded(c, j) == \E i \in 1..Len(toHost) : i < j /\ \E m : m = toHost[i] /\ IsOffer(m, c)

\* OffersPrecede with the offer as a message of its own.
LEMMA OffersPrecedeMeans ==
  OffersPrecede <=>
    \A j \in 1..Len(toHost) : \A c :
      toHost[j].type = "operation" /\ toHost[j].grant /\ c = toHost[j].call =>
        HasOffer(c) \/ Preceded(c, j)
  BY DEF OffersPrecede, Preceded

\* The same of the next state.
LEMMA OffersPrecedeNext ==
  ASSUME \A j \in 1..Len(toHost') : \A c :
           toHost'[j].type = "operation" /\ toHost'[j].grant /\ c = toHost'[j].call =>
             HasOffer(c)' \/ Preceded(c, j)'
  PROVE  OffersPrecede'
  BY DEF OffersPrecede, Preceded, HasOffer, IsOffer

\* A message at the end of the channel follows everything that is in it.
LEMMA OffersPrecedePost ==
  ASSUME ConsentInv, OnePlace, RevokedIsRefused, CardsAreOffered, OffersPrecede, Next,
         BackgroundSteps, NEW ms \in Seq(ToHost), toHost' = toHost \o ms,
         \A m \in Members(ms) : m.type = "operation" /\ m.grant =>
           m.call \in Calls /\ Deciding(m.call)
  PROVE  OffersPrecede'
<1> USE DEF ConsentInv, OnTheWay
<1>1. UNCHANGED hostVars
  BY StepKinds
<1>2. \A c \in Calls : tabOf[c] # NoTab => tabOf'[c] = tabOf[c]
  BY StepKeepsCards DEF CardsKept
<1>3. ASSUME NEW c \in Calls, NEW m \in ToHost, IsOffer(m, c)
      PROVE  IsOffer(m, c)'
  <2>1. m \in Offer /\ m.tab = tabOf[c]
    BY <1>3, HostMessageFields DEF IsOffer
  <2>2. tabOf[c] # NoTab
    BY <2>1, ConstantsAssumption DEF Offer
  <2> QED
    BY <1>2, <1>3, <2>2 DEF IsOffer
<1>4. ASSUME NEW c \in Calls, HasOffer(c)
      PROVE  HasOffer(c)'
  <2>1. PICK o \in offers : o.call = c /\ o.tab = tabOf[c]
    BY <1>4 DEF HasOffer
  <2>2. tabOf[c] # NoTab
    BY <2>1, Types, ConstantsAssumption DEF Offer
  <2> QED
    BY <1>1, <1>2, <2>1, <2>2 DEF HasOffer, hostVars
<1>5. /\ toHost \in Seq(ToHost) /\ Len(toHost) \in Nat /\ Len(toHost') \in Nat
      /\ Len(toHost) <= Len(toHost')
      /\ \A i \in 1..Len(toHost) : i \in 1..Len(toHost') /\ toHost'[i] = toHost[i]
      /\ \A i \in 1..Len(toHost) : toHost[i] \in ToHost
      /\ \A i \in 1..Len(toHost') : i \notin 1..Len(toHost) =>
           Len(toHost) < i /\ toHost'[i] \in Members(ms)
  BY Types, Concatenated, ElementOfSeq
<1> SUFFICES ASSUME NEW j \in 1..Len(toHost'), toHost'[j].type = "operation", toHost'[j].grant,
                    NEW c, c = toHost'[j].call
             PROVE  HasOffer(c)' \/ Preceded(c, j)'
  BY OffersPrecedeNext
<1>6. CASE j \in 1..Len(toHost)
  <2>1. toHost'[j] = toHost[j] /\ c = toHost[j].call /\ c \in Calls
    BY <1>5, <1>6, GrantedWasAllowed
  <2>2. HasOffer(c) \/ Preceded(c, j)
    BY <1>6, <2>1, OffersPrecedeMeans
  <2>3. ASSUME NEW i \in 1..Len(toHost), i < j, NEW m, m = toHost[i], IsOffer(m, c)
        PROVE  Preceded(c, j)'
    <3>1. i \in 1..Len(toHost') /\ toHost'[i] = m /\ m \in ToHost
      BY <1>5, <2>3
    <3>2. IsOffer(m, c)'
      BY <1>3, <2>1, <2>3, <3>1
    <3> QED
      BY <2>3, <3>1, <3>2 DEF Preceded
  <2> QED
    BY <1>4, <2>1, <2>2, <2>3 DEF Preceded
<1>7. CASE j \notin 1..Len(toHost)
  <2>1. c \in Calls /\ Offered(c) /\ Len(toHost) < j
    BY <1>5, <1>7 DEF CardsAreOffered
  <2>2. ASSUME NEW m \in Posted, IsOffer(m, c)
        PROVE  Preceded(c, j)'
    <3>1. PICK i \in 1..Len(toHost) : m = toHost[i]
      BY <2>2 DEF Posted, Members
    <3>2. i < j /\ i \in 1..Len(toHost') /\ toHost'[i] = m /\ m \in ToHost
      BY <1>5, <2>1, <3>1
    <3>3. IsOffer(m, c)'
      BY <1>3, <2>1, <2>2, <3>2
    <3> QED
      BY <3>2, <3>3 DEF Preceded
  <2> QED
    BY <1>4, <2>1, <2>2 DEF Offered
<1> QED
  BY <1>6, <1>7

\* In the channel to the host an offer precedes its operation.
LEMMA OffersPrecedeKept ==
  ASSUME ConsentInv, CancelsFollow, PendingRouted, OnePlace, RevokedIsRefused, CardsAreOffered,
         OffersPrecede, Next
  PROVE  OffersPrecede'
<1> USE DEF ConsentInv, OnTheWay
<1>1. CASE BackgroundSteps
  <2>1. ASSUME NEW c \in Calls, SendOperation(c)
        PROVE  OffersPrecede'
    <3>1. PICK m \in ToHost : /\ toHost' = toHost \o <<m>>
                              /\ m.call = c /\ m.grant = Granted(c)
      BY <2>1, SentOperation
    <3>2. <<m>> \in Seq(ToHost) /\ Members(<<m>>) = {m}
      BY FewMessages
    <3>3. m.grant => Deciding(c)
      BY <2>1, <3>1 DEF Granted, Deciding, SendOperation
    <3> QED
      BY <1>1, <3>1, <3>2, <3>3, OffersPrecedePost
  <2>2. CASE ~ \E c \in Calls : SendOperation(c)
    <3>1. PICK ms \in Seq(ToHost) :
            toHost' = toHost \o ms /\ \A m \in Members(ms) : m.type # "operation"
      BY <1>1, <2>2, BackgroundFollows DEF BackgroundSteps, PostsWhatFollows, Follows
    <3> QED
      BY <1>1, <3>1, OffersPrecedePost
  <2> QED
    BY <2>1, <2>2
<1>2. CASE HostReceives
  <2>1. PICK m : m = Head(toHost)
    OBVIOUS
  <2>2. toHost # <<>> /\ toHost' = Tail(toHost) /\ toHost \in Seq(ToHost) /\ UNCHANGED tabOf
    BY <1>2, Types
       DEF HostReceives, ReceiveOperation, ReceiveOffer, ReceiveRevoke, ReceiveCancel,
           ReceiveSettled, Receive, HostOnly, backgroundVars, routing
  <2>3. /\ Len(toHost) \in Nat
        /\ m = toHost[1]
        /\ \A i \in 1..Len(toHost') : i + 1 \in 1..Len(toHost) /\ toHost'[i] = toHost[i + 1]
        /\ \A i \in 1..Len(toHost) : i # 1 => i - 1 \in 1..Len(toHost')
                                              /\ toHost'[i - 1] = toHost[i]
    <3>1. Len(toHost) \in Nat \ {0} /\ toHost' \in Seq(ToHost)
      BY <2>2, EmptySeq, LenProperties, HeadTailProperties
    <3>2. Len(toHost') = Len(toHost) - 1 /\ m = toHost[1]
          /\ \A i \in 1..Len(toHost') : toHost'[i] = toHost[i + 1]
      BY <2>1, <2>2, <3>1, HeadTailProperties
    <3>3. \A i \in 1..Len(toHost) : i # 1 => i - 1 \in 1..Len(toHost') /\ (i - 1) + 1 = i
      BY <3>1, <3>2
    <3> QED
      BY <3>1, <3>2, <3>3
  <2> SUFFICES ASSUME NEW j \in 1..Len(toHost'), toHost'[j].type = "operation",
                      toHost'[j].grant, NEW c, c = toHost'[j].call
               PROVE  HasOffer(c)' \/ Preceded(c, j)'
    BY OffersPrecedeNext
  <2>5. /\ j + 1 \in 1..Len(toHost) /\ toHost[j + 1] = toHost'[j]
        /\ c \in CallsOf(toHost) /\ c \in Calls /\ decision[c] \in Allowing
    <3>1. j + 1 \in 1..Len(toHost) /\ toHost[j + 1] = toHost'[j]
      BY <2>3
    <3> QED
      BY <3>1, GrantedWasAllowed
  <2>6. HasOffer(c) \/ Preceded(c, j + 1)
    BY <2>5, OffersPrecedeMeans
  <2>7. HasOffer(c) => HasOffer(c)'
    BY <2>5, OfferBefore
  <2>8. ASSUME NEW i \in 1..Len(toHost), i < j + 1, NEW x, x = toHost[i], IsOffer(x, c), i # 1
        PROVE  Preceded(c, j)'
    <3>1. i - 1 \in 1..Len(toHost') /\ i - 1 < j /\ toHost'[i - 1] = x
      BY <2>3, <2>8
    <3>2. IsOffer(x, c)'
      BY <2>2, <2>8 DEF IsOffer
    <3> QED
      BY <3>1, <3>2 DEF Preceded
  <2>9. ASSUME IsOffer(m, c)
        PROVE  HasOffer(c)'
    <3>1. ReceiveOffer(m)
      BY <1>2, <2>1, <2>9
         DEF HostReceives, ReceiveOperation, ReceiveRevoke, ReceiveCancel, ReceiveSettled, IsOffer
    <3> QED
      BY <2>2, <2>9, <3>1 DEF ReceiveOffer, HasOffer, IsOffer
  <2> QED
    BY <2>3, <2>6, <2>7, <2>8, <2>9 DEF Preceded
<1>3. CASE UNCHANGED <<toHost, backgroundVars>>
  <2> SUFFICES ASSUME NEW j \in 1..Len(toHost), toHost[j].type = "operation",
                      toHost[j].grant, NEW c, c = toHost[j].call
               PROVE  HasOffer(c)' \/ Preceded(c, j)'
    BY <1>3, OffersPrecedeNext
  <2>1. c \in CallsOf(toHost) /\ decision[c] \in Allowing
    BY GrantedWasAllowed
  <2>2. HasOffer(c) \/ Preceded(c, j)
    BY OffersPrecedeMeans
  <2>3. Preceded(c, j)' <=> Preceded(c, j)
    BY <1>3 DEF Preceded, IsOffer, backgroundVars, routing
  <2> QED
    BY <2>1, <2>2, <2>3, OfferBefore
<1>4. CASE OtherSteps
  BY <1>3, <1>4, StepKinds
<1>5. ASSUME NEW t \in Tabs, SurfaceStep(t) \/ Executes(t)
      PROVE  OffersPrecede'
  <2>1. UNCHANGED <<toHost, backgroundVars>>
    BY <1>5, ExecutesMeans DEF SurfaceStep, SurfaceFound, SurfaceDropped, hostChannels, HostOnly
  <2> QED
    BY <1>3, <2>1
<1> QED
  BY <1>1, <1>2, <1>4, <1>5, StepKinds DEF HostSteps


\* An offer and its call's tab, as they were.
LEMMA OfferUntouched ==
  ASSUME TypeInv, FreshRequests, CardsFollowCalls, Next, NEW c \in Calls, HasOffer(c),
         NEW o \in offers, o.call = c, o.tab = tabOf[c], o \in offers'
  PROVE  HasOffer(c)'
<1>1. tabOf[c] \in Tabs
  BY Types DEF Offer
<1>2. tabOf'[c] = tabOf[c]
  BY <1>1, StepKeepsCards, ConstantsAssumption DEF CardsKept
<1> QED
  BY <1>2 DEF HasOffer

\* The operations held for tab t: by whose leave, and for which call.
LEMMA HeldGrants ==
  ASSUME ConsentInv, NEW t \in Tabs, NEW m \in Queued(t)
  PROVE  /\ m \in Operation /\ m.type = "operation" /\ m.call \in Calls
         /\ m.call \in InHand(t)
         /\ m.grant => decision[m.call] \notin Refusing
<1> USE DEF ConsentInv, OnTheWay
<1>1. m \in Operation
  BY QueuedOperations
<1>2. m.type = "operation" /\ m.call \in Calls
  BY <1>1 DEF Operation
<1>3. Honest(m)
  BY DEF QueuesHonest
<1>4. m.grant => decision[m.call] \notin Refusing
  BY <1>3 DEF Honest, Allowing, Refusing
<1> QED
  BY <1>1, <1>2, <1>4 DEF Queued, InHand, CallsOf

\* While the host handles a message, what it holds keeps its offers, and what it
\* takes up has one.
LEMMA FindsReceive ==
  ASSUME ConsentInv, OffersReady, Next, HostReceives, NEW t \in Tabs
  PROVE  WaitFinds(t)' /\ QueueFinds(t)'
<1> USE DEF ConsentInv, OnTheWay
<1>0. PICK h : h = Head(toHost)
  OBVIOUS
<1>1. toHost # <<>> /\ toHost \in Seq(ToHost) /\ h = toHost[1] /\ 1 \in 1..Len(toHost)
  <2>1. toHost # <<>> /\ toHost \in Seq(ToHost)
    BY Types DEF HostReceives
  <2>2. Len(toHost) \in Nat /\ Len(toHost) # 0
    BY <2>1, EmptySeq, LenProperties
  <2> QED
    BY <1>0, <2>1, <2>2, HeadTailProperties
<1>2. RevokedIsRefused /\ OffersPrecede /\ WaitFinds(t) /\ QueueFinds(t)
  BY DEF OffersReady
<1>3. ASSUME NEW m \in Queued(t), m.grant, HasOffer(m.call)
      PROVE  HasOffer(m.call)'
  <2>1. PICK o \in offers : o.call = m.call /\ o.tab = tabOf[m.call]
    BY <1>3 DEF HasOffer
  <2>2. o \in offers' /\ m.call \in Calls
    BY <1>2, <1>3, <2>1, HeldGrants, ReceiveOffers
  <2> QED
    BY <1>3, <2>1, <2>2, OfferUntouched
<1>4. CASE ReceiveOperation(h)
  <2>1. h \in Operation /\ h.type = "operation" /\ h.call \in Calls /\ UNCHANGED <<phase, offers>>
    BY <1>0, <1>1, <1>4, HostMessageFields, HeadTailProperties DEF ReceiveOperation, Operation
  <2>2. h.grant => HasOffer(h.call)'
    <3>1. ASSUME h.grant
          PROVE  HasOffer(h.call)
      <4>1. ~ \E i \in 1..Len(toHost) : i < 1
        BY <1>1, LenProperties
      <4> QED
        BY <1>1, <1>2, <2>1, <3>1, <4>1 DEF OffersPrecede
    <3>2. HasOffer(h.call) => HasOffer(h.call)'
      BY <2>1, OfferUntouched DEF HasOffer
    <3> QED
      BY <3>1, <3>2
  <2>3. /\ surfaceWait'[t] = surfaceWait[t] \/ surfaceWait'[t] = Append(surfaceWait[t], h)
        /\ queue'[t] = queue[t] \/ queue'[t] = Append(queue[t], h)
    BY <1>4, Types DEF ReceiveOperation
  <2>4. /\ Members(surfaceWait'[t]) \subseteq Members(surfaceWait[t]) \cup {h}
        /\ Members(queue'[t]) \subseteq Members(queue[t]) \cup {h}
    <3>1. /\ Members(Append(surfaceWait[t], h)) = Members(surfaceWait[t]) \cup {h}
          /\ Members(Append(queue[t], h)) = Members(queue[t]) \cup {h}
      BY <2>1, Types, MembersAppend
    <3> QED
      BY <2>3, <3>1
  <2>5. ASSUME NEW m \in Members(surfaceWait'[t]), m.grant
        PROVE  HasOffer(m.call)'
    BY <1>2, <1>3, <2>2, <2>4, <2>5 DEF WaitFinds, Queued
  <2>6. ASSUME NEW m \in Members(queue'[t]), m.grant, phase'[t] = "idle" \/ m # Current(t)'
        PROVE  HasOffer(m.call)'
    <3>1. phase[t] # "idle" => Current(t)' = Current(t)
      BY <2>1, <2>3, StillCurrent
    <3>2. m # h => HasOffer(m.call)
      BY <1>2, <2>1, <2>4, <2>6, <3>1 DEF QueueFinds
    <3>3. m # h => m \in Queued(t)
      BY <2>4, <2>6 DEF Queued
    <3> QED
      BY <1>3, <2>2, <2>6, <3>2, <3>3
  <2> QED
    BY <2>5, <2>6 DEF WaitFinds, QueueFinds, Members
<1>5. CASE UNCHANGED <<surfaceWait, queue>> /\ (phase'[t] = "idle" => phase[t] = "idle")
  <2>1. ASSUME NEW m \in Members(surfaceWait[t]), m.grant
        PROVE  HasOffer(m.call)'
    BY <1>2, <1>3, <2>1 DEF WaitFinds, Queued
  <2>2. ASSUME NEW m \in Members(queue[t]), m.grant, phase'[t] = "idle" \/ m # Current(t)'
        PROVE  HasOffer(m.call)'
    <3>1. Current(t)' = Current(t)
      BY <1>5 DEF Current
    <3> QED
      BY <1>2, <1>3, <1>5, <2>2, <3>1 DEF QueueFinds, Queued
  <2> QED
    BY <1>5, <2>1, <2>2 DEF WaitFinds, QueueFinds, Members
<1>6. ASSUME ReceiveCancel(h)
      PROVE  UNCHANGED <<surfaceWait, queue>> /\ (phase'[t] = "idle" => phase[t] = "idle")
  BY <1>6 DEF ReceiveCancel
<1>7. ASSUME ReceiveOffer(h) \/ ReceiveRevoke(h) \/ ReceiveSettled(h)
      PROVE  UNCHANGED <<surfaceWait, queue>> /\ (phase'[t] = "idle" => phase[t] = "idle")
  BY <1>7 DEF ReceiveOffer, ReceiveRevoke, ReceiveSettled, executing
<1> QED
  BY <1>0, <1>4, <1>5, <1>6, <1>7 DEF HostReceives

\* From the wait for a document to the queue no offer is taken.
LEMMA FindsSurface ==
  ASSUME ConsentInv, OffersReady, Next, NEW u \in Tabs, SurfaceStep(u), NEW t \in Tabs
  PROVE  WaitFinds(t)' /\ QueueFinds(t)'
<1> USE DEF ConsentInv, OnTheWay
<1>0. PICK h : h = Head(surfaceWait[u])
  OBVIOUS
<1>1. /\ surfaceWait[u] # <<>>
      /\ surfaceWait' = [surfaceWait EXCEPT ![u] = Tail(@)]
      /\ UNCHANGED <<phase, offers, tabOf>>
      /\ UNCHANGED queue \/ queue' = [queue EXCEPT ![u] = Append(@, h)]
  BY <1>0 DEF SurfaceStep, SurfaceFound, SurfaceDropped, executing, HostOnly, backgroundVars, routing
<1>2. /\ surfaceWait[u] \in Seq(Operation) /\ h \in Operation
      /\ h \in Members(surfaceWait[u]) /\ Members(Tail(surfaceWait[u])) \subseteq Members(surfaceWait[u])
  BY <1>0, <1>1, Types, MembersTail
<1>3. \A v \in Tabs : WaitFinds(v) /\ QueueFinds(v)
  BY DEF OffersReady
<1>4. \A c : HasOffer(c)' <=> HasOffer(c)
  BY <1>1 DEF HasOffer
<1>5. ASSUME NEW m \in Members(surfaceWait'[t]), m.grant
      PROVE  HasOffer(m.call)'
  <2>1. surfaceWait'[t] = surfaceWait[t] \/ (t = u /\ surfaceWait'[t] = Tail(surfaceWait[u]))
    BY <1>1, Types
  <2>2. m \in Members(surfaceWait[t])
    BY <1>2, <1>5, <2>1
  <2> QED
    BY <1>3, <1>4, <1>5, <2>2 DEF WaitFinds
<1>6. ASSUME NEW m \in Members(queue'[t]), m.grant, phase'[t] = "idle" \/ m # Current(t)'
      PROVE  HasOffer(m.call)'
  <2>1. queue'[t] = queue[t] \/ (t = u /\ queue'[t] = Append(queue[t], h))
    BY <1>1, Types
  <2>2. phase[t] # "idle" => Current(t)' = Current(t)
    BY <1>2, <2>1, StillCurrent
  <2>3. Members(Append(queue[t], h)) = Members(queue[t]) \cup {h}
    BY <1>2, Types, MembersAppend
  <2>4. m \in Members(queue[t]) \/ (t = u /\ m = h)
    BY <1>6, <2>1, <2>3
  <2>5. m \in Members(queue[t]) => HasOffer(m.call)
    BY <1>1, <1>3, <1>6, <2>2 DEF QueueFinds
  <2>6. m = h => HasOffer(m.call)
    BY <1>2, <1>3, <1>6 DEF WaitFinds
  <2> QED
    BY <1>4, <2>4, <2>5, <2>6
<1> QED
  BY <1>5, <1>6 DEF WaitFinds, QueueFinds, Members

\* A call that begins takes its own offer only.
LEMMA FindsExecutes ==
  ASSUME ConsentInv, OnePlace, OffersReady, Next, NEW u \in Tabs, Executes(u), NEW t \in Tabs
  PROVE  WaitFinds(t)' /\ QueueFinds(t)'
<1> USE DEF ConsentInv, OnTheWay
<1>0. PICK d : d = Current(u).call
  OBVIOUS
<1>1. /\ queue[u] # <<>>
      /\ UNCHANGED surfaceWait
      /\ GivesUp(u) \/ Proceeds(u) \/ Starts(u) \/ Settles(u)
  BY ExecutesMeans
<1>2. /\ queue[u] \in Seq(Operation) /\ Current(u) \in Members(queue[u]) /\ Current(u) = Head(queue[u])
      /\ Current(u).type = "operation" /\ d \in CallsOf(queue[u]) /\ d \in InHand(u)
  BY <1>0, <1>1, Types, CurrentInHand DEF Current
<1>3. WaitFinds(t) /\ QueueFinds(t)
  BY DEF OffersReady
<1>4. ASSUME NEW m \in Queued(t), m.grant, m.call # d, HasOffer(m.call)
      PROVE  HasOffer(m.call)'
  <2>1. PICK o \in offers : o.call = m.call /\ o.tab = tabOf[m.call]
    BY <1>4 DEF HasOffer
  <2>2. o \in offers' /\ m.call \in Calls
    BY <1>0, <1>4, <2>1, HeldGrants, ExecutesOffers
  <2> QED
    BY <1>4, <2>1, <2>2, OfferUntouched
<1>5. ASSUME NEW m \in Members(surfaceWait[t])
      PROVE  m.call # d
  <2>1. m \in Queued(t)
    BY DEF Queued
  <2>2. m.type = "operation" /\ m.call \in InHand(t) /\ m.call \in CallsOf(surfaceWait[t])
    BY <2>1, HeldGrants DEF CallsOf
  <2>3. t # u => m.call # d
    BY <1>2, <2>2, InHandOnTab
  <2>4. t = u => m.call # d
    BY <1>2, <2>2 DEF OnePlace
  <2> QED
    BY <2>3, <2>4
<1>6. ASSUME NEW m \in Members(queue[t]), m.call = d
      PROVE  t = u /\ m = Current(u)
  <2>1. m \in Queued(t)
    BY DEF Queued
  <2>2. m.type = "operation" /\ m.call \in InHand(t)
    BY <2>1, HeldGrants
  <2>3. t = u
    BY <1>2, <1>6, <2>2, InHandOnTab
  <2>4. PICK i \in 1..Len(queue[u]) : m = queue[u][i]
    BY <1>6, <2>3 DEF Members
  <2>5. Current(u) = queue[u][1] /\ 1 \in 1..Len(queue[u])
    BY <1>1, <1>2, TakeOperation
  <2>6. i = 1
    <3>1. Alone(queue[u])
      BY DEF OnePlace
    <3> QED
      BY <1>0, <1>2, <1>6, <2>2, <2>4, <2>5, <3>1 DEF Alone
  <2> QED
    BY <2>3, <2>4, <2>5, <2>6
<1>7. ASSUME NEW m \in Members(surfaceWait'[t]), m.grant
      PROVE  HasOffer(m.call)'
  BY <1>1, <1>3, <1>4, <1>5, <1>7 DEF WaitFinds, Queued
<1>8. ASSUME NEW m \in Members(queue'[t]), m.grant, phase'[t] = "idle" \/ m # Current(t)'
      PROVE  HasOffer(m.call)'
  <2>1. CASE t # u
    <3>1. queue'[t] = queue[t] /\ phase'[t] = phase[t]
      BY <1>1, <2>1, Types DEF GivesUp, Proceeds, Starts, Settles, Return
    <3>2. Current(t)' = Current(t)
      BY <3>1 DEF Current
    <3> QED
      BY <1>3, <1>4, <1>6, <1>8, <2>1, <3>1, <3>2 DEF QueueFinds, Queued
  <2>2. CASE t = u /\ (Proceeds(u) \/ Starts(u))
    <3>1. queue'[t] = queue[t] /\ phase'[t] # "idle"
      BY <2>2, Types DEF Proceeds, Starts
    <3>2. Current(t)' = Current(t)
      BY <3>1 DEF Current
    <3> QED
      BY <1>3, <1>4, <1>6, <1>8, <2>2, <3>1, <3>2 DEF QueueFinds, Queued
  <2>3. CASE t = u /\ (GivesUp(u) \/ Settles(u))
    <3>1. queue'[t] = Tail(queue[t])
      BY <2>3, Types DEF GivesUp, Settles, Return
    <3>2. m \in Members(queue[t]) /\ m \in Queued(t)
      BY <1>1, <1>2, <1>8, <2>3, <3>1, MembersTail DEF Queued
    <3>3. m.type = "operation"
      BY <3>2, HeldGrants
    <3>4. m.call \in CallsOf(Tail(queue[u]))
      BY <1>8, <2>3, <3>1, <3>3 DEF CallsOf
    <3>5. m.call # d
      <4>1. Alone(queue[u])
        BY DEF OnePlace
      <4>2. Head(queue[u]).call \notin CallsOf(Tail(queue[u]))
        BY <1>1, <1>2, <4>1, CallsTail
      <4> QED
        BY <1>0, <1>2, <3>4, <4>2
    <3>6. m # Current(t)
      BY <1>0, <2>3, <3>5
    <3> QED
      BY <1>3, <1>4, <1>8, <3>2, <3>5, <3>6 DEF QueueFinds
  <2> QED
    BY <1>1, <2>1, <2>2, <2>3
<1> QED
  BY <1>7, <1>8 DEF WaitFinds, QueueFinds, Members

\* An operation with a grant has its offer before it, wherever it is.
LEMMA OffersReadyKept ==
  ASSUME ConsentInv, CancelsFollow, PendingRouted, OnePlace, OffersReady, Next
  PROVE  OffersReady'
<1> USE DEF ConsentInv, OnTheWay
<1>1. RevokedIsRefused /\ CardsAreOffered /\ OffersPrecede
  BY DEF OffersReady
<1>2. RevokedIsRefused' /\ CardsAreOffered' /\ OffersPrecede'
  BY <1>1, RevokedIsRefusedKept, CardsAreOfferedKept, OffersPrecedeKept
<1>3. ASSUME NEW t \in Tabs
      PROVE  WaitFinds(t)' /\ QueueFinds(t)'
  <2>1. CASE BackgroundSteps \/ OtherSteps
    <3>1. UNCHANGED <<surfaceWait, queue, phase, offers>>
      BY <2>1, StepKinds DEF hostVars, executing
    <3>2. ASSUME NEW c \in Calls, HasOffer(c)
          PROVE  HasOffer(c)'
      BY <3>1, <3>2, OfferUntouched DEF HasOffer
    <3>3. \A m \in Queued(t) : m.call \in Calls
      BY HeldGrants
    <3>4. WaitFinds(t) /\ QueueFinds(t)
      BY DEF OffersReady
    <3> QED
      BY <3>1, <3>2, <3>3, <3>4 DEF WaitFinds, QueueFinds, Members, Queued, Current
  <2> QED
    BY <2>1, FindsReceive, FindsSurface, FindsExecutes, StepKinds DEF HostSteps
<1> QED
  BY <1>2, <1>3 DEF OffersReady

\* So a granted call that may begin finds its offer.
LEMMA ReadyIsFound ==
  ASSUME ConsentInv, OffersReady
  PROVE  GrantFindsItsOffer
<1> USE DEF ConsentInv, OnTheWay
<1> SUFFICES ASSUME NEW t \in Tabs, MayBegin(t), Current(t).grant
             PROVE  OfferOf(Current(t)) # {}
  BY DEF GrantFindsItsOffer
<1>1. Current(t) \in Members(queue[t]) /\ phase[t] = "idle"
  BY CurrentInHand DEF MayBegin
<1>2. HasOffer(Current(t).call)
  BY <1>1 DEF OffersReady, QueueFinds
<1>3. Current(t) \in Queued(t)
  BY <1>1 DEF Queued
<1>4. Current(t).tab = tabOf[Current(t).call]
  BY <1>3 DEF QueuesHonest, Honest
<1> QED
  BY <1>2, <1>4 DEF OfferOf, HasOffer


-----------------------------------------------------------------------------
(* A card has a caller *)

\* Only a lost port loses calls.
LEMMA NotLostKept ==
  ASSUME TypeInv, NotLost, Next
  PROVE  NotLost'
<1> SUFFICES ASSUME "port lost" \notin Events
             PROVE  connected' /\ \A c \in Calls : op'[c] # "lost"
  BY DEF NotLost
<1>1. /\ connected = TRUE /\ \A c \in Calls : op[c] # "lost"
      /\ op \in [Calls -> {"idle"} \cup Waiting \cup Unanswered \cup Outcomes]
      /\ "lost" \notin Outcomes
  BY DEF NotLost, TypeInv, TypeOK, CompanionTypeOK, ChannelsTypeOK, Outcomes
<1>2. CASE BackgroundSteps
  <2>1. UNCHANGED connected
    BY <1>2, CallStepIsBackgrounds
       DEF BackgroundSteps, BackgroundReceives, ReceiveRequest, ReceiveCancelled, CloseTabStep,
           CloseTab, Answer
  <2> QED
    BY <1>1, <1>2, <2>1, StepKinds
<1>3. CASE HostSteps
  BY <1>1, <1>3, StepKinds DEF nativeChannels
<1>4. CASE OtherSteps
  <2>1. ASSUME NEW c \in Calls, DispatchStep(c) \/ AgentStopsStep(c) \/ CompanionTimeoutStep(c)
        PROVE  connected' /\ \A d \in Calls : op'[d] # "lost"
    BY <1>1, <2>1 DEF DispatchStep, Dispatch, AgentStopsStep, AgentStops, CompanionTimeoutStep,
                      CompanionTimeout, GiveUp
  <2>2. ASSUME CompanionReceives
        PROVE  connected' /\ \A d \in Calls : op'[d] # "lost"
    BY <1>1, <2>2 DEF CompanionReceives, ReceiveFromExtension, ReceivePending, ReceiveResponse
  <2>3. ~PortLostStep
    BY DEF PortLostStep, PortLost
  <2>4. ~ReconnectStep
    BY <1>1 DEF ReconnectStep, Reconnect
  <2>5. ASSUME NEW t \in Tabs, NEW p \in Pages, NavigateStep(t, p)
        PROVE  connected' /\ \A d \in Calls : op'[d] # "lost"
    BY <1>1, <2>5 DEF NavigateStep, nativeChannels
  <2> QED
    BY <1>4, <2>1, <2>2, <2>3, <2>4, <2>5 DEF OtherSteps
<1> QED
  BY <1>2, <1>3, <1>4, StepKinds

\* Whatever ends a call for its caller closes it: an open card has its caller.
LEMMA OpenCardHasCaller ==
  ASSUME TypeInv, FreshRequests, EndedIsClosed, NotLost, "port lost" \notin Events
  PROVE  CardHasCaller
<1> SUFFICES ASSUME NEW c \in Calls, decision[c] = "open", op[c] \notin Waiting
             PROVE  \E i \in DOMAIN toExtension : toExtension[i] = Cancelled(c)
  BY DEF CardHasCaller, OpenCards
<1>1. op[c] \in {"idle"} \cup Waiting \cup Unanswered \cup Outcomes
  BY DEF TypeInv, TypeOK, CompanionTypeOK
<1>2. tabOf[c] # NoTab
  BY Types, ConstantsAssumption DEF CallsHaveTabs
<1>3. op[c] # "idle"
  BY <1>2 DEF FreshRequests
<1>4. op[c] # "lost"
  BY DEF NotLost
<1>5. ~Ended(c)
  BY DEF EndedIsClosed, Closed
<1>6. op[c] \notin Outcomes
  BY <1>5 DEF Ended, Told
<1>7. op[c] = "abandoned"
  BY <1>1, <1>3, <1>4, <1>6 DEF Unanswered
<1>8. Cancelled(c) \in Members(toExtension)
  BY <1>5, <1>7 DEF Ended
<1>9. DOMAIN toExtension = 1..Len(toExtension)
  BY Types, LenProperties
<1> QED
  BY <1>8, <1>9 DEF Members

-----------------------------------------------------------------------------
(* The count of busy tabs *)

\* The calls that are being run on tab t.
Working(t) == {c \in Calls : stage[c] \in {"prepare", "sent"} /\ tabOf[c] = t}

\* What keeps tab t busy.
Load(t) == Cardinality(Working(t)) + Cardinality(CardsOn(t))

\* BusyCountsWork says that the counter is the load.
LEMMA BusyMeans ==
  BusyCountsWork <=> \A t \in Tabs : busy[t] = Load(t)
  BY DEF BusyCountsWork, Load, Working

\* Calls are counted one by one.
LEMMA Counts ==
  ASSUME NEW S \in SUBSET Calls, NEW c
  PROVE  /\ Cardinality(S) \in Nat
         /\ c \notin S => Cardinality(S \cup {c}) = Cardinality(S) + 1
         /\ c \in S => Cardinality(S) > 0 /\ Cardinality(S \ {c}) = Cardinality(S) - 1
<1>1. IsFiniteSet(S)
  BY FS_Subset, ConstantsAssumption
<1>2. /\ Cardinality(S) \in Nat
      /\ c \notin S => Cardinality(S \cup {c}) = Cardinality(S) + 1
  BY <1>1, FS_CardinalityType, FS_AddElement
<1>3. ASSUME c \in S
      PROVE  Cardinality(S) > 0 /\ Cardinality(S \ {c}) = Cardinality(S) - 1
  <2>1. IsFiniteSet(S \ {c}) /\ Cardinality(S \ {c}) = Cardinality(S) - 1
    BY <1>1, <1>3, FS_RemoveElement
  <2>2. Cardinality(S \ {c}) \in Nat
    BY <2>1, FS_CardinalityType
  <2> QED
    BY <1>2, <2>1, <2>2
<1> QED
  BY <1>2, <1>3

\* The sets that are counted.
LEMMA Counted ==
  ASSUME NEW t
  PROVE  Working(t) \in SUBSET Calls /\ CardsOn(t) \in SUBSET Calls
  BY DEF Working, CardsOn, OpenCards

\* A step that changes neither the calls under way nor the cards.
LEMMA BusyRests ==
  ASSUME BusyCountsWork, UNCHANGED busy,
         \A t \in Tabs : Working(t)' = Working(t) /\ CardsOn(t)' = CardsOn(t)
  PROVE  BusyCountsWork'
  BY BusyMeans DEF BusyCountsWork, Working

\* A run ends: one call less is under way on its tab.
LEMMA BusyFinish ==
  ASSUME TypeInv, BusyCountsWork, NEW c \in Calls, stage[c] \in {"prepare", "sent"},
         RoutingEnded(c), busy' = DebuggerIdle(busy, tabOf[c]), UNCHANGED <<tabOf, decision>>
  PROVE  BusyCountsWork'
<1>1. tabOf[c] \in Tabs /\ busy \in [Tabs -> Nat]
  BY Types DEF CallsHaveTabs, TypeInv, TypeOK, BackgroundTypeOK
<1>2. stage' = [stage EXCEPT ![c] = "none"] /\ stage \in [Calls -> {"none", "route", "prepare", "sent"}]
  BY Types DEF RoutingEnded
<1> SUFFICES ASSUME NEW t \in Tabs
             PROVE  busy'[t] = Cardinality(Working(t)') + Cardinality(CardsOn(t)')
  BY DEF BusyCountsWork, Working
<1>3. busy[t] = Cardinality(Working(t)) + Cardinality(CardsOn(t))
  BY BusyMeans DEF Load
<1>4. CardsOn(t)' = CardsOn(t)
  BY DEF CardsOn, OpenCards
<1>5. CASE t = tabOf[c]
  <2>1. Working(t)' = Working(t) \ {c} /\ c \in Working(t)
    BY <1>2, <1>5 DEF Working
  <2>2. /\ Cardinality(Working(t)) \in Nat /\ Cardinality(CardsOn(t)) \in Nat
        /\ Cardinality(Working(t)) > 0
        /\ Cardinality(Working(t) \ {c}) = Cardinality(Working(t)) - 1
    BY <2>1, Counted, Counts
  <2>3. busy'[t] = IF busy[t] > 1 THEN busy[t] - 1 ELSE 0
    BY <1>1, <1>5 DEF DebuggerIdle
  <2> QED
    BY <1>3, <1>4, <2>1, <2>2, <2>3
<1>6. CASE t # tabOf[c]
  <2>1. Working(t)' = Working(t)
    BY <1>2, <1>6 DEF Working
  <2>2. busy'[t] = busy[t]
    BY <1>1, <1>6 DEF DebuggerIdle
  <2> QED
    BY <1>3, <1>4, <2>1, <2>2
<1> QED
  BY <1>5, <1>6

\* A card ends: one less is open on its tab.
LEMMA BusyEnds ==
  ASSUME TypeInv, BusyCountsWork, NEW c \in OpenCards, NEW ending \in Refusing,
         decision' = [decision EXCEPT ![c] = ending], busy' = DebuggerIdle(busy, tabOf[c]),
         UNCHANGED <<stage, tabOf>>
  PROVE  BusyCountsWork'
<1>1. /\ c \in Calls /\ decision[c] = "open" /\ ending # "open"
      /\ tabOf[c] \in Tabs /\ busy \in [Tabs -> Nat]
      /\ decision \in [Calls -> {"none", "open"} \cup Allowing \cup Refusing]
  BY Types DEF OpenCards, Refusing, CallsHaveTabs, TypeInv, TypeOK, BackgroundTypeOK
<1> SUFFICES ASSUME NEW t \in Tabs
             PROVE  busy'[t] = Cardinality(Working(t)') + Cardinality(CardsOn(t)')
  BY DEF BusyCountsWork, Working
<1>2. busy[t] = Cardinality(Working(t)) + Cardinality(CardsOn(t))
  BY BusyMeans DEF Load
<1>3. Working(t)' = Working(t)
  BY DEF Working
<1>4. CASE t = tabOf[c]
  <2>1. CardsOn(t)' = CardsOn(t) \ {c} /\ c \in CardsOn(t)
    BY <1>1, <1>4 DEF CardsOn, OpenCards
  <2>2. /\ Cardinality(Working(t)) \in Nat /\ Cardinality(CardsOn(t)) \in Nat
        /\ Cardinality(CardsOn(t)) > 0
        /\ Cardinality(CardsOn(t) \ {c}) = Cardinality(CardsOn(t)) - 1
    BY <2>1, Counted, Counts
  <2>3. busy'[t] = IF busy[t] > 1 THEN busy[t] - 1 ELSE 0
    BY <1>1, <1>4 DEF DebuggerIdle
  <2> QED
    BY <1>2, <1>3, <2>1, <2>2, <2>3
<1>5. CASE t # tabOf[c]
  <2>1. CardsOn(t)' = CardsOn(t)
    BY <1>1, <1>5 DEF CardsOn, OpenCards
  <2>2. busy'[t] = busy[t]
    BY <1>1, <1>5 DEF DebuggerIdle
  <2> QED
    BY <1>2, <1>3, <2>1, <2>2
<1> QED
  BY <1>4, <1>5

\* A call asks: its run is over, and its card is open.
LEMMA BusyAsks ==
  ASSUME TypeInv, CardsFollowCalls, BusyCountsWork, NEW c \in Calls, NEW r, AskPerson(c, r)
  PROVE  BusyCountsWork'
<1>1. /\ stage[c] = "sent" /\ tabOf[c] \in Tabs /\ busy \in [Tabs -> Nat]
      /\ stage \in [Calls -> {"none", "route", "prepare", "sent"}]
      /\ stage' = [stage EXCEPT ![c] = "none"]
      /\ decision \in [Calls -> {"none", "open"} \cup Allowing \cup Refusing]
      /\ decision' = [decision EXCEPT ![c] = "open"]
      /\ busy' = DebuggerBusy(DebuggerIdle(busy, tabOf[c]), tabOf[c])
      /\ UNCHANGED tabOf
  BY Types DEF AskPerson, RoutingEnded, CallsHaveTabs, TypeInv, TypeOK, BackgroundTypeOK
<1>2. decision[c] # "open"
  BY <1>1 DEF CardsFollowCalls, Allowing
<1> SUFFICES ASSUME NEW t \in Tabs
             PROVE  busy'[t] = Cardinality(Working(t)') + Cardinality(CardsOn(t)')
  BY DEF BusyCountsWork, Working
<1>3. busy[t] = Cardinality(Working(t)) + Cardinality(CardsOn(t))
  BY BusyMeans DEF Load
<1>4. CASE t = tabOf[c]
  <2>1. /\ Working(t)' = Working(t) \ {c} /\ c \in Working(t)
        /\ CardsOn(t)' = CardsOn(t) \cup {c} /\ c \notin CardsOn(t)
    BY <1>1, <1>2, <1>4 DEF Working, CardsOn, OpenCards
  <2>2. /\ Cardinality(Working(t)) \in Nat /\ Cardinality(CardsOn(t)) \in Nat
        /\ Cardinality(Working(t)) > 0
        /\ Cardinality(Working(t) \ {c}) = Cardinality(Working(t)) - 1
        /\ Cardinality(CardsOn(t) \cup {c}) = Cardinality(CardsOn(t)) + 1
    BY <2>1, Counted, Counts
  <2>3. busy'[t] = (IF busy[t] > 1 THEN busy[t] - 1 ELSE 0) + 1
    BY <1>1, <1>4 DEF DebuggerIdle, DebuggerBusy
  <2> QED
    BY <1>3, <2>1, <2>2, <2>3
<1>5. CASE t # tabOf[c]
  <2>1. Working(t)' = Working(t) /\ CardsOn(t)' = CardsOn(t)
    BY <1>1, <1>5 DEF Working, CardsOn, OpenCards
  <2>2. busy'[t] = busy[t]
    BY <1>1, <1>5 DEF DebuggerIdle, DebuggerBusy
  <2> QED
    BY <1>3, <2>1, <2>2
<1> QED
  BY <1>4, <1>5

\* A card is allowed: it is closed, and its call is under way again.
LEMMA BusyAllows ==
  ASSUME TypeInv, CardsFollowCalls, BusyCountsWork, NEW c \in Calls, NEW answer \in Allowing,
         Allow(c, answer)
  PROVE  BusyCountsWork'
<1>1. /\ decision[c] = "open" /\ answer # "open"
      /\ stage \in [Calls -> {"none", "route", "prepare", "sent"}]
      /\ stage' = [stage EXCEPT ![c] = "prepare"]
      /\ decision \in [Calls -> {"none", "open"} \cup Allowing \cup Refusing]
      /\ decision' = [decision EXCEPT ![c] = answer]
      /\ busy' = DebuggerBusy(DebuggerIdle(busy, tabOf[c]), tabOf[c])
      /\ UNCHANGED tabOf
  BY Types DEF Allow, StartRun, OpenCards, Allowing
<1>2. stage[c] = "none"
  BY <1>1 DEF CardsFollowCalls, Allowing
<1>3. tabOf[c] \in Tabs /\ busy \in [Tabs -> Nat]
  BY <1>1, Types DEF CallsHaveTabs, TypeInv, TypeOK, BackgroundTypeOK
<1> SUFFICES ASSUME NEW t \in Tabs
             PROVE  busy'[t] = Cardinality(Working(t)') + Cardinality(CardsOn(t)')
  BY DEF BusyCountsWork, Working
<1>4. busy[t] = Cardinality(Working(t)) + Cardinality(CardsOn(t))
  BY BusyMeans DEF Load
<1>5. CASE t = tabOf[c]
  <2>1. /\ Working(t)' = Working(t) \cup {c} /\ c \notin Working(t)
        /\ CardsOn(t)' = CardsOn(t) \ {c} /\ c \in CardsOn(t)
    BY <1>1, <1>2, <1>5 DEF Working, CardsOn, OpenCards
  <2>2. /\ Cardinality(Working(t)) \in Nat /\ Cardinality(CardsOn(t)) \in Nat
        /\ Cardinality(CardsOn(t)) > 0
        /\ Cardinality(CardsOn(t) \ {c}) = Cardinality(CardsOn(t)) - 1
        /\ Cardinality(Working(t) \cup {c}) = Cardinality(Working(t)) + 1
    BY <2>1, Counted, Counts
  <2>3. busy'[t] = (IF busy[t] > 1 THEN busy[t] - 1 ELSE 0) + 1
    BY <1>3, <1>1, <1>5 DEF DebuggerIdle, DebuggerBusy
  <2> QED
    BY <1>4, <2>1, <2>2, <2>3
<1>6. CASE t # tabOf[c]
  <2>1. Working(t)' = Working(t) /\ CardsOn(t)' = CardsOn(t)
    BY <1>1, <1>6 DEF Working, CardsOn, OpenCards
  <2>2. busy'[t] = busy[t]
    BY <1>1, <1>3, <1>6 DEF DebuggerIdle, DebuggerBusy
  <2> QED
    BY <1>4, <2>1, <2>2
<1> QED
  BY <1>5, <1>6

\* A call is routed: it is under way on its tab.
LEMMA BusyRoutes ==
  ASSUME TypeInv, FreshRequests, CardsFollowCalls, BusyCountsWork, NEW c \in Calls,
         NEW u \in Tabs, RouteToTab(c, u)
  PROVE  BusyCountsWork'
<1>1. /\ stage[c] = "route"
      /\ stage \in [Calls -> {"none", "route", "prepare", "sent"}]
      /\ stage' = [stage EXCEPT ![c] = "prepare"]
      /\ tabOf \in [Calls -> Tabs \cup {NoTab}]
      /\ tabOf' = [tabOf EXCEPT ![c] = u]
      /\ busy' = DebuggerBusy(busy, u) /\ busy \in [Tabs -> Nat]
      /\ UNCHANGED decision
  BY Types DEF RouteToTab, StartRun, asking, TypeInv, TypeOK, BackgroundTypeOK
<1>2. decision[c] # "open"
  BY <1>1 DEF CardsFollowCalls, Allowing
<1> SUFFICES ASSUME NEW t \in Tabs
             PROVE  busy'[t] = Cardinality(Working(t)') + Cardinality(CardsOn(t)')
  BY DEF BusyCountsWork, Working
<1>3. busy[t] = Cardinality(Working(t)) + Cardinality(CardsOn(t))
  BY BusyMeans DEF Load
<1>4. CardsOn(t)' = CardsOn(t)
  BY <1>1, <1>2 DEF CardsOn, OpenCards
<1>5. CASE t = u
  <2>1. Working(t)' = Working(t) \cup {c} /\ c \notin Working(t)
    BY <1>1, <1>5 DEF Working
  <2>2. /\ Cardinality(Working(t)) \in Nat /\ Cardinality(CardsOn(t)) \in Nat
        /\ Cardinality(Working(t) \cup {c}) = Cardinality(Working(t)) + 1
    BY <2>1, Counted, Counts
  <2>3. busy'[t] = busy[t] + 1
    BY <1>1, <1>5 DEF DebuggerBusy
  <2> QED
    BY <1>3, <1>4, <2>1, <2>2, <2>3
<1>6. CASE t # u
  <2>1. Working(t)' = Working(t)
    BY <1>1, <1>6 DEF Working
  <2>2. busy'[t] = busy[t]
    BY <1>1, <1>6 DEF DebuggerBusy
  <2> QED
    BY <1>3, <1>4, <2>1, <2>2
<1> QED
  BY <1>5, <1>6

\* A tab is closed: all its cards end.
LEMMA BusyCloses ==
  ASSUME TypeInv, BusyCountsWork, NEW u \in Tabs, CloseTab(u)
  PROVE  BusyCountsWork'
<1>1. /\ decision' = [c \in Calls |-> IF c \in CardsOn(u) THEN "closed" ELSE decision[c]]
      /\ busy' = [busy EXCEPT ![u] = IF @ > Cardinality(CardsOn(u))
                                     THEN @ - Cardinality(CardsOn(u)) ELSE 0]
      /\ busy \in [Tabs -> Nat]
      /\ UNCHANGED <<stage, tabOf>>
  BY DEF CloseTab, routing, TypeInv, TypeOK, BackgroundTypeOK
<1> SUFFICES ASSUME NEW t \in Tabs
             PROVE  busy'[t] = Cardinality(Working(t)') + Cardinality(CardsOn(t)')
  BY DEF BusyCountsWork, Working
<1>2. busy[t] = Cardinality(Working(t)) + Cardinality(CardsOn(t))
  BY BusyMeans DEF Load
<1>3. Working(t)' = Working(t)
  BY <1>1 DEF Working
<1>4. CASE t = u
  <2>1. CardsOn(t)' = {}
    BY <1>1, <1>4 DEF CardsOn, OpenCards
  <2>2. /\ Cardinality(Working(t)) \in Nat /\ Cardinality(CardsOn(t)) \in Nat
        /\ Cardinality({}) = 0
    BY Counted, Counts, FS_EmptySet
  <2>3. busy'[t] = IF busy[t] > Cardinality(CardsOn(t))
                   THEN busy[t] - Cardinality(CardsOn(t)) ELSE 0
    BY <1>1, <1>4
  <2> QED
    BY <1>2, <1>3, <2>1, <2>2, <2>3
<1>5. CASE t # u
  <2>1. CardsOn(t)' = CardsOn(t)
    BY <1>1, <1>5 DEF CardsOn, OpenCards
  <2>2. busy'[t] = busy[t]
    BY <1>1, <1>5
  <2> QED
    BY <1>2, <1>3, <2>1, <2>2
<1> QED
  BY <1>4, <1>5

\* The count of a tab is that of its calls and cards after every step.
LEMMA BusyCountsKept ==
  ASSUME TypeInv, FreshRequests, CardsFollowCalls, BusyCountsWork, Next
  PROVE  BusyCountsWork'
<1>1. ASSUME UNCHANGED <<busy, stage, tabOf, decision>>
      PROVE  BusyCountsWork'
  BY <1>1 DEF BusyCountsWork, CardsOn, OpenCards
<1>2. ASSUME NEW c \in Calls, NEW s \in {"none", "route", "prepare", "sent"},
             stage' = [stage EXCEPT ![c] = s],
             stage[c] \in {"prepare", "sent"} <=> s \in {"prepare", "sent"},
             UNCHANGED <<busy, tabOf, decision>>
      PROVE  BusyCountsWork'
  <2>1. \A t \in Tabs : Working(t)' = Working(t) /\ CardsOn(t)' = CardsOn(t)
    BY <1>2, Types DEF Working, CardsOn, OpenCards
  <2> QED
    BY <1>2, <2>1, BusyRests
<1>3. ASSUME NEW c \in Calls, CallStep(c)
      PROVE  BusyCountsWork'
  <2>1. CASE Routes(c)
    <3>1. CASE \E t \in Tabs : RouteToTab(c, t)
      BY <3>1, BusyRoutes
    <3>2. CASE ~ \E t \in Tabs : RouteToTab(c, t)
      BY <1>2, <2>1, <3>2
         DEF Routes, RouteRefused, RouteWhileDeciding, RoutingEnded, asking
    <3> QED
      BY <3>1, <3>2
  <2>2. CASE Prepares(c)
    <3>1. CASE SendOperation(c)
      BY <1>2, <3>1 DEF SendOperation, asking
    <3>2. CASE DropCancelled(c) \/ HostUnavailable(c)
      BY <3>2, BusyFinish DEF DropCancelled, HostUnavailable, FinishRun, asking
    <3> QED
      BY <2>2, <3>1, <3>2 DEF Prepares
  <2>3. CASE HostReplies(c)
    <3>1. PICK r \in replies : HostAnswered(c, r) \/ AskPerson(c, r)
      BY <2>3 DEF HostReplies
    <3>2. CASE HostAnswered(c, r)
      BY <3>2, BusyFinish DEF HostAnswered, FinishRun, asking
    <3> QED
      BY <3>1, <3>2, BusyAsks
  <2>4. CASE CallTimeoutStep(c)
    BY <1>1, <2>4 DEF CallTimeoutStep, CallTimeout, asking
  <2>5. CASE ExpireStep(c) \/ DenyStep(c)
    <3>1. PICK ending \in Refusing : Refuse(c, ending)
      BY <2>5 DEF ExpireStep, Expire, DenyStep, Deny, Refusing
    <3> QED
      BY <3>1, BusyEnds DEF Refuse, routing
  <2>6. ASSUME NEW answer \in Allowing, AllowStep(c, answer)
        PROVE  BusyCountsWork'
    BY <2>6, BusyAllows DEF AllowStep
  <2> QED
    BY <1>3, <2>1, <2>2, <2>3, <2>4, <2>5, <2>6 DEF CallStep
<1>4. ASSUME BackgroundReceives
      PROVE  BusyCountsWork'
  <2>1. PICK c \in Calls : ReceiveRequest(c) \/ ReceiveCancelled(c)
    BY <1>4 DEF BackgroundReceives
  <2>2. CASE ReceiveRequest(c)
    <3>1. stage[c] = "none"
      <4>1. ~Routed(c)
        BY <2>2, RequestTaken
      <4> QED
        BY <4>1, TabMeansRouted
    <3> QED
      BY <1>2, <2>2, <3>1 DEF ReceiveRequest, asking
  <2>3. CASE ReceiveCancelled(c)
    <3>1. "abandoned" \in Refusing
      BY DEF Refusing
    <3>2. CASE c \in OpenCards
      BY <2>3, <3>1, <3>2, BusyEnds DEF ReceiveCancelled
    <3>3. CASE c \notin OpenCards
      BY <1>1, <2>3, <3>3 DEF ReceiveCancelled
    <3> QED
      BY <3>2, <3>3
  <2> QED
    BY <2>1, <2>2, <2>3
<1>5. ASSUME NEW t \in Tabs, CloseTabStep(t)
      PROVE  BusyCountsWork'
  BY <1>5, BusyCloses DEF CloseTabStep
<1>6. CASE BackgroundSteps
  BY <1>3, <1>4, <1>5, <1>6 DEF BackgroundSteps
<1>7. CASE OtherSteps \/ HostSteps
  BY <1>1, <1>7, StepKinds DEF backgroundVars, routing, asking
<1> QED
  BY <1>6, <1>7, StepKinds


-----------------------------------------------------------------------------
(* The invariant of all of it *)

\* What is told of a call, where it is, and what is left of it.
SafetyInv ==
  /\ ConsentInv
  /\ PendingRouted /\ CancelsFollow
  /\ OnePlace /\ GrantsMatch
  /\ SpentOnce /\ EndedIsClosed /\ ToldTrue
  /\ CancelsTrail /\ StoppedMarked /\ RunsUnmarked /\ MarksDieWithTheirCalls
  /\ OffersReady
  /\ NotLost
  /\ BusyCountsWork

\* Nothing is counted at first.
LEMMA BusyInit ==
  ASSUME BackgroundInit
  PROVE  BusyCountsWork
<1>1. \A t \in Tabs : Working(t) = {} /\ CardsOn(t) = {} /\ busy[t] = 0
  BY DEF BackgroundInit, Working, CardsOn, OpenCards
<1>2. Cardinality({}) = 0
  BY FS_EmptySet
<1>3. \A t \in Tabs : Load(t) = 0
  BY <1>1, <1>2 DEF Load
<1> QED
  BY <1>1, <1>3, BusyMeans

\* It holds of a browser in which nothing was called.
LEMMA SafetyInit ==
  ASSUME Init
  PROVE  SafetyInv
<1> USE DEF Init, ChannelsInit, CompanionInit, BackgroundInit, HostInit
<1>1. ConsentInv
  BY ConsentInit
<1>2. Members(<<>>) = {} /\ CallsOf(<<>>) = {} /\ Alone(<<>>)
  BY DEF Members, CallsOf, Alone
<1>3. \A c : ~Spent(c)
  BY DEF Spent
<1>4. PendingRouted /\ CancelsFollow /\ CancelsTrail
  BY DEF PendingRouted, CancelsFollow, CancelsTrail
<1>5. OnePlace /\ GrantsMatch
  BY <1>2 DEF OnePlace, InHand, Answering, GrantsMatch, Placed, Posted, Queued
<1>6. SpentOnce
  BY <1>2, <1>3 DEF SpentOnce
<1>7. \A c \in Calls : \A outcome \in Outcomes : ~Told(c, outcome)
  BY <1>2 DEF Told, Outcomes
<1>8. EndedIsClosed
  BY <1>2, <1>7 DEF EndedIsClosed, Ended, Posted
<1>9. ToldTrue
  BY <1>7 DEF ToldTrue, Outcomes
<1>10. StoppedMarked /\ RunsUnmarked
  BY DEF StoppedMarked, RunsUnmarked, Runs
<1>11. MarksDieWithTheirCalls
  BY DEF MarksDieWithTheirCalls
<1>12. OffersReady
  BY <1>2 DEF OffersReady, RevokedIsRefused, CardsAreOffered, Deciding, Allowing, OffersPrecede,
              WaitFinds, QueueFinds, Posted
<1>13. NotLost
  BY DEF NotLost
<1>14. BusyCountsWork
  BY BusyInit
<1> QED
  BY <1>1, <1>4, <1>5, <1>6, <1>8, <1>9, <1>10, <1>11, <1>12, <1>13, <1>14 DEF SafetyInv

\* It outlives every step, and stuttering.
LEMMA SafetyStep ==
  ASSUME SafetyInv, [Next]_vars
  PROVE  SafetyInv'
<1>1. CASE Next
  <2>1. ConsentInv'
    BY <1>1, ConsentStep DEF SafetyInv
  <2>2. PendingRouted' /\ CancelsFollow'
    BY <1>1, PendingRoutedKept, CancelsFollowKept DEF SafetyInv, ConsentInv
  <2>3. OnePlace' /\ GrantsMatch'
    BY <1>1, OnePlaceKept, GrantsMatchKept DEF SafetyInv
  <2>4. SpentOnce' /\ EndedIsClosed' /\ ToldTrue'
    BY <1>1, SpentOnceKept, EndedIsClosedKept, ToldTrueKept DEF SafetyInv
  <2>5. CancelsTrail' /\ StoppedMarked' /\ RunsUnmarked'
    BY <1>1, CancelsTrailKept, StoppedMarkedKept, RunsUnmarkedKept DEF SafetyInv
  <2>6. MarksDieWithTheirCalls' /\ NotLost' /\ BusyCountsWork'
    BY <1>1, MarksDieKept, NotLostKept, BusyCountsKept DEF SafetyInv, ConsentInv
  <2>7. OffersReady'
    BY <1>1, OffersReadyKept DEF SafetyInv
  <2> QED
    BY <2>1, <2>2, <2>3, <2>4, <2>5, <2>6, <2>7 DEF SafetyInv
<1>2. CASE UNCHANGED vars
  <2>1. ConsentInv'
    BY <1>2, ConsentStep DEF SafetyInv
  <2>2. /\ UNCHANGED <<connected, toExtension, toCompanion, toHost, replies, op>>
        /\ UNCHANGED <<stage, tabOf, cancelledCalls, pending, decision, busy>>
        /\ UNCHANGED <<surfaceWait, surfaceCancelled, queue, phase, offers, hostCancelled, ran, stopped>>
    BY <1>2 DEF vars, nativeChannels, hostChannels, backgroundVars, routing, asking, hostVars,
                executing
  <2>3. PendingRouted' /\ CancelsFollow' /\ CancelsTrail' /\ NotLost'
    BY <2>2 DEF SafetyInv, PendingRouted, CancelsFollow, CancelsTrail, NotLost
  <2>4. /\ Alone(toHost)' = Alone(toHost) /\ CallsOf(toHost)' = CallsOf(toHost)
        /\ Answering' = Answering
        /\ \A t \in Tabs : /\ Alone(surfaceWait[t])' = Alone(surfaceWait[t])
                           /\ Alone(queue[t])' = Alone(queue[t])
                           /\ CallsOf(surfaceWait[t])' = CallsOf(surfaceWait[t])
                           /\ CallsOf(queue[t])' = CallsOf(queue[t])
                           /\ InHand(t)' = InHand(t)
                           /\ Queued(t)' = Queued(t)
                           /\ Current(t)' = Current(t)
                           /\ Runs(t)' = Runs(t)
    BY <2>2 DEF Alone, CallsOf, Members, Answering, InHand, Queued, Current, Runs
  <2>5. OnePlace'
    BY <2>2, <2>4 DEF SafetyInv, OnePlace
  <2>6. GrantsMatch'
    BY <2>2, <2>4 DEF SafetyInv, GrantsMatch, Placed, Posted, Members
  <2>7. SpentOnce'
    BY <2>2, <2>4 DEF SafetyInv, SpentOnce, Spent, Routed, Members
  <2>8. EndedIsClosed'
    BY <2>2 DEF SafetyInv, EndedIsClosed, Ended, Told, Closed, Routed, Members, Posted
  <2>9. ToldTrue'
    BY <2>2 DEF SafetyInv, ToldTrue, Told, Over, Routed, Spent, Members
  <2>10. StoppedMarked' /\ RunsUnmarked'
    BY <2>2, <2>4 DEF SafetyInv, StoppedMarked, MarkedOn, RunsUnmarked
  <2>11. MarksDieWithTheirCalls'
    BY <2>2
       DEF SafetyInv, MarksDieWithTheirCalls, RoutingCalls, WaitingForSurface, InFlight, CallsIn
  <2>12. BusyCountsWork'
    <3>1. \A t \in Tabs : Working(t)' = Working(t) /\ CardsOn(t)' = CardsOn(t)
      BY <2>2 DEF Working, CardsOn, OpenCards
    <3> QED
      BY <2>2, <3>1, BusyRests DEF SafetyInv
  <2>13. OffersReady'
    BY <2>2 DEF SafetyInv, OffersReady, RevokedIsRefused, CardsAreOffered, Deciding, Offered,
                HasOffer, IsOffer, OffersPrecede, WaitFinds, QueueFinds, Current, Members, Posted
  <2> QED
    BY <2>1, <2>3, <2>5, <2>6, <2>7, <2>8, <2>9, <2>10, <2>11, <2>12, <2>13 DEF SafetyInv
<1> QED
  BY <1>1, <1>2

\* It is an invariant, whatever the constants are.
LEMMA SafetyHolds == Spec => []SafetyInv
<1>1. Init => SafetyInv
  BY SafetyInit
<1>2. SafetyInv /\ [Next]_vars => SafetyInv'
  BY SafetyStep
<1> QED
  BY <1>1, <1>2, PTL DEF Spec

-----------------------------------------------------------------------------
(* What follows for the agent, the host and the person *)

\* What the agent was told of a call is true of the page, however answers,
\* cancellations, timers and closed tabs interleave: a call answered as not run
\* never reached one and never will, and one answered with a result did
\* (background.ts finishAgentBrowserRequest, settleApproval).
THEOREM AnswersHold == Spec => []AnswersAreTrue
<1>1. SafetyInv => AnswersAreTrue
  BY DEF SafetyInv, AnswersAreTrue, ToldTrue, Told, Spent
<1> QED
  BY <1>1, SafetyHolds, PTL

\* A call whose cancellation the host has handled sends no input from then on,
\* wherever it was: in the channel, waiting for a document, queued, checked or
\* being run (playwright.ts `cancelled`, offscreen.ts routingCancelled).
THEOREM StoppedStays == Spec => []StoppedCallSendsNoInput
<1>1. SafetyInv => StoppedCallSendsNoInput
  BY StoppedDoesNotRun DEF SafetyInv, ConsentInv
<1> QED
  BY <1>1, SafetyHolds, PTL

\* No mark of a voided call outlives the call's routing, its wait for a
\* document or its place in the queue (background.ts routingEnded, offscreen.ts,
\* the `finally` of playwright.ts).
THEOREM MarksDie == Spec => []MarksDieWithTheirCalls
<1>1. SafetyInv => MarksDieWithTheirCalls
  BY DEF SafetyInv
<1> QED
  BY <1>1, SafetyHolds, PTL

\* Nor does a card outlive its caller, as long as the native port is not lost
\* (background.ts agent-browser-cancelled, finishAgentBrowserRequest).
THEOREM NothingOutlives == "port lost" \notin Events => (Spec => []NothingOutlivesItsCall)
<1>1. ASSUME "port lost" \notin Events
      PROVE  Spec => []NothingOutlivesItsCall
  <2>1. SafetyInv => NothingOutlivesItsCall
    BY <1>1, OpenCardHasCaller DEF SafetyInv, ConsentInv, NothingOutlivesItsCall
  <2> QED
    BY <2>1, SafetyHolds, PTL
<1> QED
  BY <1>1

\* The re-run of an allowed call finds the offer of its grant, although the
\* offer goes ahead of it through the channel and the operation may wait for a
\* document (background.ts askPerson before settleApproval, offscreen.ts).
THEOREM GrantsFound == Spec => []GrantFindsItsOffer
<1>1. SafetyInv => GrantFindsItsOffer
  BY ReadyIsFound DEF SafetyInv
<1> QED
  BY <1>1, SafetyHolds, PTL

\* The debugger's count of a tab is the number of its calls and cards, so it is
\* detached when the last of them ends and not before (background.ts
\* debuggerBusy, debuggerIdle).
THEOREM BusyCounts == Spec => []BusyCountsWork
<1>1. SafetyInv => BusyCountsWork
  BY DEF SafetyInv
<1> QED
  BY <1>1, SafetyHolds, PTL


-----------------------------------------------------------------------------
(* What the person was promised *)

\* The card of a call as module Consent sees it, and what acting calls did.
CardOf ==
  [c \in Calls |-> IF decision[c] = "none" THEN <<>> ELSE <<tabOf[c], cardPage[c]>>]

\* The runs of acting calls, as the abstract specification sees them.
Done ==
  {[call |-> r.call, tab |-> r.tab, page |-> r.page] : r \in {r \in ran : r.call \in Acting}}

\* A card that a step does not open stays as it was.
LEMMA CardsStay ==
  ASSUME TypeInv, CardsKept, \A c \in Calls : decision[c] = "none" <=> decision'[c] = "none"
  PROVE  CardOf' = CardOf
<1>1. \A c \in Calls : decision[c] # "none" => tabOf'[c] = tabOf[c] /\ cardPage'[c] = cardPage[c]
  BY Types, ConstantsAssumption DEF CardsKept, CallsHaveTabs
<1> QED
  BY <1>1 DEF CardOf

\* What a step of the background makes of the cards.
LEMMA DecisionsMove ==
  ASSUME TypeInv, CardsFollowCalls, BackgroundSteps
  PROVE  \/ UNCHANGED decision
         \/ \E c \in Calls, r \in replies : AskPerson(c, r)
         \/ \E c \in OpenCards, answer \in Allowing : decision' = [decision EXCEPT ![c] = answer]
         \/ \E ended \in SUBSET OpenCards, ending \in Refusing :
              decision' = [c \in Calls |-> IF c \in ended THEN ending ELSE decision[c]]
<1> DEFINE Ending ==
             \E ended \in SUBSET OpenCards, ending \in Refusing :
               decision' = [c \in Calls |-> IF c \in ended THEN ending ELSE decision[c]]
<1>1. ASSUME NEW c \in OpenCards, NEW ending \in Refusing,
             decision' = [decision EXCEPT ![c] = ending]
      PROVE  Ending
  <2>1. decision \in [Calls -> {"none", "open"} \cup Allowing \cup Refusing]
    BY Types
  <2>2. decision' = [d \in Calls |-> IF d \in {c} THEN ending ELSE decision[d]]
    BY <1>1, <2>1
  <2>3. {c} \in SUBSET OpenCards
    OBVIOUS
  <2> QED
    BY <2>2, <2>3
<1>2. ASSUME NEW c \in Calls, Routes(c) \/ Prepares(c) \/ CallTimeoutStep(c)
      PROVE  UNCHANGED decision
  BY <1>2 DEF Routes, RouteRefused, RouteWhileDeciding, RouteToTab, Prepares, SendOperation,
              DropCancelled, HostUnavailable, FinishRun, CallTimeoutStep, CallTimeout, asking
<1>3. ASSUME NEW c \in Calls, HostReplies(c)
      PROVE  UNCHANGED decision \/ \E r \in replies : AskPerson(c, r)
  BY <1>3 DEF HostReplies, HostAnswered, FinishRun, asking
<1>4. ASSUME NEW c \in Calls, ExpireStep(c) \/ DenyStep(c)
      PROVE  Ending
  <2>1. PICK ending \in Refusing : Refuse(c, ending)
    BY <1>4 DEF ExpireStep, Expire, DenyStep, Deny, Refusing
  <2> QED
    BY <1>1, <2>1 DEF Refuse
<1>5. ASSUME NEW c \in Calls, NEW answer \in Allowing, AllowStep(c, answer)
      PROVE  c \in OpenCards /\ decision' = [decision EXCEPT ![c] = answer]
  BY <1>5 DEF AllowStep, Allow
<1>6. ASSUME BackgroundReceives
      PROVE  UNCHANGED decision \/ Ending
  <2>1. PICK c \in Calls : ReceiveRequest(c) \/ ReceiveCancelled(c)
    BY <1>6 DEF BackgroundReceives
  <2>2. CASE ReceiveRequest(c)
    BY <2>2 DEF ReceiveRequest, asking
  <2>3. CASE ReceiveCancelled(c)
    <3>1. "abandoned" \in Refusing
      BY DEF Refusing
    <3>2. UNCHANGED decision
          \/ (c \in OpenCards /\ decision' = [decision EXCEPT ![c] = "abandoned"])
      BY <2>3 DEF ReceiveCancelled
    <3> QED
      BY <1>1, <3>1, <3>2
  <2> QED
    BY <2>1, <2>2, <2>3
<1>7. ASSUME NEW t \in Tabs, CloseTabStep(t)
      PROVE  Ending
  <2>1. decision' = [c \in Calls |-> IF c \in CardsOn(t) THEN "closed" ELSE decision[c]]
    BY <1>7 DEF CloseTabStep, CloseTab
  <2>2. CardsOn(t) \in SUBSET OpenCards /\ "closed" \in Refusing
    BY DEF CardsOn, Refusing
  <2> QED
    BY <2>1, <2>2
<1> QED
  BY <1>2, <1>3, <1>4, <1>5, <1>6, <1>7 DEF BackgroundSteps, CallStep

\* A step of the background asks, or ends cards as the promise lets it.
LEMMA BackgroundPromised ==
  ASSUME TypeInv, FreshRequests, CardsFollowCalls, Next, BackgroundSteps
  PROVE  \/ UNCHANGED <<decision, CardOf, Done>>
         \/ Promise!Next
<1>1. /\ decision \in [Calls -> {"none", "open"} \cup Allowing \cup Refusing]
      /\ cardPage \in [Calls -> Pages \cup {NoPage}]
  BY Types
<1>2. UNCHANGED Done
  BY StepKinds DEF hostVars, Done
<1>3. CardsKept
  BY StepKeepsCards
<1>4. CASE UNCHANGED decision
  BY <1>2, <1>3, <1>4, CardsStay
<1>5. ASSUME NEW c \in Calls, NEW r \in replies, AskPerson(c, r)
      PROVE  Promise!Next
  <2>1. /\ stage[c] = "sent" /\ tabOf[c] \in Tabs /\ r.page \in Pages
        /\ decision' = [decision EXCEPT ![c] = "open"]
        /\ cardPage' = [cardPage EXCEPT ![c] = r.page]
        /\ UNCHANGED tabOf
        /\ ~Granted(c)
    BY <1>5, Types DEF AskPerson, Asks, CallsHaveTabs, TypeInv, TypeOK, ChannelsTypeOK, Reply
  <2>2. decision[c] = "none"
    BY <2>1 DEF CardsFollowCalls, Granted
  <2>3. CardOf' = [CardOf EXCEPT ![c] = <<tabOf[c], r.page>>]
    BY <1>1, <2>1 DEF CardOf
  <2>4. Promise!Ask(c)
    BY <1>2, <2>1, <2>2, <2>3 DEF Promise!Ask, CardOf, Done
  <2> QED
    BY <2>4 DEF Promise!Next
<1>6. ASSUME NEW c \in OpenCards, NEW answer \in Allowing,
             decision' = [decision EXCEPT ![c] = answer]
      PROVE  Promise!Next
  <2>1. c \in Calls /\ decision[c] = "open" /\ answer # "none"
    BY DEF OpenCards, Allowing
  <2>2. \A d \in Calls : decision[d] = "none" <=> decision'[d] = "none"
    BY <1>1, <1>6, <2>1
  <2>3. CardOf' = CardOf
    BY <1>3, <2>2, CardsStay
  <2>4. Promise!Allow(c)
    BY <1>2, <1>6, <2>1, <2>3 DEF Promise!Allow, Promise!Allowing, Allowing, CardOf, Done
  <2> QED
    BY <2>1, <2>4 DEF Promise!Next
<1>7. ASSUME NEW ended \in SUBSET OpenCards, NEW ending \in Refusing,
             decision' = [c \in Calls |-> IF c \in ended THEN ending ELSE decision[c]]
      PROVE  Promise!Next
  <2>1. ending # "none" /\ \A c \in ended : decision[c] = "open"
    BY DEF OpenCards, Refusing
  <2>2. \A d \in Calls : decision[d] = "none" <=> decision'[d] = "none"
    BY <1>1, <1>7, <2>1
  <2>3. CardOf' = CardOf
    BY <1>3, <2>2, CardsStay
  <2>4. ended \in SUBSET {c \in Calls : decision[c] = "open"}
    BY DEF OpenCards
  <2>5. Promise!Refuse
    BY <1>2, <1>7, <2>3, <2>4 DEF Promise!Refuse, Promise!Refusing, Refusing, CardOf, Done
  <2> QED
    BY <2>5 DEF Promise!Next
<1> QED
  BY <1>4, <1>5, <1>6, <1>7, DecisionsMove

\* By whose leave an acting call is started.
LEMMA StartsBy ==
  ASSUME TypeInv, NEW t \in Tabs, Executes(t), Starts(t), Current(t).call \in Acting
  PROVE  \E p : ran' = ran \cup {[call |-> Current(t).call, tab |-> t, page |-> p,
                                  by |-> IF Current(t).grant THEN "grant" ELSE "allowance"]}
<1>1. phase'[t] = "running" /\ ~Runs(t)
  BY Types DEF Starts
<1>2. \A a : ~Return(t, a)
  BY <1>1, Types DEF Return
<1>3. ~Begins(t)
  BY <1>1, <1>2, Types
     DEF Begins, BeginCancelled, BeginWithoutOffer, BeginHeld, Begin, ReturnNotRun
<1>4. ~Checks(t)
  BY <1>1, <1>2, Types
     DEF Checks, CheckReading, CheckAllowed, CheckMismatch, CheckRefused, ReturnNotRun
<1>5. ~Fails(t) /\ ~Finishes(t)
  BY <1>2 DEF Fails, Unreachable, Finishes, Finish, ReturnNotRun
<1>6. Confirm(t)
  BY <1>2, <1>3, <1>4, <1>5 DEF Executes, Confirms, ConfirmStale, ReturnNotRun
<1> QED
  BY <1>2, <1>6 DEF Confirm, Start, ReturnNotRun

\* A call that starts acts as the promise lets it, and for the first time.
LEMMA StartPromised ==
  ASSUME ConsentInv, ConsentInv', OnePlace, GrantsMatch, SpentOnce, NEW t \in Tabs, Executes(t),
         Starts(t), UNCHANGED <<decision, CardOf>>
  PROVE  UNCHANGED Done \/ Promise!Next
<1> USE DEF ConsentInv, OnTheWay
<1>0. PICK c : c = Current(t).call
  OBVIOUS
<1>1. /\ queue[t] # <<>> /\ ~Runs(t)
      /\ UNCHANGED <<tabOf, cardPage, decision>>
  BY ExecutesMeans DEF Starts, HostOnly, backgroundVars, routing, asking
<1>2. c \in Calls /\ c \in CallsOf(queue[t]) /\ Current(t) \in Members(queue[t])
  BY <1>0, <1>1, CurrentInHand, CurrentQueued
<1>3. CASE c \notin Acting
  <2>1. PICK p, by : ran' = ran \cup {[call |-> c, tab |-> t, page |-> p, by |-> by]}
    BY <1>0 DEF Starts
  <2>2. {r \in ran' : r.call \in Acting} = {r \in ran : r.call \in Acting}
    BY <1>3, <2>1
  <2> QED
    BY <2>2 DEF Done
<1>4. CASE c \in Acting
  <2>1. PICK p : ran' = ran \cup {[call |-> c, tab |-> t, page |-> p,
                                   by |-> IF Current(t).grant THEN "grant" ELSE "allowance"]}
    BY <1>0, <1>4, StartsBy
  <2>2. PICK r : r = [call |-> c, tab |-> t, page |-> p,
                      by |-> IF Current(t).grant THEN "grant" ELSE "allowance"]
    OBVIOUS
  <2>3. /\ r \in ran' /\ ran' = ran \cup {r}
        /\ r.call = c /\ r.tab = t /\ r.page = p
        /\ r.by = "grant" <=> Current(t).grant
        /\ r.by = "allowance" <=> ~Current(t).grant
    BY <2>1, <2>2
  <2>4. p \in Pages
    <3>1. ran' \subseteq Run
      BY DEF TypeInv, TypeOK, HostTypeOK
    <3> QED
      BY <2>3, <3>1 DEF Run
  <2>5. Done' = Done \cup {[call |-> c, tab |-> t, page |-> p]}
    BY <1>4, <2>3 DEF Done
  <2>6. ~Spent(c)
    BY <1>0, <1>1, <1>2 DEF SpentOnce
  <2>7. \A d \in Done : d.call # c
    BY <2>6 DEF Done, Spent
  <2>8. \/ /\ Current(t).grant
           /\ decision[c] \in Allowing
           /\ tabOf[c] = t
           /\ cardPage[c] = p
        \/ /\ ~Current(t).grant
           /\ <<c, p>> \notin OnceOnly
           /\ TaskOf[c] # NoTask
           /\ \E d \in Calls :
                /\ decision[d] = "allow-origin"
                /\ TaskOf[d] = TaskOf[c]
                /\ tabOf[d] = t
                /\ <<d, cardPage[d]>> \notin OnceOnly
                /\ ActionOrigin[d][cardPage[d]] = ActionOrigin[c][p]
    <3>1. ActsOnlyWithConsent'
      OBVIOUS
    <3> QED
      BY <1>1, <1>4, <2>3, <3>1 DEF ActsOnlyWithConsent
  <2>9. Promise!MayAct(c, t, p)
    <3>1. CASE Current(t).grant
      <4>1. CardOf[c] = <<t, p>> /\ decision[c] \in Allowing
        BY <1>2, <2>8, <3>1 DEF CardOf, Allowing
      <4> QED
        BY <4>1 DEF Promise!MayAct, Promise!Allowing, Allowing, CardOf
    <3>2. CASE ~Current(t).grant
      <4>1. decision[c] = "none"
        <5>1. Current(t) \in Placed
          BY <1>2 DEF Placed, Queued
        <5> QED
          BY <1>0, <3>2, <5>1 DEF GrantsMatch
      <4>2. PICK d \in Calls :
              /\ decision[d] = "allow-origin"
              /\ TaskOf[d] = TaskOf[c] /\ TaskOf[c] # NoTask
              /\ tabOf[d] = t
              /\ <<d, cardPage[d]>> \notin OnceOnly
              /\ ActionOrigin[d][cardPage[d]] = ActionOrigin[c][p]
        BY <2>8, <3>2
      <4>3. cardPage[d] \in Pages /\ CardOf[d] = <<t, cardPage[d]>>
        BY <4>2, Types DEF CardOf, CallsHaveTabs
      <4>4. Promise!Allowed(t, TaskOf[c], ActionOrigin[c][p])
        BY <4>2, <4>3 DEF Promise!Allowed, CardOf
      <4> QED
        BY <2>8, <3>2, <4>1, <4>4 DEF Promise!MayAct
    <3> QED
      BY <3>1, <3>2
  <2>10. Promise!Act(c, t, p)
    BY <2>5, <2>7, <2>9 DEF Promise!Act, CardOf, Done
  <2> QED
    BY <1>4, <2>4, <2>10 DEF Promise!Next
<1> QED
  BY <1>3, <1>4

\* Every step of the calls is a step of the promise, or none.
LEMMA StepPromised ==
  ASSUME SafetyInv, SafetyInv', [Next]_vars
  PROVE  [Promise!Next]_<<decision, CardOf, Done>>
<1> USE DEF SafetyInv, ConsentInv
<1>1. CASE UNCHANGED vars
  BY <1>1 DEF vars, backgroundVars, routing, asking, hostVars, CardOf, Done
<1>2. CASE Next /\ BackgroundSteps
  BY <1>2, BackgroundPromised
<1>3. ASSUME UNCHANGED backgroundVars
      PROVE  UNCHANGED <<decision, CardOf>>
  BY <1>3 DEF backgroundVars, routing, asking, CardOf
<1>4. CASE Next /\ OtherSteps
  BY <1>3, <1>4, StepKinds DEF hostVars, Done
<1>5. CASE Next /\ HostSteps
  <2>1. UNCHANGED <<decision, CardOf>>
    BY <1>3, <1>5, StepKinds
  <2>2. ASSUME NEW t \in Tabs, Executes(t), Starts(t)
        PROVE  UNCHANGED Done \/ Promise!Next
    BY <2>1, <2>2, StartPromised
  <2>3. ASSUME NEW t \in Tabs, Executes(t), ~Starts(t)
        PROVE  UNCHANGED ran
    BY <2>3, ExecutesMeans DEF GivesUp, Proceeds, Settles
  <2>4. ASSUME HostReceives \/ \E t \in Tabs : SurfaceStep(t)
        PROVE  UNCHANGED ran
    BY <2>4
       DEF HostReceives, ReceiveOperation, ReceiveOffer, ReceiveRevoke, ReceiveCancel,
           ReceiveSettled, SurfaceStep, SurfaceFound, SurfaceDropped
  <2>5. UNCHANGED Done \/ Promise!Next
    BY <1>5, <2>2, <2>3, <2>4 DEF HostSteps, Done
  <2> QED
    BY <2>1, <2>5
<1> QED
  BY <1>1, <1>2, <1>4, <1>5, StepKinds

\* The companion, the service worker and the host together implement what the
\* person is promised (module Consent): a call asks at most once, its card is decided
\* once, and it acts at most once, with leave for that very action or for its
\* origin, never while its card is open or after it was refused
\* (background.ts askPerson, settleApproval; playwright.ts execute).
THEOREM PromiseKept == Spec => ConsentPromise
<1>1. Init => Promise!Init
  BY DEF Init, BackgroundInit, HostInit, Promise!Init
<1>2. SafetyInv /\ SafetyInv' /\ [Next]_vars => [Promise!Next]_<<decision, CardOf, Done>>
  BY StepPromised
<1> QED
  BY <1>1, <1>2, SafetyHolds, PTL DEF Spec, ConsentPromise, Promise!Spec, CardOf, Done
=============================================================================
