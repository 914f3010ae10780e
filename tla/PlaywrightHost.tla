--------------------------- MODULE PlaywrightHost ---------------------------
(***************************************************************************)
(* The offscreen document (offscreen.ts) and the sandboxed frame it keeps  *)
(* alive, in which Playwright runs an agent's calls (playwright.ts).       *)
(*                                                                         *)
(* The offscreen document hands every message of the background to the     *)
(* frame as it arrives, except an operation on the in-page path, which     *)
(* first waits for the tab's document: what follows it overtakes it there  *)
(* unless it waits for the same document.  Handing a message over and      *)
(* receiving it are one step, since both happen in order.                  *)
(*                                                                         *)
(* Calls on a tab run one at a time; `phase` is where execute stands for   *)
(* the call at the head of the tab's queue, each await being a boundary    *)
(* between two actions.                                                    *)
(***************************************************************************)
EXTENDS CallChannels

VARIABLES
  surfaceWait,      \* per tab, operations waiting in offscreen.ts for the tab's document
  surfaceCancelled, \* of their calls, those the agent stopped waiting for
  queue,            \* per tab, the operations received and not yet answered
  phase,            \* idle | checking | confirming | running | cut
  key,              \* the action a grant allows, while its re-run is checked
  checked,          \* the action the call was found to be
  offers,           \* grants offered and not yet taken or revoked
  awaiting,         \* tabs held for a person's decision
  hostCancelled,    \* calls the agent stopped waiting for, not yet run
  ran,              \* history: what reached a page, and by whose leave
  stopped           \* history: calls whose cancellation the host has handled

executing == <<queue, phase, key, checked>>
hostVars  == <<surfaceWait, surfaceCancelled, executing, offers, awaiting,
               hostCancelled, ran, stopped>>

Phases == {"idle", "checking", "confirming", "running", "cut"}

Run == [call: Calls, tab: Tabs, page: Pages, by: {"reading", "grant", "allowance"}]

HostTypeOK ==
  /\ surfaceWait \in [Tabs -> Seq(Operation)]
  /\ surfaceCancelled \subseteq Calls
  /\ queue \in [Tabs -> Seq(Operation)]
  /\ phase \in [Tabs -> Phases]
  /\ key \in [Tabs -> Pages \cup {NoPage}]
  /\ checked \in [Tabs -> Pages \cup {NoPage}]
  /\ offers \subseteq Offer
  /\ awaiting \subseteq Tabs
  /\ hostCancelled \subseteq Calls
  /\ ran \subseteq Run
  /\ stopped \subseteq Calls

HostInit ==
  /\ surfaceWait = [t \in Tabs |-> <<>>]
  /\ surfaceCancelled = {}
  /\ queue = [t \in Tabs |-> <<>>]
  /\ phase = [t \in Tabs |-> "idle"]
  /\ key = [t \in Tabs |-> NoPage]
  /\ checked = [t \in Tabs |-> NoPage]
  /\ offers = {}
  /\ awaiting = {}
  /\ hostCancelled = {}
  /\ ran = {}
  /\ stopped = {}

CallsIn(q) == {q[i].call : i \in DOMAIN q}

\* offscreen.ts routingCalls, and inFlight: from queueing until the answer.
WaitingForSurface == UNION {CallsIn(surfaceWait[t]) : t \in Tabs}
InFlight == UNION {CallsIn(queue[t]) : t \in Tabs}

\* running: the tab on which a call's tool is being called.
RunningTabs(c) ==
  {t \in Tabs : phase[t] \in {"running", "cut"} /\ Head(queue[t]).call = c}

Receive(m) ==
  /\ toHost # <<>>
  /\ m = Head(toHost)
  /\ toHost' = Tail(toHost)

-----------------------------------------------------------------------------
(* Messages *)

ReceiveOperation(m) ==
  /\ Receive(m)
  /\ m.type = "operation"
  /\ IF m.via = "debugger"
     THEN /\ queue' = [queue EXCEPT ![m.tab] = Append(@, m)]
          /\ UNCHANGED surfaceWait
     ELSE /\ surfaceWait' = [surfaceWait EXCEPT ![m.tab] = Append(@, m)]
          /\ UNCHANGED queue
  /\ UNCHANGED <<replies, surfaceCancelled, phase, key, checked, offers, awaiting,
                 hostCancelled, ran, stopped>>

\* The tab's document is there, or did not come in 5 s: the host queues the call.
SurfaceFound(t) ==
  LET m == Head(surfaceWait[t]) IN
  /\ surfaceWait[t] # <<>>
  /\ m.call \notin surfaceCancelled
  /\ surfaceWait' = [surfaceWait EXCEPT ![t] = Tail(@)]
  /\ queue' = [queue EXCEPT ![t] = Append(@, m)]
  /\ UNCHANGED <<hostChannels, surfaceCancelled, phase, key, checked, offers,
                 awaiting, hostCancelled, ran, stopped>>

\* A call cancelled meanwhile never reaches the host.
SurfaceDropped(t) ==
  LET m == Head(surfaceWait[t]) IN
  /\ surfaceWait[t] # <<>>
  /\ m.call \in surfaceCancelled
  /\ surfaceWait' = [surfaceWait EXCEPT ![t] = Tail(@)]
  /\ surfaceCancelled' = surfaceCancelled \ {m.call}
  /\ replies' = replies \cup {[call |-> m.call, kind |-> "notRun"]}
  /\ UNCHANGED <<toHost, executing, offers, awaiting, hostCancelled, ran, stopped>>

ReceiveOffer(m) ==
  /\ Receive(m)
  /\ m.type = "grant-offer"
  /\ offers' = offers \cup {m}
  /\ UNCHANGED <<replies, surfaceWait, surfaceCancelled, executing, awaiting,
                 hostCancelled, ran, stopped>>

ReceiveRevoke(m) ==
  /\ Receive(m)
  /\ m.type = "grant-revoke"
  /\ offers' = {o \in offers : o.call # m.call}
  /\ UNCHANGED <<replies, surfaceWait, surfaceCancelled, executing, awaiting,
                 hostCancelled, ran, stopped>>

\* A call whose tool is being called is cut off; one in flight is marked.
ReceiveCancel(m) ==
  LET c == m.call IN
  /\ Receive(m)
  /\ m.type = "operation-cancel"
  /\ surfaceCancelled' = IF c \in WaitingForSurface
                         THEN surfaceCancelled \cup {c} ELSE surfaceCancelled
  /\ phase' = [t \in Tabs |-> IF t \in RunningTabs(c) THEN "cut" ELSE phase[t]]
  /\ hostCancelled' = IF c \in InFlight /\ RunningTabs(c) = {}
                      THEN hostCancelled \cup {c} ELSE hostCancelled
  /\ stopped' = stopped \cup {c}
  /\ UNCHANGED <<replies, surfaceWait, queue, key, checked, offers, awaiting, ran>>

ReceiveSettled(m) ==
  /\ Receive(m)
  /\ m.type \in {"approval-settled", "tab-closed"}
  /\ awaiting' = awaiting \ {m.tab}
  /\ UNCHANGED <<replies, surfaceWait, surfaceCancelled, executing, offers,
                 hostCancelled, ran, stopped>>

-----------------------------------------------------------------------------
(* execute, for the call at the head of tab t's queue *)

Current(t) == Head(queue[t])

\* execute returns: the tab's next call may begin.
Return(t, answer) ==
  /\ replies' = replies \cup {answer}
  /\ queue' = [queue EXCEPT ![t] = Tail(@)]
  /\ phase' = [phase EXCEPT ![t] = "idle"]
  /\ key' = [key EXCEPT ![t] = NoPage]
  /\ checked' = [checked EXCEPT ![t] = NoPage]
  /\ hostCancelled' = hostCancelled \ {Current(t).call}

ReturnNotRun(t) == Return(t, [call |-> Current(t).call, kind |-> "notRun"])

MayBegin(t) == phase[t] = "idle" /\ queue[t] # <<>>

\* The offer a granted call names, valid on its own tab only.
OfferOf(m) == {o \in offers : o.call = m.call /\ o.tab = m.tab}

BeginCancelled(t) ==
  /\ MayBegin(t)
  /\ Current(t).call \in hostCancelled
  /\ ReturnNotRun(t)
  /\ UNCHANGED <<toHost, surfaceWait, surfaceCancelled, offers, awaiting, ran, stopped>>

\* A grant whose offer was revoked, or that was never offered for this tab.
BeginWithoutOffer(t) ==
  /\ MayBegin(t)
  /\ Current(t).call \notin hostCancelled
  /\ Current(t).grant
  /\ OfferOf(Current(t)) = {}
  /\ offers' = {o \in offers : o.call # Current(t).call}
  /\ ReturnNotRun(t)
  /\ UNCHANGED <<toHost, surfaceWait, surfaceCancelled, awaiting, ran, stopped>>

\* A call queued before the card appeared is refused while the person decides.
BeginHeld(t) ==
  /\ MayBegin(t)
  /\ Current(t).call \notin hostCancelled
  /\ ~Current(t).grant
  /\ t \in awaiting
  /\ ReturnNotRun(t)
  /\ UNCHANGED <<toHost, surfaceWait, surfaceCancelled, offers, awaiting, ran, stopped>>

\* The call is connected to the page; a grant is taken and the hold ends.
Begin(t) ==
  LET m == Current(t) IN
  /\ MayBegin(t)
  /\ m.call \notin hostCancelled
  /\ phase' = [phase EXCEPT ![t] = "checking"]
  /\ \/ /\ ~m.grant
        /\ t \notin awaiting
        /\ UNCHANGED <<key, offers, awaiting>>
     \/ /\ m.grant
        /\ \E o \in OfferOf(m) : key' = [key EXCEPT ![t] = o.page]
        /\ offers' = {o \in offers : o.call # m.call}
        /\ awaiting' = awaiting \ {t}
  /\ UNCHANGED <<hostChannels, surfaceWait, surfaceCancelled, queue, checked,
                 hostCancelled, ran, stopped>>

\* The page is not reachable, the policy refuses the call outright, or the
\* tab could not be confirmed.
Unreachable(t) ==
  /\ phase[t] \in {"checking", "confirming"}
  /\ t \notin openTabs \/ "unreachable" \in Events
  /\ ReturnNotRun(t)
  /\ UNCHANGED <<toHost, surfaceWait, surfaceCancelled, offers, awaiting, ran, stopped>>

\* The last test before the tool is called: cancelled.delete(id).
Start(t, by, p) ==
  LET c == Current(t).call IN
  \/ /\ c \in hostCancelled
     /\ ReturnNotRun(t)
     /\ UNCHANGED <<toHost, surfaceWait, surfaceCancelled, offers, awaiting, ran, stopped>>
  \/ /\ c \notin hostCancelled
     /\ phase' = [phase EXCEPT ![t] = "running"]
     /\ checked' = [checked EXCEPT ![t] = p]
     /\ ran' = ran \cup {[call |-> c, tab |-> t, page |-> p, by |-> by]}
     /\ UNCHANGED <<hostChannels, surfaceWait, surfaceCancelled, queue, key, offers,
                    awaiting, hostCancelled, stopped>>

\* approvalFor found a reading call: nobody is asked.
CheckReading(t) ==
  /\ phase[t] = "checking"
  /\ t \in openTabs
  /\ Current(t).call \notin Acting
  /\ Start(t, "reading", page[t])

\* Mutant: an allowance covers every action on its origin.
Covered_OnceOnlyToo(m, p) == ActionOrigin[m.call][p] \in m.allowed

Covered(m, p) == <<m.call, p>> \notin OnceOnly /\ ActionOrigin[m.call][p] \in m.allowed

\* The action an acting call would take, p, is the one the grant was given for
\* or is covered by an allowance: the tab is confirmed next.
CheckAllowed(t) ==
  LET m == Current(t)
      p == page[t]
  IN /\ phase[t] = "checking"
     /\ t \in openTabs
     /\ m.call \in Acting
     /\ IF m.grant THEN key[t] = p ELSE Covered(m, p)
     /\ phase' = [phase EXCEPT ![t] = "confirming"]
     /\ checked' = [checked EXCEPT ![t] = p]
     /\ UNCHANGED <<hostChannels, surfaceWait, surfaceCancelled, queue, key, offers,
                    awaiting, hostCancelled, ran, stopped>>

\* The page changed since the card named the action.
CheckMismatch(t) ==
  /\ phase[t] = "checking"
  /\ t \in openTabs
  /\ Current(t).call \in Acting
  /\ Current(t).grant
  /\ key[t] # page[t]
  /\ ReturnNotRun(t)
  /\ UNCHANGED <<toHost, surfaceWait, surfaceCancelled, offers, awaiting, ran, stopped>>

\* The call needs the person: the tab is held and the approval goes back.
CheckRefused(t) ==
  LET m == Current(t)
      p == page[t]
  IN /\ phase[t] = "checking"
     /\ t \in openTabs
     /\ m.call \in Acting
     /\ ~m.grant
     /\ ~Covered(m, p)
     /\ awaiting' = awaiting \cup {t}
     /\ Return(t, [call |-> m.call, kind |-> "approval", page |-> p])
     /\ UNCHANGED <<toHost, surfaceWait, surfaceCancelled, offers, ran, stopped>>

\* stale: the tab is on another site than the one the call was checked on.
ConfirmStale(t) ==
  /\ phase[t] = "confirming"
  /\ t \in openTabs
  /\ OriginOf[page[t]] # OriginOf[checked[t]]
  /\ ReturnNotRun(t)
  /\ UNCHANGED <<toHost, surfaceWait, surfaceCancelled, offers, awaiting, ran, stopped>>

Confirm(t) ==
  /\ phase[t] = "confirming"
  /\ t \in openTabs
  /\ OriginOf[page[t]] = OriginOf[checked[t]]
  /\ Start(t, IF Current(t).grant THEN "grant" ELSE "allowance", checked[t])

\* backend.callTool settled: with the tool's result, an error, or cut off.
Finish(t) ==
  /\ phase[t] \in {"running", "cut"}
  /\ Return(t, [call |-> Current(t).call, kind |-> "ran"])
  /\ UNCHANGED <<toHost, surfaceWait, surfaceCancelled, offers, awaiting, ran, stopped>>
=============================================================================
