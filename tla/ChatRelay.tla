------------------------------ MODULE ChatRelay ------------------------------
(***************************************************************************)
(* Requests of the Cloudflare worker to xAI under budgets.                 *)
(*                                                                         *)
(* The rate gate (cloudflare/rate-gate.ts) is the Durable Object that all  *)
(* requests ask for permission: daily budgets, for the service and for     *)
(* each account, and reservations of running chats.  A handler of the      *)
(* object is one step: its input gate lets no other event in while it      *)
(* waits for storage, and it waits for nothing else.                       *)
(*                                                                         *)
(* The relay (worker.ts routeResponses) waits for the gate's grant and     *)
(* then sends the chat to xAI.  A fetch is aborted, its stream included,   *)
(* FetchTimeout after it began; after a 401 the credential is refreshed,   *)
(* within RefreshTimeout, and the chat is sent a second time.  The clock   *)
(* ticks, and the day may change, between any two of these steps.  Of the  *)
(* routes behind acquireDailyGate only what they ask of the gate is here.  *)
(***************************************************************************)
EXTENDS Naturals, FiniteSets

CONSTANTS
  Users,              \* accounts (for "auth": networks)
  Chats,              \* reservation ids
  Kinds,              \* budgets: "chat", "auth" and the daily policies
  UserOf,             \* the account of a chat
  GlobalLimit,        \* of each budget, for the service
  UserLimit,          \* of each budget, for one account
  GlobalConcurrency, UserConcurrency,
  Lease               \* how long a reservation lasts, in ticks

ASSUME GateAssumption ==
  /\ "chat" \in Kinds
  /\ UserOf \in [Chats -> Users]
  /\ GlobalLimit \in [Kinds -> Nat] /\ UserLimit \in [Kinds -> Nat]
  /\ GlobalConcurrency \in Nat /\ UserConcurrency \in Nat
  /\ Lease \in Nat \ {0}
  /\ IsFiniteSet(Chats)

VARIABLES
  today, \* the current UTC day
  gate   \* what the object stores; a lease is the ticks its reservation has left

Counters == [global: [Kinds -> Nat], users: [Kinds -> [Users -> Nat]]]

GateState == [day: Nat, count: Counters, leases: [Chats -> 0..Lease]]

NoCounts ==
  [global |-> [k \in Kinds |-> 0], users |-> [k \in Kinds |-> [u \in Users |-> 0]]]

GateInit ==
  /\ today = 0
  /\ gate = [day |-> 0, count |-> NoCounts, leases |-> [c \in Chats |-> 0]]

\* Mutant: reservations do not outlive their day.
Loaded_DropsLeases ==
  IF gate.day = today THEN gate
  ELSE [day |-> today, count |-> NoCounts, leases |-> [c \in Chats |-> 0]]

\* What a handler works on: counters are of today, reservations go on.
Loaded ==
  IF gate.day = today THEN gate
  ELSE [day |-> today, count |-> NoCounts, leases |-> gate.leases]

\* Reservations that have not expired.
Held == {c \in Chats : gate.leases[c] > 0}

HeldBy(u) == {c \in Held : UserOf[c] = u}

Counted(n, k, u) ==
  [global |-> [n.global EXCEPT ![k] = @ + 1],
   users  |-> [n.users EXCEPT ![k][u] = @ + 1]]

WithinBudget(k, u) ==
  /\ Loaded.count.global[k] < GlobalLimit[k]
  /\ Loaded.count.users[k][u] < UserLimit[k]

RoomForChat(u) ==
  /\ Cardinality(Held) < GlobalConcurrency
  /\ Cardinality(HeldBy(u)) < UserConcurrency

\* Mutant: the reservation outlasts its time.
AcquireChat_LongLease(c) ==
  LET u == UserOf[c] IN
  /\ WithinBudget("chat", u)
  /\ RoomForChat(u)
  /\ gate' = [Loaded EXCEPT !.count = Counted(@, "chat", u), !.leases[c] = Lease + 1]

\* /acquire-chat, granted; a refusal stores nothing.
AcquireChat(c) ==
  LET u == UserOf[c] IN
  /\ WithinBudget("chat", u)
  /\ RoomForChat(u)
  /\ gate' = [Loaded EXCEPT !.count = Counted(@, "chat", u), !.leases[c] = Lease]

\* /acquire-media and its like, and /auth-start, granted.
AcquireDaily(k, u) ==
  /\ k # "chat"
  /\ WithinBudget(k, u)
  /\ gate' = [Loaded EXCEPT !.count = Counted(@, k, u)]

\* /release-chat
ReleaseChat(c) == gate' = [Loaded EXCEPT !.leases[c] = 0]

\* Mutant: reservations do not expire.
LeasesRunDown_Never == UNCHANGED gate

LeasesRunDown ==
  gate' = [gate EXCEPT !.leases = [c \in Chats |-> IF @[c] > 0 THEN @[c] - 1 ELSE 0]]

(***************************************************************************)
(* The chat relay                                                          *)
(***************************************************************************)

CONSTANTS
  GrantDelay,                   \* within which a grant reaches the worker, in ticks
  FetchTimeout, RefreshTimeout, \* in ticks
  MaxDay,                       \* bound: days that are observed
  ChatEvents                    \* events that may happen: "401", "crash"

\* 2 min and 15 s of the 3 min of a lease: the rest is for the grant to arrive.
ASSUME RelayAssumption ==
  /\ GrantDelay \in Nat
  /\ FetchTimeout \in Nat \ {0} /\ RefreshTimeout \in Nat \ {0}
  /\ GrantDelay + FetchTimeout + RefreshTimeout < Lease
  /\ MaxDay \in Nat

VARIABLES
  chat,   \* how far each request is, and how long until it is aborted
  sentToday \* history: how often a chat was sent to xAI today, in all and by whom

chatVars == <<today, gate, chat, sentToday>>

\* granted: the gate has admitted it, the worker has not sent it.
\* first, second: a fetch or its stream is open at xAI.  renewing: between them.
\* releasing: the answer is over, the reservation is not yet given back.
ChatState ==
  [phase: {"idle", "granted", "first", "renewing", "second", "releasing"},
   left: 0..(GrantDelay + FetchTimeout + RefreshTimeout)]

SendCounts == [all: Nat, by: [Users -> Nat]]

NothingSent == [all |-> 0, by |-> [u \in Users |-> 0]]

SentBy(n, u) == [all |-> n.all + 1, by |-> [n.by EXCEPT ![u] = @ + 1]]

ChatTypeOK ==
  /\ today \in 0..MaxDay
  /\ gate \in GateState
  /\ chat \in [Chats -> ChatState]
  /\ sentToday \in SendCounts

Idle == [phase |-> "idle", left |-> 0]

ChatInit ==
  /\ GateInit
  /\ chat = [c \in Chats |-> Idle]
  /\ sentToday = NothingSent

Goes(c, phase, left) == chat' = [chat EXCEPT ![c] = [phase |-> phase, left |-> left]]

\* The gate admits a chat.  Its reservation id is a new one.
StartChat(c) ==
  /\ chat[c].phase = "idle" /\ gate.leases[c] = 0
  /\ AcquireChat(c)
  /\ Goes(c, "granted", GrantDelay)
  /\ UNCHANGED <<today, sentToday>>

\* The grant reaches the worker, which sends the chat.
SendChat(c) ==
  /\ chat[c].phase = "granted"
  /\ Goes(c, "first", FetchTimeout)
  /\ sentToday' = SentBy(sentToday, UserOf[c])
  /\ UNCHANGED <<today, gate>>

\* Mutant: every refusal of the token is answered with another fetch.
Unauthorized_Every(c) ==
  /\ "401" \in ChatEvents
  /\ chat[c].phase \in {"first", "second"}
  /\ Goes(c, "renewing", RefreshTimeout)
  /\ UNCHANGED <<today, gate, sentToday>>

\* xAI refuses the token: the session is asked to refresh it.
Unauthorized(c) ==
  /\ "401" \in ChatEvents
  /\ chat[c].phase = "first"
  /\ Goes(c, "renewing", RefreshTimeout)
  /\ UNCHANGED <<today, gate, sentToday>>

\* The chat is sent again, without asking the gate.
TokenRenewed(c) ==
  /\ chat[c].phase = "renewing"
  /\ Goes(c, "second", FetchTimeout)
  /\ sentToday' = SentBy(sentToday, UserOf[c])
  /\ UNCHANGED <<today, gate>>

\* The answer's stream ends or is cancelled, the fetch fails or is aborted, or
\* the token cannot be refreshed.
Finish(c) ==
  /\ chat[c].phase \in {"first", "renewing", "second"}
  /\ Goes(c, "releasing", 0)
  /\ UNCHANGED <<today, gate, sentToday>>

ReleaseSlot(c) ==
  /\ chat[c].phase = "releasing"
  /\ ReleaseChat(c)
  /\ Goes(c, "idle", 0)
  /\ UNCHANGED <<today, sentToday>>

\* The worker goes away with its request: nothing is released.
Crash(c) ==
  /\ "crash" \in ChatEvents
  /\ chat[c].phase # "idle"
  /\ Goes(c, "idle", 0)
  /\ UNCHANGED <<today, gate, sentToday>>

\* A media start, a web fetch, a telemetry upload or a sign-in is admitted.
StartDaily(k, u) ==
  /\ AcquireDaily(k, u)
  /\ UNCHANGED <<today, chat, sentToday>>

Timed(c) == chat[c].phase \in {"granted", "first", "renewing", "second"}

\* A tick passes.  What has timed out is aborted before the next one does.
Tick ==
  /\ \A c \in Chats : Timed(c) => chat[c].left > 0
  /\ LeasesRunDown
  /\ chat' = [c \in Chats |->
       IF Timed(c) THEN [chat[c] EXCEPT !.left = @ - 1] ELSE chat[c]]
  /\ UNCHANGED <<today, sentToday>>

NewDay ==
  /\ today < MaxDay
  /\ today' = today + 1
  /\ sentToday' = NothingSent
  /\ UNCHANGED <<gate, chat>>

ChatStep(c) ==
  \/ StartChat(c) \/ SendChat(c) \/ Unauthorized(c) \/ TokenRenewed(c)
  \/ Finish(c) \/ ReleaseSlot(c) \/ Crash(c)

ChatNext ==
  \/ \E c \in Chats : ChatStep(c)
  \/ \E k \in Kinds, u \in Users : StartDaily(k, u)
  \/ Tick
  \/ NewDay

\* Time passes: the clock never waits for the program, a grant arrives, and a
\* timeout fires.
Fairness ==
  /\ WF_chatVars(Tick)
  /\ \A c \in Chats : WF_chatVars(SendChat(c)) /\ WF_chatVars(Finish(c))

ChatSpec == ChatInit /\ [][ChatNext]_chatVars

ChatFairSpec == ChatSpec /\ Fairness

-----------------------------------------------------------------------------
\* A chat that was admitted is sent at most twice, and only chats that hold a
\* reservation at midnight are sent on a day that did not count them.  So xAI
\* gets, within one UTC day, at most twice the day's budget of chats and twice
\* those that may run at once, of the service and of each account, however the
\* grants, the fetches, the retries after a 401, lost workers and midnight
\* interleave (rate-gate.ts load, worker.ts routeResponses).
DailyBudget ==
  /\ sentToday.all <= 2 * (GlobalLimit["chat"] + GlobalConcurrency)
  /\ \A u \in Users : sentToday.by[u] <= 2 * (UserLimit["chat"] + UserConcurrency)

FirstAttempts == {c \in Chats : chat[c].phase = "first"}

WithinConcurrency(S) ==
  /\ Cardinality(S) <= GlobalConcurrency
  /\ \A u \in Users : Cardinality({c \in S : UserOf[c] = u}) <= UserConcurrency

\* No more first fetches are open at xAI than the service and an account may
\* have: a reservation outlives the fetch it was made for, whether it is given
\* back, expires or is left by a worker that went away (RESERVATION_LEASE_MS).
FirstAttemptsWithinBudget == WithinConcurrency(FirstAttempts)

\* A reservation left by a worker that went away does not keep its account out
\* for ever (RESERVATION_LEASE_MS).
SlotComesBack ==
  \A c \in Chats :
    gate.leases[c] > 0 /\ chat[c].phase = "idle"
      ~> gate.leases[c] = 0 \/ chat[c].phase # "idle"
=============================================================================
