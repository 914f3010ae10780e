------------------------------- MODULE McpAuth -------------------------------
(***************************************************************************)
(* How calls of an MCP server that wants OAuth come by a token             *)
(* (grok-build-mcp-oauth.ts with its browser, dialog, discovery and store  *)
(* modules, and the retry in grok-build-mcp-protocol.ts).                  *)
(*                                                                         *)
(* A call first takes the stored token; one that is refused asks for a new *)
(* one, by a refresh or by a dialog with the person.  Calls of one client  *)
(* join the preparation under way; those of other tabs wait for a lock.    *)
(* The person's own "Authenticate" does neither.  The provider replaces a  *)
(* refresh token each time it is used.                                     *)
(***************************************************************************)
EXTENDS Naturals, FiniteSets

CONSTANTS McpRequests,   \* calls of the server
          MaxIssued,     \* bound: tokens the provider issues
          MaxAuthFaults, \* bound: requests without an answer, dialogs that fail, calls stopped, tokens that end
          MaxSeconds     \* bound: seconds that pass

ASSUME McpAuthAssumption ==
  /\ MaxIssued \in Nat \ {0} /\ {MaxAuthFaults, MaxSeconds} \subseteq Nat
  /\ McpRequests \cap {"user", "nobody"} = {}

McpTabs == {"here", "there"}
Preparers == McpRequests \cup {"user"}

VARIABLES
  call,      \* where each call or preparation stands
  pendingOf, \* the preparation the calls of a tab join
  scoped,    \* tabs whose client was told of the missing scope
  anonymous, \* tabs whose client found no authorization support
  holder,    \* who has the lock
  kept,      \* the stored credentials
  provider,  \* tokens issued, refresh tokens and access tokens that are good
  second,    \* the clock
  lostIn,    \* history: refresh tokens replaced by an answer that was lost
  reused,    \* history: a replaced refresh token was sent whose answer had come
  latest,    \* history: when the newest stored token was received
  overlapped,\* history: the person's preparation ran beside another
  spentAuth

tabVarsOf == <<pendingOf, scoped, anonymous, holder>>
authHistory == <<lostIn, reused, latest, overlapped>>
mcpAuthVars == <<call, tabVarsOf, kept, provider, second, authHistory, spentAuth>>

Nobody == "nobody"
NoToken == [n |-> 0, wide |-> FALSE, at |-> 0, stale |-> TRUE]
NewCall == [at |-> "idle", tab |-> "here", forced |-> FALSE, on |-> Nobody, token |-> NoToken, wide |-> FALSE, asked |-> FALSE]

GoesWrong == spentAuth < MaxAuthFaults /\ spentAuth' = spentAuth + 1

Preparing(p) == call[p].at \in {"refresh", "discover", "dialog", "save"}

-----------------------------------------------------------------------------
(***************************************************************************)
(* The token a preparation finds, and its end                              *)
(***************************************************************************)

Usable(token) == token # NoToken /\ ~token.stale
NeedsScopes(p) == call[p].tab \in scoped /\ ~kept.wide

\* Scopes are chosen when the metadata is at hand, before anyone is asked.
Asking(c, p) == [c EXCEPT ![p].at = "dialog", ![p].token = NoToken, ![p].wide = call[p].tab \in scoped]

\* A preparation ends: its call and those that joined it go on with what it returned, or fail.
Concludes(p, at, token) ==
  /\ call' = [q \in Preparers |->
                IF q = p \/ (call[q].at = "joined" /\ call[q].on = p)
                  THEN IF q = "user" \/ at = "over" THEN [NewCall EXCEPT !.at = "over"]
                       ELSE [NewCall EXCEPT !.at = at, !.tab = call[q].tab, !.token = token, !.forced = call[q].forced]
                  ELSE call[q]]
  /\ pendingOf' = [tab \in McpTabs |-> IF pendingOf[tab] = p THEN Nobody ELSE pendingOf[tab]]
  /\ holder' = IF holder = p THEN Nobody ELSE holder

GivesUp(p) == Concludes(p, "over", NoToken)

\* The start of prepare: a good token is returned, an old one refreshed, without one the server is asked.
Loads(p, forced) ==
  CASE Usable(kept) /\ ~forced -> Concludes(p, "post", kept)
    [] ~(Usable(kept) /\ ~forced) /\ kept # NoToken /\ ~NeedsScopes(p) ->
         call' = [call EXCEPT ![p].at = "refresh", ![p].token = kept, ![p].forced = forced]
    [] ~(Usable(kept) /\ ~forced) /\ kept # NoToken /\ NeedsScopes(p) ->
         call' = Asking([call EXCEPT ![p].forced = forced], p)
    [] OTHER -> call' = [call EXCEPT ![p].at = "discover", ![p].forced = forced]

-----------------------------------------------------------------------------
(***************************************************************************)
(* Asking for a token                                                      *)
(***************************************************************************)

\* accessToken, before a call is sent from this tab.
AsksToken(r, tab) ==
  /\ call[r].at = "idle"
  /\ CASE tab \in anonymous -> call' = [call EXCEPT ![r].at = "post", ![r].tab = tab] /\ UNCHANGED pendingOf
       [] tab \notin anonymous /\ pendingOf[tab] # Nobody ->
            call' = [call EXCEPT ![r].at = "joined", ![r].tab = tab, ![r].on = pendingOf[tab]] /\ UNCHANGED pendingOf
       [] OTHER -> /\ call' = [call EXCEPT ![r].at = "lock", ![r].tab = tab]
                   /\ pendingOf' = [pendingOf EXCEPT ![tab] = r]
  /\ UNCHANGED <<scoped, anonymous, holder, kept, provider, second, authHistory, spentAuth>>

HasLock(r) ==
  /\ \/ Usable(kept) /\ ~call[r].forced /\ Loads(r, FALSE)
     \/ ~(Usable(kept) /\ ~call[r].forced) /\ Loads(r, call[r].forced) /\ UNCHANGED pendingOf /\ holder' = r
  /\ overlapped' = (overlapped \/ (Preparing("user") /\ (call[r].forced \/ ~Usable(kept))))
  /\ UNCHANGED <<scoped, anonymous, kept, provider, second, lostIn, reused, latest, spentAuth>>

\* As TakesLock, but a call that was refused does not wait for it.
TakesLock_Unforced(r) == call[r].at = "lock" /\ (holder = Nobody \/ call[r].forced) /\ HasLock(r)

\* One preparation at a time in all tabs.
TakesLock(r) == call[r].at = "lock" /\ holder = Nobody /\ HasLock(r)

\* forceReauth: the person's own sign-in neither joins nor waits.
ForceReauth ==
  /\ call["user"].at = "idle"
  /\ Loads("user", TRUE)
  /\ pendingOf' = [pendingOf EXCEPT !["here"] = "user"]
  /\ anonymous' = anonymous \ {"here"}
  /\ overlapped' = (overlapped \/ \E r \in McpRequests : Preparing(r))
  /\ UNCHANGED <<scoped, holder, kept, provider, second, lostIn, reused, latest, spentAuth>>

-----------------------------------------------------------------------------
(***************************************************************************)
(* prepare                                                                 *)
(***************************************************************************)

\* What becomes of a preparation whose refresh failed: a refused call with no answer is not made the person's.
RefreshFailed(p, transient) ==
  IF transient /\ call[p].forced /\ p # "user" THEN GivesUp(p)
  ELSE call' = Asking(call, p) /\ UNCHANGED <<pendingOf, holder>>

Issued(old) ==
  /\ provider.issued < MaxIssued
  /\ provider' = [issued |-> provider.issued + 1, refresh |-> (provider.refresh \ old) \cup {provider.issued + 1},
                  access |-> provider.access \cup {provider.issued + 1}]

Good(p) == call[p].token.n \in provider.refresh

RefreshAnswers(p) ==
  /\ call[p].at = "refresh" /\ Good(p)
  /\ Issued({call[p].token.n})
  /\ call' = [call EXCEPT ![p].at = "save",
                          ![p].token = [@ EXCEPT !.n = provider.issued + 1, !.at = second, !.stale = FALSE]]
  /\ UNCHANGED <<tabVarsOf, kept, second, authHistory, spentAuth>>

RefreshRefused(p) ==
  /\ call[p].at = "refresh" /\ ~Good(p)
  /\ RefreshFailed(p, FALSE)
  /\ reused' = (reused \/ call[p].token.n \notin lostIn)
  /\ UNCHANGED <<scoped, anonymous, kept, provider, second, lostIn, latest, overlapped, spentAuth>>

\* The request or its answer is lost.
RefreshUnanswered(p) ==
  /\ call[p].at = "refresh" /\ GoesWrong
  /\ RefreshFailed(p, TRUE)
  /\ \/ UNCHANGED <<provider, lostIn>>
     \/ Good(p) /\ Issued({call[p].token.n}) /\ lostIn' = lostIn \cup {call[p].token.n}
  /\ UNCHANGED <<scoped, anonymous, kept, second, reused, latest, overlapped>>

\* The server publishes its authorization, or answers and has none, or cannot be asked.
Discovers(p) ==
  /\ call[p].at = "discover"
  /\ call' = Asking(call, p)
  /\ UNCHANGED <<tabVarsOf, kept, provider, second, authHistory, spentAuth>>

DiscoversNothing(p) ==
  /\ call[p].at = "discover" /\ GoesWrong
  /\ Concludes(p, "post", NoToken)
  /\ anonymous' \in {anonymous, anonymous \cup {call[p].tab}}
  /\ UNCHANGED <<scoped, kept, provider, second, authHistory>>

\* The endpoints are not accepted, no client can be registered, the dialog is cancelled, times out or is blocked,
\* it answers with another state or issuer, or the code is not exchanged.
DialogFails(p) ==
  /\ call[p].at = "dialog" /\ GoesWrong
  /\ GivesUp(p)
  /\ UNCHANGED <<scoped, anonymous, kept, provider, second, authHistory>>

\* The person consents at the provider; the code that comes back, of this dialog's state, is exchanged.
PersonConsents(p) ==
  /\ call[p].at = "dialog"
  /\ Issued({})
  /\ call' = [call EXCEPT ![p].at = "save", ![p].asked = TRUE,
                          ![p].token = [n |-> provider.issued + 1, wide |-> call[p].wide, at |-> second, stale |-> FALSE]]
  /\ UNCHANGED <<tabVarsOf, kept, second, authHistory, spentAuth>>

\* As Saves, but whatever is stored is replaced.
Saves_Always(p) ==
  /\ call[p].at = "save"
  /\ kept' = call[p].token
  /\ latest' = IF call[p].token.at > latest THEN call[p].token.at ELSE latest
  /\ scoped' = IF call[p].asked THEN scoped \ {call[p].tab} ELSE scoped
  /\ Concludes(p, "post", call[p].token)
  /\ UNCHANGED <<anonymous, provider, second, lostIn, reused, overlapped, spentAuth>>

\* What is stored stays if it is of a later second; after a consent no scope is missed any more.
Saves(p) ==
  /\ call[p].at = "save"
  /\ kept' = IF kept # NoToken /\ kept.at > call[p].token.at THEN kept ELSE call[p].token
  /\ latest' = IF call[p].token.at > latest THEN call[p].token.at ELSE latest
  /\ scoped' = IF call[p].asked THEN scoped \ {call[p].tab} ELSE scoped
  /\ Concludes(p, "post", call[p].token)
  /\ UNCHANGED <<anonymous, provider, second, lostIn, reused, overlapped, spentAuth>>

-----------------------------------------------------------------------------
(***************************************************************************)
(* The call itself                                                         *)
(***************************************************************************)

Accepted(r) == call[r].token.n \in provider.access

\* The server answers the call, or says that it needs a scope the token lacks.
GetsAnswer(r) ==
  /\ call[r].at = "post" /\ Accepted(r)
  /\ call' = [call EXCEPT ![r] = [NewCall EXCEPT !.at = "over"]]
  /\ UNCHANGED <<tabVarsOf, kept, provider, second, authHistory, spentAuth>>

\* 401, or 403 with the scopes: a new token is made and the call sent once more.
Denied(r) ==
  /\ call[r].at = "post" /\ (~Accepted(r) \/ ~call[r].token.wide) /\ ~call[r].forced
  /\ scoped' = IF Accepted(r) THEN scoped \cup {call[r].tab} ELSE scoped
  /\ call' = [call EXCEPT ![r].at = "lock", ![r].forced = TRUE, ![r].token = NoToken]
  /\ anonymous' = anonymous \ {call[r].tab}
  /\ pendingOf' = [pendingOf EXCEPT ![call[r].tab] = r]
  /\ UNCHANGED <<holder, kept, provider, second, authHistory, spentAuth>>

DeniedAgain(r) ==
  /\ call[r].at = "post" /\ (~Accepted(r) \/ ~call[r].token.wide) /\ call[r].forced
  /\ call' = [call EXCEPT ![r] = [NewCall EXCEPT !.at = "over"]]
  /\ UNCHANGED <<tabVarsOf, kept, provider, second, authHistory, spentAuth>>

\* The person stops the call, or its time is over: its preparation ends with it, also for those that joined.
StopsCall(p) ==
  /\ call[p].at \in {"lock", "refresh", "dialog"} /\ GoesWrong
  /\ GivesUp(p)
  /\ \/ UNCHANGED <<provider, lostIn>>
     \/ call[p].at = "refresh" /\ Good(p) /\ Issued({call[p].token.n}) /\ lostIn' = lostIn \cup {call[p].token.n}
  /\ UNCHANGED <<scoped, anonymous, kept, second, reused, latest, overlapped>>

\* The stored token runs out, or the provider revokes it.
TokenEnds(ranOut) ==
  /\ Usable(kept) /\ GoesWrong
  /\ kept' = [kept EXCEPT !.stale = ranOut]
  /\ provider' = [provider EXCEPT !.access = @ \ {kept.n}]
  /\ UNCHANGED <<call, tabVarsOf, second, authHistory>>

\* A second matters only while a token waits to be stored.
SecondPasses ==
  /\ \E p \in Preparers : call[p].at = "save"
  /\ second < MaxSeconds /\ second' = second + 1
  /\ UNCHANGED <<call, tabVarsOf, kept, provider, authHistory, spentAuth>>

-----------------------------------------------------------------------------
McpAuthInit ==
  /\ call = [p \in Preparers |-> NewCall]
  /\ pendingOf = [tab \in McpTabs |-> Nobody]
  /\ scoped = {} /\ anonymous = {} /\ holder = Nobody
  /\ \/ kept = NoToken /\ provider = [issued |-> 0, refresh |-> {}, access |-> {}]
     \/ kept = [n |-> 1, wide |-> FALSE, at |-> 0, stale |-> TRUE] /\ provider = [issued |-> 1, refresh |-> {1}, access |-> {}]
  /\ second = 0 /\ lostIn = {} /\ reused = FALSE /\ latest = 0 /\ overlapped = FALSE
  /\ spentAuth = 0

Prepares(p) ==
  \/ RefreshAnswers(p) \/ RefreshRefused(p) \/ RefreshUnanswered(p)
  \/ Discovers(p) \/ DiscoversNothing(p) \/ PersonConsents(p) \/ DialogFails(p)
  \/ Saves(p) \/ StopsCall(p)

McpAuthNext ==
  \/ \E r \in McpRequests, tab \in McpTabs : AsksToken(r, tab)
  \/ \E r \in McpRequests : TakesLock(r) \/ GetsAnswer(r) \/ Denied(r) \/ DeniedAgain(r)
  \/ \E p \in Preparers : Prepares(p)
  \/ ForceReauth \/ SecondPasses
  \/ \E ranOut \in BOOLEAN : TokenEnds(ranOut)

McpAuthSpec == McpAuthInit /\ [][McpAuthNext]_mcpAuthVars

-----------------------------------------------------------------------------
Tokens == [n : 0 .. MaxIssued, wide : BOOLEAN, at : 0 .. MaxSeconds, stale : BOOLEAN]

McpAuthTypeOK ==
  /\ call \in [Preparers -> [at : {"idle", "lock", "joined", "refresh", "discover", "dialog", "save",
                                   "post", "over"},
                              tab : McpTabs, forced : BOOLEAN, on : Preparers \cup {Nobody}, token : Tokens, wide : BOOLEAN, asked : BOOLEAN]]
  /\ pendingOf \in [McpTabs -> Preparers \cup {Nobody}] /\ scoped \subseteq McpTabs /\ anonymous \subseteq McpTabs
  /\ holder \in McpRequests \cup {Nobody} /\ kept \in Tokens
  /\ provider \in [issued : 0 .. MaxIssued, refresh : SUBSET (1 .. MaxIssued), access : SUBSET (1 .. MaxIssued)]
  /\ second \in 0 .. MaxSeconds /\ latest \in 0 .. MaxSeconds
  /\ lostIn \subseteq 1 .. MaxIssued /\ {reused, overlapped} \subseteq BOOLEAN
  /\ spentAuth \in 0 .. MaxAuthFaults

\* A refresh token whose replacement came is not sent again, however many calls are refused in however many
\* tabs, unless the person's own sign-in ran beside another preparation.
RefreshTokensUsedOnce == reused => overlapped

\* The person is asked in one dialog at a time, with the same exception.
OneDialog == \A p, q \in Preparers : p # q /\ call[p].at = "dialog" /\ call[q].at = "dialog" => overlapped

\* What is stored is the newest token received: a late answer of an older second does not replace it.
StoreKeepsNewest == kept # NoToken => kept.at = latest

\* A call waits only for a preparation that goes on, and the lock is held only by one.
WaitsForSomething ==
  /\ \A r \in McpRequests : call[r].at = "joined" => Preparing(call[r].on) \/ call[call[r].on].at = "lock"
  /\ holder # Nobody => Preparing(holder)
  /\ \A tab \in McpTabs : pendingOf[tab] # Nobody => Preparing(pendingOf[tab]) \/ call[pendingOf[tab]].at = "lock"

TokensComeInTurn == RefreshTokensUsedOnce /\ OneDialog /\ StoreKeepsNewest /\ WaitsForSomething

-----------------------------------------------------------------------------
\* Observation, not true of the code: a call fails only for a reason of its own, not because the one it joined is stopped.
JoinedHaveTheirOwnEnd == [][\A r \in McpRequests : call[r].at = "joined" => call'[r].at # "over"]_mcpAuthVars
=============================================================================
