----------------------------- MODULE GrokSession -----------------------------
(***************************************************************************)
(* The Durable Object of one sign-in (cloudflare/worker.ts GrokSession):   *)
(* device sign-in at xAI, the credential and its refresh, the data kept    *)
(* beside it, and the end of the session.                                  *)
(*                                                                         *)
(* Handlers interleave only where they wait for xAI: the input gate closes *)
(* while storage is read or written, and the cryptography in between does  *)
(* not yield.  Encryption is abstracted: what cannot be decrypted is gone. *)
(***************************************************************************)
EXTENDS Naturals, FiniteSets

CONSTANTS
  Polls,      \* polls that may be in flight at a time
  Videos,     \* video requests
  MaxVideos,  \* MAX_VIDEO_REQUESTS_PER_SESSION
  MaxTokens,  \* bound: tokens xAI issues
  MaxEnds,    \* bound: the generation at which the session may still end
  SessionEvents  \* events that may happen: "unreadable", "restart"

ASSUME SessionAssumption ==
  /\ IsFiniteSet(Videos)
  /\ MaxVideos \in Nat /\ MaxTokens \in Nat /\ MaxEnds \in Nat

VARIABLES
  session,    \* what is stored
  generation, \* counts starts and ends, in memory
  started,    \* the device sign-in: "no", "asking" or "yes"
  polls,      \* for each poll, the session it read, while it asks xAI
  exchanges,  \* refreshes that ask xAI: the session they read, the generation
  late,       \* video requests whose time is over
  minted,     \* tokens xAI issued
  granted,    \* xAI answered the device code with tokens
  spent,      \* refresh tokens whose answer brought a new one
  ended,      \* history: the session has ended
  signedOut   \* history: it has ended when it held a credential

sessionVars == <<session, generation, started, polls, exchanges, late,
          minted, granted, spent, ended, signedOut>>

\* device: none, too early to poll, may be polled, or over.  token is 0 without
\* a credential.  renewable: it came with a refresh token.  settings stands for
\* remoteSettings and managedMcpCallIds.
SessionState ==
  [device: {"none", "wait", "ready", "over"}, token: Nat, renewable: BOOLEAN,
   settings: BOOLEAN, videos: SUBSET Videos]

Empty ==
  [device |-> "none", token |-> 0, renewable |-> FALSE, settings |-> FALSE, videos |-> {}]

SignedIn(s) == s.token # 0

NotPolling == [read |-> Empty, asking |-> FALSE]

\* The types; and a session never keeps more videos than its limit.
SessionTypeOK ==
  /\ session \in SessionState
  /\ Cardinality(session.videos) <= MaxVideos
  /\ generation \in Nat
  /\ started \in {"no", "asking", "yes"}
  /\ polls \in [Polls -> [read: SessionState, asking: BOOLEAN]]
  /\ exchanges \subseteq [read: SessionState, generation: Nat]
  /\ late \subseteq Videos
  /\ minted \in 0..MaxTokens
  /\ spent \subseteq 1..minted
  /\ granted \in BOOLEAN /\ ended \in BOOLEAN /\ signedOut \in BOOLEAN

SessionInit ==
  /\ session = Empty /\ generation = 0 /\ started = "no"
  /\ polls = [p \in Polls |-> NotPolling] /\ exchanges = {}
  /\ late = {} /\ minted = 0 /\ granted = FALSE /\ spent = {}
  /\ ended = FALSE /\ signedOut = FALSE

\* A handler that only stores.
Stores(s) ==
  /\ session' = s
  /\ UNCHANGED <<generation, started, polls, exchanges, late,
                 minted, granted, spent, ended, signedOut>>

-----------------------------------------------------------------------------
(* Device sign-in *)

\* /device/start; a new session id is made for each sign-in.
DeviceStart ==
  /\ started = "no"
  /\ started' = "asking" /\ generation' = generation + 1
  /\ UNCHANGED <<session, polls, exchanges, late, minted, granted, spent, ended, signedOut>>

DeviceStarted ==
  /\ started = "asking"
  /\ started' = "yes"
  /\ session' \in {[Empty EXCEPT !.device = "wait"], session}
  /\ UNCHANGED <<generation, polls, exchanges, late, minted, granted, spent, ended, signedOut>>

\* Time passes for the device code.
DeviceTime ==
  /\ session.device \in {"wait", "ready"}
  /\ Stores([session EXCEPT !.device = IF @ = "wait" THEN "ready" ELSE "over"])

\* /poll until it asks xAI: the next poll has to wait.
Poll(p) ==
  /\ ~polls[p].asking /\ session.device = "ready"
  /\ session' = [session EXCEPT !.device = "wait"]
  /\ polls' = [polls EXCEPT ![p] = [read |-> session', asking |-> TRUE]]
  /\ UNCHANGED <<generation, started, exchanges, late, minted, granted, spent, ended, signedOut>>

\* /poll of a code that is over.
PollTooLate ==
  /\ session.device = "over"
  /\ Stores(Empty)

PollDone(p) ==
  /\ polls[p].asking
  /\ polls' = [polls EXCEPT ![p] = NotPolling]
  /\ UNCHANGED <<generation, started, exchanges, late, spent, ended, signedOut>>

\* xAI issued tokens, which it does once for a device code, and told who the
\* account is.
PollSignsIn(p) ==
  /\ PollDone(p)
  /\ ~granted /\ minted < MaxTokens
  /\ granted' = TRUE /\ minted' = minted + 1
  /\ \E r \in BOOLEAN : session' = [Empty EXCEPT !.token = minted', !.renewable = r]

\* slow_down stores what the poll read; a denial or an expired code stores
\* nothing; a pending or failed answer, also to a code that was granted and
\* whose account stayed unknown, changes nothing.
PollDoesNot(p) ==
  /\ PollDone(p)
  /\ \/ session' \in {polls[p].read, Empty, session} /\ UNCHANGED granted
     \/ granted' = TRUE /\ UNCHANGED session
  /\ UNCHANGED minted

-----------------------------------------------------------------------------
(* The credential *)

\* Mutant: refreshes are not coalesced.
Refresh_Each ==
  /\ SignedIn(session) /\ session.renewable
  /\ exchanges' = exchanges \cup {[read |-> session, generation |-> generation]}
  /\ UNCHANGED <<session, generation, started, polls, late, minted, granted, spent, ended, signedOut>>

\* /refresh, and /credential and /status when the token is about to expire: a
\* second caller joins the exchange that is under way.
Refresh ==
  /\ SignedIn(session) /\ session.renewable
  /\ exchanges = {}
  /\ exchanges' = {[read |-> session, generation |-> generation]}
  /\ UNCHANGED <<session, generation, started, polls, late, minted, granted, spent, ended, signedOut>>

ExchangeDone(e) ==
  /\ e \in exchanges
  /\ exchanges' = exchanges \ {e}
  /\ UNCHANGED <<generation, started, polls, late, granted, ended, signedOut>>

\* xAI renews, with or without a new refresh token, what it did not replace yet.
Renewed(e) ==
  /\ ExchangeDone(e)
  /\ e.read.token \notin spent
  /\ \/ minted < MaxTokens /\ minted' = minted + 1 /\ spent' = spent \cup {e.read.token}
     \/ UNCHANGED <<minted, spent>>

RenewedToken(e) == IF minted' = minted THEN e.read.token ELSE minted'

\* Mutant: only the credential is stored.
Refreshed_CredentialOnly(e) ==
  /\ Renewed(e)
  /\ session' = IF e.generation = generation
                THEN [Empty EXCEPT !.token = RenewedToken(e), !.renewable = TRUE]
                ELSE session

\* Mutant: what ended meanwhile is stored again.
Refreshed_AnyGeneration(e) ==
  /\ Renewed(e)
  /\ session' = [e.read EXCEPT !.token = RenewedToken(e)]

\* The credential is stored with the session that was read, unless it ended.
Refreshed(e) ==
  /\ Renewed(e)
  /\ session' = IF e.generation = generation
                THEN [e.read EXCEPT !.token = RenewedToken(e)] ELSE session

\* xAI refuses the token for good, or the exchange fails.
NotRefreshed(e) ==
  /\ ExchangeDone(e)
  /\ session' \in {session} \cup (IF e.generation = generation THEN {Empty} ELSE {})
  /\ UNCHANGED <<minted, spent>>

\* /status finds an expired token that cannot be renewed.
StatusSignsOut ==
  /\ SignedIn(session) /\ ~session.renewable
  /\ Stores(Empty)

-----------------------------------------------------------------------------
(* What is kept beside the credential *)

\* /settings/remote, /mcp/catalog
StoreSettings ==
  /\ SignedIn(session)
  /\ Stores([session EXCEPT !.settings = TRUE])

\* Video requests are kept until they are over.
Pending == session.videos \ late

\* Mutant: the limit admits one too many.
RegisterVideo_OneMore(v) ==
  /\ SignedIn(session)
  /\ v \notin late
  /\ v \in Pending \/ Cardinality(Pending) <= MaxVideos
  /\ Stores([session EXCEPT !.videos = Pending \cup {v}])

\* /video/register; xAI gives each request an id of its own.
RegisterVideo(v) ==
  /\ SignedIn(session)
  /\ v \notin late
  /\ v \in Pending \/ Cardinality(Pending) < MaxVideos
  /\ Stores([session EXCEPT !.videos = Pending \cup {v}])

\* /video/complete
CompleteVideo(v) ==
  /\ SignedIn(session) /\ v \in Pending
  /\ Stores([session EXCEPT !.videos = Pending \ {v}])

VideoTime(v) ==
  /\ v \in session.videos \ late
  /\ late' = late \cup {v}
  /\ UNCHANGED <<session, generation, started, polls, exchanges,
                 minted, granted, spent, ended, signedOut>>

-----------------------------------------------------------------------------
(* The end *)

\* /logout and the alarm.
End ==
  /\ started = "yes" /\ generation <= MaxEnds
  /\ ~ended \/ session # Empty
  /\ generation' = generation + 1
  /\ session' = Empty
  /\ ended' = TRUE /\ signedOut' = (signedOut \/ SignedIn(session))
  /\ UNCHANGED <<started, polls, exchanges, late, minted, granted, spent>>

\* load cannot decrypt what is stored.
Unreadable ==
  /\ "unreadable" \in SessionEvents
  /\ session # Empty
  /\ Stores(Empty)

\* The object is restarted: its handlers and its generation are gone.
Restart ==
  /\ "restart" \in SessionEvents
  /\ generation # 0
  /\ generation' = 0
  /\ started' = IF started = "asking" THEN "yes" ELSE started
  /\ polls' = [p \in Polls |-> NotPolling] /\ exchanges' = {}
  /\ UNCHANGED <<session, late, minted, granted, spent, ended, signedOut>>

SessionNext ==
  \/ DeviceStart \/ DeviceStarted \/ DeviceTime \/ PollTooLate
  \/ \E p \in Polls : Poll(p) \/ PollSignsIn(p) \/ PollDoesNot(p)
  \/ Refresh
  \/ \E e \in exchanges : Refreshed(e) \/ NotRefreshed(e)
  \/ StatusSignsOut \/ StoreSettings
  \/ \E v \in Videos : RegisterVideo(v) \/ CompleteVideo(v) \/ VideoTime(v)
  \/ End \/ Unreadable \/ Restart

SessionSpec == SessionInit /\ [][SessionNext]_sessionVars

-----------------------------------------------------------------------------
\* A sign-in that was ended is never stored again: the answer of a refresh that
\* overlapped the end does not bring it back (refreshCredential, save).
EndedLoginStaysOut == signedOut => ~SignedIn(session)

\* Of concurrent callers one exchanges a refresh token, and neither the stored
\* session nor an exchange holds a token xAI has already replaced (refresh).
TokensUsedOnce ==
  /\ session.token \notin spent
  /\ \A e \in exchanges : e.generation = generation => e.read.token \notin spent

\* While the sign-in lasts, a registered video is forgotten only when it is
\* complete or over, or by a refresh that began before it was registered
\* (refreshCredential stores the session it read).
RegisteredVideoStays ==
  [][\A v \in session.videos :
       v \notin session'.videos /\ SignedIn(session')
         => \/ CompleteVideo(v) \/ v \in late
            \/ \E e \in exchanges : e \notin exchanges' /\ v \notin e.read.videos]_sessionVars

\* Once the person logged out, or the alarm ended the session, it holds no
\* credential: logout overlaps what asks xAI.
NoSignInAfterEnd == ended => ~SignedIn(session)
=============================================================================
