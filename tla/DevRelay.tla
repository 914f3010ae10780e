------------------------------ MODULE DevRelay ------------------------------
(***************************************************************************)
(* The development relay (experiments/browser-agent/grok-relay.ts): a      *)
(* middleware of the Vite server that gives the browser agent's requests   *)
(* the credential of a file and passes them on.                            *)
(*                                                                         *)
(* Handlers run side by side; what they share is the settings of the last  *)
(* settings answer and the tool ids of the last listing.  A handler reads  *)
(* the file anew, waits for its body, a name's addresses, its upstream and *)
(* the stream it copies, while its client may go away.                     *)
(***************************************************************************)
EXTENDS Naturals, FiniteSets

CONSTANTS Handlers,        \* requests that may be under way at a time
          SiteHosts,       \* hosts web_fetch may be asked for
          ListedHosts,     \* those of the policy's allowed domains
          MaxHops,         \* MAX_WEB_FETCH_REDIRECTS
          MaxHandled,      \* bound: requests
          MaxGone          \* bound: clients that go away, changed files, restarts

ASSUME DevRelayAssumption ==
  /\ ListedHosts \subseteq SiteHosts
  /\ {MaxHops, MaxHandled, MaxGone} \subseteq Nat

VARIABLES
  job,       \* each handler: its route, where it waits, what it was given, its response
  fetching,  \* remoteSettings.webFetch: "default", "listed" or "proxied"
  issued,    \* the account whose listing gave managedMcpCallIds, or "none"
  account,   \* whose credential the file holds, or "none"
  touched,   \* history: a response was written after it had ended
  strayed,   \* history: web_fetch asked a host its caller had not named
  relayDown, \* a stream's error nothing listened to has ended the server
  handled, goneBudget

sharedVars == <<fetching, issued, account>>
ends == <<touched, strayed>>
devVars == <<job, sharedVars, ends, relayDown, handled, goneBudget>>

NoJob == [route |-> "none", at |-> "idle", reply |-> "open", gone |-> FALSE, given |-> "none",
          asked |-> "none", here |-> "none", hops |-> 0]

\* These only pass on what their upstream answers.
PlainRoutes  == {"startup data", "bundle", "telemetry", "image", "video start"}
CredRoutes   == PlainRoutes \cup {"status", "settings", "listing", "managed", "video poll", "responses"}
LocalRoutes  == {"resolve", "local"}
PostRoutes   == {"managed", "resolve", "local", "fetch", "image", "video start", "video poll", "responses"}
ServedRoutes == CredRoutes \cup LocalRoutes \cup {"fetch"}

Handles(h, route, stage) == job[h].route = route /\ job[h].at = stage
MovesTo(h, stage) == job' = [job EXCEPT ![h].at = stage]

\* json and response.end, the last thing a handler does.
RelayReplies(h) ==
  /\ job' = [job EXCEPT ![h] = NoJob]
  /\ touched' = (touched \/ job[h].reply # "open")
  /\ UNCHANGED strayed

\* Once its headers are out a response can only be destroyed.
Destroys(h) == job' = [job EXCEPT ![h] = NoJob] /\ UNCHANGED ends

-----------------------------------------------------------------------------
(***************************************************************************)
(* Request envelopes                                                       *)
(***************************************************************************)

ChatBodies ==
  [kind : {"main", "session-title", "side call"}, items : {1, 2001}, tools : {"title", "some", "too many"},
   key : {"absent", "session", "other"}, threshold : {"in range", "out of range"}, compacted : BOOLEAN]

\* normalizeGrokRequest: a title has its own profile and tool, and no cache key.
SampleNormal(s) ==
  /\ s.items \in 1..2000 /\ s.tools # "too many"
  /\ IF s.kind = "session-title" THEN s.key = "absent" /\ s.tools = "title"
                                 ELSE s.key # "absent"

\* The main conversation is cached under the session its headers name.
SampleKeyed(s) == s.kind = "main" => s.key = "session"

\* A compacted session sends no threshold, whatever its header says.
ThresholdOK(s) == s.compacted \/ s.threshold = "in range"

\* web_fetch has a list of its own until the settings name one.
Reachable(policy) == IF policy = "listed" THEN SiteHosts ELSE ListedHosts

-----------------------------------------------------------------------------
(***************************************************************************)
(* Requests, the credential and the body                                   *)
(***************************************************************************)

\* web_fetch is given the settings of its arrival.  A mutation of another origin is refused.
Arrives(h, route) ==
  /\ ~relayDown /\ job[h] = NoJob /\ handled < MaxHandled
  /\ job' = [job EXCEPT ![h] =
               [NoJob EXCEPT !.route = route, !.given = IF route = "fetch" THEN fetching ELSE "none",
                             !.at = IF route \in CredRoutes THEN "credential" ELSE "body"]]
  /\ handled' = handled + 1
  /\ UNCHANGED <<sharedVars, ends, relayDown, goneBudget>>

\* readGrokCredential; a managed call is given the ids known once the file was read.
ReadsFile(h) ==
  /\ job[h].at = "credential"
  /\ IF account = "none" \/ job[h].route = "status"
       THEN RelayReplies(h)
       ELSE /\ job' = [job EXCEPT ![h].given = account,
                                  ![h].asked = IF job[h].route = "managed" THEN issued ELSE "none",
                                  ![h].at = IF job[h].route \in PostRoutes \cup {"telemetry"} THEN "body"
                                            ELSE "upstream"]
            /\ UNCHANGED ends
  /\ UNCHANGED <<sharedVars, relayDown, handled, goneBudget>>

\* The body is too long or no JSON, its client goes away, or the envelope is refused.
BodyRefused(h) ==
  /\ job[h].at = "body"
  /\ RelayReplies(h)
  /\ UNCHANGED <<sharedVars, relayDown, handled, goneBudget>>

BodyRead(h) ==
  /\ job[h].at = "body" /\ ~job[h].gone
  /\ CASE job[h].route = "managed" -> job[h].asked # "none" /\ MovesTo(h, "upstream")
       [] job[h].route = "responses" ->
            \E s \in ChatBodies : SampleNormal(s) /\ SampleKeyed(s) /\ ThresholdOK(s) /\ MovesTo(h, "upstream")
       [] job[h].route \in LocalRoutes -> MovesTo(h, "lookup")
       [] job[h].route = "fetch" ->
            /\ job[h].given # "proxied"
            /\ \E host \in Reachable(job[h].given) :
                 job' = [job EXCEPT ![h].asked = host, ![h].here = host, ![h].at = "upstream"]
       [] OTHER -> MovesTo(h, "upstream")
  /\ UNCHANGED <<sharedVars, ends, relayDown, handled, goneBudget>>

\* A name stands for public addresses only, or is refused.
LooksUp(h) ==
  /\ job[h].at = "lookup"
  /\ \/ RelayReplies(h)
     \/ job[h].route = "local" /\ MovesTo(h, "upstream") /\ UNCHANGED ends
  /\ UNCHANGED <<sharedVars, relayDown, handled, goneBudget>>

-----------------------------------------------------------------------------
(***************************************************************************)
(* The upstream                                                            *)
(***************************************************************************)

\* It cannot be reached, takes too long, answers too much, or what cannot be used.
UpstreamFails(h) ==
  /\ job[h].at \in {"upstream", "download"}
  /\ RelayReplies(h)
  /\ UNCHANGED <<sharedVars, relayDown, handled, goneBudget>>

PassesOn(h, route) == Handles(h, route, "upstream") /\ RelayReplies(h)

StartupAnswer(h)   == PassesOn(h, "startup data")
BundleAnswer(h)    == PassesOn(h, "bundle")
TelemetryAnswer(h) == PassesOn(h, "telemetry")
ImageAnswer(h)     == PassesOn(h, "image")
VideoAnswer(h)     == PassesOn(h, "video start")
ManagedAnswer(h)   == PassesOn(h, "managed")

PlainAnswer(h) ==
  /\ \/ StartupAnswer(h) \/ BundleAnswer(h) \/ TelemetryAnswer(h)
     \/ ImageAnswer(h) \/ VideoAnswer(h) \/ ManagedAnswer(h)
  /\ UNCHANGED <<sharedVars, relayDown, handled, goneBudget>>

\* The answer is passed on; settings that cannot be read leave the last ones.
SettingsAnswer(h, told) ==
  /\ Handles(h, "settings", "upstream") /\ told \in {"default", "listed", "proxied", "unreadable"}
  /\ fetching' = IF told = "unreadable" THEN fetching ELSE told
  /\ RelayReplies(h)
  /\ UNCHANGED <<issued, account, relayDown, handled, goneBudget>>

\* A listing that cannot be read leaves no tool to call.
ListingAnswer(h, told) ==
  /\ Handles(h, "listing", "upstream") /\ told \in {"refused", "tools", "unreadable"}
  /\ issued' = CASE told = "refused" -> issued
                 [] told = "tools" -> job[h].given
                 [] told = "unreadable" -> "none"
  /\ RelayReplies(h)
  /\ UNCHANGED <<fetching, account, relayDown, handled, goneBudget>>

\* As FetchRedirected, but any host the list allows is followed.
FetchRedirected_Listed(h, host) ==
  /\ Handles(h, "fetch", "upstream")
  /\ IF job[h].hops = MaxHops \/ host \notin Reachable(job[h].given)
       THEN RelayReplies(h)
       ELSE /\ job' = [job EXCEPT ![h].hops = @ + 1, ![h].here = host]
            /\ strayed' = (strayed \/ host # job[h].asked)
            /\ UNCHANGED touched
  /\ UNCHANGED <<sharedVars, relayDown, handled, goneBudget>>

\* A redirect within the host is followed; one to another is the caller's to follow.
FetchRedirected(h, host) ==
  /\ Handles(h, "fetch", "upstream")
  /\ IF job[h].hops = MaxHops \/ host # job[h].here
       THEN RelayReplies(h)
       ELSE /\ job' = [job EXCEPT ![h].hops = @ + 1, ![h].here = host]
            /\ strayed' = (strayed \/ host # job[h].asked)
            /\ UNCHANGED touched
  /\ UNCHANGED <<sharedVars, relayDown, handled, goneBudget>>

FetchAnswer(h) ==
  /\ Handles(h, "fetch", "upstream")
  /\ RelayReplies(h)
  /\ UNCHANGED <<sharedVars, relayDown, handled, goneBudget>>

\* A video is not ready, or its address is safe to download from.
PollAnswer(h) ==
  /\ Handles(h, "video poll", "upstream")
  /\ RelayReplies(h) \/ (MovesTo(h, "download") /\ UNCHANGED ends)
  /\ UNCHANGED <<sharedVars, relayDown, handled, goneBudget>>

DownloadAnswer(h) ==
  /\ job[h].at = "download"
  /\ RelayReplies(h)
  /\ UNCHANGED <<sharedVars, relayDown, handled, goneBudget>>

\* The headers go out before the body is copied, unless there is none.
LocalAnswer(h) ==
  /\ Handles(h, "local", "upstream")
  /\ \/ RelayReplies(h)
     \/ job' = [job EXCEPT ![h].at = "stream", ![h].reply = "headers"] /\ UNCHANGED ends
  /\ UNCHANGED <<sharedVars, relayDown, handled, goneBudget>>

\* Chat is piped, and its handler returns.
ChatAnswer(h) ==
  /\ Handles(h, "responses", "upstream")
  /\ \/ RelayReplies(h)
     \/ job' = [job EXCEPT ![h].at = "pipe", ![h].reply = "headers"] /\ UNCHANGED ends
  /\ UNCHANGED <<sharedVars, relayDown, handled, goneBudget>>

-----------------------------------------------------------------------------
(***************************************************************************)
(* Streams, clients that go away, and the file                             *)
(***************************************************************************)

\* The response takes no more for now; it is drained unless its client is gone.
StreamWaits(h) ==
  /\ job[h].at = "stream" /\ ~job[h].gone
  /\ MovesTo(h, "drain")
  /\ UNCHANGED <<sharedVars, ends, relayDown, handled, goneBudget>>

StreamDrains(h) ==
  /\ job[h].at = "drain" /\ ~job[h].gone
  /\ MovesTo(h, "stream")
  /\ UNCHANGED <<sharedVars, ends, relayDown, handled, goneBudget>>

StreamEnds(h) ==
  /\ job[h].at = "stream" \/ (job[h].at = "pipe" /\ ~job[h].gone)
  /\ Destroys(h)
  /\ UNCHANGED <<sharedVars, relayDown, handled, goneBudget>>

\* As StreamBreaks, but the error is answered like any other.
StreamBreaks_Answers(h) ==
  /\ job[h].at = "stream"
  /\ RelayReplies(h)
  /\ UNCHANGED <<sharedVars, relayDown, handled, goneBudget>>

\* The upstream breaks off or sends too much: the response is destroyed.
StreamBreaks(h) ==
  /\ job[h].at = "stream"
  /\ Destroys(h)
  /\ UNCHANGED <<sharedVars, relayDown, handled, goneBudget>>

\* The piped stream fails, or its two minutes are over: no one listens to its error.
PipeBreaks(h) ==
  /\ job[h].at = "pipe"
  /\ relayDown' = TRUE
  /\ job' = [g \in Handlers |-> NoJob]
  /\ UNCHANGED <<sharedVars, ends, handled, goneBudget>>

Budget == goneBudget < MaxGone /\ goneBudget' = goneBudget + 1

\* Only the proxy of local MCP hears of it, and only once the name was looked up.
ClientGoes(h) ==
  /\ job[h] # NoJob /\ ~job[h].gone /\ Budget
  /\ CASE job[h].at = "body" -> RelayReplies(h)
       [] Handles(h, "local", "upstream") -> RelayReplies(h)
       [] job[h].at = "stream" -> Destroys(h)
       [] OTHER -> job' = [job EXCEPT ![h].gone = TRUE] /\ UNCHANGED ends
  /\ UNCHANGED <<sharedVars, relayDown, handled>>

\* Another sign-in writes the file, or the sign-out empties it.
FileChanges(a) ==
  /\ a # account /\ Budget
  /\ account' = a
  /\ UNCHANGED <<job, fetching, issued, ends, relayDown, handled>>

\* The developer starts the server again.
RelayRestarts ==
  /\ relayDown /\ Budget
  /\ relayDown' = FALSE /\ fetching' = "default" /\ issued' = "none"
  /\ UNCHANGED <<job, account, ends, handled>>

-----------------------------------------------------------------------------

DevRelayInit ==
  /\ job = [h \in Handlers |-> NoJob]
  /\ fetching = "default" /\ issued = "none" /\ account = "mine"
  /\ touched = FALSE /\ strayed = FALSE
  /\ relayDown = FALSE /\ handled = 0 /\ goneBudget = 0

DevRelayNext ==
  \/ \E h \in Handlers :
       \/ \E route \in ServedRoutes : Arrives(h, route)
       \/ ReadsFile(h) \/ BodyRefused(h) \/ BodyRead(h) \/ LooksUp(h)
       \/ UpstreamFails(h) \/ PlainAnswer(h)
       \/ \E told \in {"default", "listed", "proxied", "unreadable"} : SettingsAnswer(h, told)
       \/ \E told \in {"refused", "tools", "unreadable"} : ListingAnswer(h, told)
       \/ \E host \in SiteHosts : FetchRedirected(h, host)
       \/ FetchAnswer(h) \/ PollAnswer(h) \/ DownloadAnswer(h) \/ LocalAnswer(h) \/ ChatAnswer(h)
       \/ StreamWaits(h) \/ StreamDrains(h) \/ StreamEnds(h) \/ StreamBreaks(h) \/ PipeBreaks(h)
       \/ ClientGoes(h)
  \/ \E a \in {"mine", "theirs", "none"} : FileChanges(a)
  \/ RelayRestarts

DevRelaySpec == DevRelayInit /\ [][DevRelayNext]_devVars

-----------------------------------------------------------------------------
(***************************************************************************)
(* Properties                                                              *)
(***************************************************************************)

DevRelayTypeOK ==
  /\ \A h \in Handlers :
       /\ job[h].route \in ServedRoutes \cup {"none"}
       /\ job[h].at \in {"idle", "credential", "body", "lookup", "upstream", "download", "stream", "drain", "pipe"}
       /\ job[h].reply = "headers" <=> job[h].at \in {"stream", "drain", "pipe"}
       /\ job[h].hops \in 0..MaxHops
  /\ fetching \in {"default", "listed", "proxied"}
  /\ {issued, account} \subseteq {"mine", "theirs", "none"}
  /\ relayDown => \A h \in Handlers : job[h] = NoJob

(***************************************************************************)
(* A response whose headers are out is not answered a second time, however *)
(* its stream, its upstream and its client end; and web_fetch, whatever    *)
(* redirects it is sent, asks only the host its caller named.              *)
(***************************************************************************)
RepliesStayTrue == ~touched /\ ~strayed

(***************************************************************************)
(* A stream that fails takes its own response down and no other.  It does  *)
(* not hold: nothing listens to the errors of a chat's piped stream.       *)
(***************************************************************************)
RelayStaysUp == ~relayDown

(***************************************************************************)
(* A tool is called with the account whose listing issued its id.  It does *)
(* not hold: the file may change between a listing and a call.             *)
(***************************************************************************)
CalledIsIssued == \A h \in Handlers : Handles(h, "managed", "upstream") => job[h].asked = job[h].given
=============================================================================
