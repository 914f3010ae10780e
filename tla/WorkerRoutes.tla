----------------------------- MODULE WorkerRoutes -----------------------------
(***************************************************************************)
(* The routes of the Cloudflare worker (cloudflare/worker.ts) other than   *)
(* the chats of ChatRelay and the sign-in of GrokSession: media, videos    *)
(* and their download, web fetch, startup data, managed and local MCP, and *)
(* telemetry, with the request envelopes of cloudflare/security.ts.        *)
(*                                                                         *)
(* A route is a sequence of checks, a request to its upstream that is sent *)
(* once more after a 401, and what is done with the answer.  What a check  *)
(* compares is abstracted to passing or not, except where the worker       *)
(* keeps state: the credential, the daily budget, the catalog of managed   *)
(* tools, and the session's videos with the claim of their download, which *)
(* is kept by time and not by its owner.                                   *)
(***************************************************************************)
EXTENDS Naturals, Sequences, FiniteSets

CONSTANTS Requests,        \* requests that may be under way at a time
          Clips,           \* videos xAI may be asked for
          NoClip,
          MaxClips,        \* MAX_VIDEO_REQUESTS_PER_SESSION
          DailyLimit,      \* the daily budget of an account, all kinds together
          MaxRedirects,    \* MAX_WEB_FETCH_REDIRECTS
          MaxArrivals,     \* bound: requests
          MaxRouteFaults   \* bound: crashes, logouts, and times that run out

ASSUME RoutesAssumption ==
  /\ NoClip \notin Clips /\ IsFiniteSet(Clips)
  /\ {MaxClips, DailyLimit, MaxRedirects, MaxArrivals, MaxRouteFaults} \subseteq Nat

VARIABLES
  request,     \* each request: its route, how far it is, its video, retry and redirects
  signedIn,    \* the session holds a credential
  catalog,     \* managedMcpCallIds are those of the last listing
  dailyUse,    \* what the day's budget has admitted
  clip,        \* videoRequests of the session
  claim,       \* claimedAt of each: absent, within its two minutes, or over
  orphaned,    \* history: videos whose claimant went away with the worker
  arrivals, routeFaults

sessionSide == <<signedIn, catalog, clip, claim, orphaned>>
routeVars == <<request, sessionSide, dailyUse, arrivals, routeFaults>>

-----------------------------------------------------------------------------
(***************************************************************************)
(* The checks of each route, in their order                                *)
(***************************************************************************)

ImageChecks     == <<"image body", "credential", "tier", "limits", "daily">>
VideoChecks     == <<"video body", "credential", "tier", "limits", "daily">>
PollChecks      == <<"poll body", "credential", "limits", "token", "clip">>
FetchChecks     == <<"fetch body", "credential", "policy", "limits", "daily">>
BootstrapChecks == <<"credential", "limits", "daily">>
BundleChecks    == <<"credential", "limits", "daily">>
ManagedChecks   == <<"credential", "managed call", "limits", "daily">>
LocalChecks     == <<"credential", "limits", "daily", "relay body", "public host">>
TelemetryChecks == <<"limits", "credential", "limits", "daily", "telemetry body">>

ChecksOf ==
  [image |-> ImageChecks, video |-> VideoChecks, poll |-> PollChecks, fetch |-> FetchChecks,
   bootstrap |-> BootstrapChecks, bundle |-> BundleChecks, managed |-> ManagedChecks,
   local |-> LocalChecks, telemetry |-> TelemetryChecks]

Routes == DOMAIN ChecksOf

\* handleApi: the relay may be disabled, and a mutation must come from its own page.
NoRequest == [route |-> "none", at |-> "idle", passed |-> 0, clip |-> NoClip, again |-> FALSE, hops |-> 0]

Check(r) == ChecksOf[request[r].route][request[r].passed + 1]
AtCheck(r, c) == request[r].at = "checks" /\ Check(r) = c

Onward(r, stage) == request' = [request EXCEPT ![r].at = stage]
Responds(r) == request' = [request EXCEPT ![r] = NoRequest]

\* The last check lets the request go to its upstream.
Passes(r) ==
  LET passed == request[r].passed + 1
  IN request' = [request EXCEPT ![r].passed = passed,
                                ![r].at = IF passed = Len(ChecksOf[request[r].route]) THEN "upstream" ELSE "checks"]

Fault == routeFaults < MaxRouteFaults /\ routeFaults' = routeFaults + 1

(***************************************************************************)
(* Request envelopes                                                       *)
(***************************************************************************)

ImageBodies == [kind : {"generate", "edit"}, ratio : {"1:1", "7:1"}, images : 0..1]

ImageBodyOK(b) ==
  /\ b.ratio = "1:1"
  /\ \/ b.kind = "generate" /\ b.images = 0
     \/ b.kind = "edit" /\ b.images > 0

VideoBodies ==
  [kind : {"image-to-video", "reference-to-video"}, duration : {6, 15, 16}, images : {0, 1, 8},
   voices : {0, 4}]

VideoBodyOK(b) ==
  \/ b.kind = "image-to-video" /\ b.duration \in {6, 10} /\ b.images = 1 /\ b.voices = 0
  \/ /\ b.kind = "reference-to-video"
     /\ b.duration \in 1..15 /\ b.images <= 7 /\ b.voices <= 3
     /\ b.images + b.voices > 0

\* A managed tool is called by an id of the session's catalog.
ManagedCallOK(known) == catalog /\ known

-----------------------------------------------------------------------------
(***************************************************************************)
(* Requests and their checks                                               *)
(***************************************************************************)

Arrives(r, route, c) ==
  /\ request[r] = NoRequest /\ arrivals < MaxArrivals
  /\ (route = "poll") = (c # NoClip)
  /\ request' = [request EXCEPT ![r] = [NoRequest EXCEPT !.route = route, !.at = "checks", !.clip = c]]
  /\ arrivals' = arrivals + 1
  /\ UNCHANGED <<sessionSide, dailyUse, routeFaults>>

\* A check of nothing the worker keeps.
PassesOrNot(r) ==
  /\ request[r].at = "checks"
  /\ \/ /\ Check(r) \in {"tier", "limits", "token", "policy", "poll body", "fetch body", "relay body",
                         "public host", "telemetry body"}
        /\ Passes(r) \/ Responds(r)
     \/ /\ Check(r) = "image body"
        /\ \E b \in ImageBodies : IF ImageBodyOK(b) THEN Passes(r) ELSE Responds(r)
     \/ /\ Check(r) = "video body"
        /\ \E b \in VideoBodies : IF VideoBodyOK(b) THEN Passes(r) ELSE Responds(r)
     \/ /\ Check(r) = "managed call"
        /\ \E known \in BOOLEAN : IF ManagedCallOK(known) THEN Passes(r) ELSE Responds(r)
  /\ UNCHANGED <<sessionSide, dailyUse, arrivals, routeFaults>>

\* requireMediaCredential and its like: without a credential there is nothing to do.
ReadsCredential(r) ==
  /\ AtCheck(r, "credential")
  /\ IF signedIn THEN Passes(r) ELSE Responds(r)
  /\ UNCHANGED <<sessionSide, dailyUse, arrivals, routeFaults>>

\* acquireDailyGate
SpendsDaily(r) ==
  /\ AtCheck(r, "daily")
  /\ IF dailyUse < DailyLimit
       THEN Passes(r) /\ dailyUse' = dailyUse + 1
       ELSE Responds(r) /\ UNCHANGED dailyUse
  /\ UNCHANGED <<sessionSide, arrivals, routeFaults>>

\* /video/check: a claim that is over is taken off.
ChecksClip(r) ==
  /\ AtCheck(r, "clip")
  /\ LET c == request[r].clip
     IN IF clip[c] = "pending" /\ claim[c] # "live"
          THEN Passes(r) /\ claim' = [claim EXCEPT ![c] = "none"]
          ELSE Responds(r) /\ UNCHANGED claim
  /\ UNCHANGED <<signedIn, catalog, clip, orphaned, dailyUse, arrivals, routeFaults>>

(***************************************************************************)
(* The upstream: a 401 is answered by one refresh and one more request     *)
(***************************************************************************)

MayRefresh(r) == request[r].route \notin {"fetch", "local"}

Unauthorized401(r) ==
  /\ request[r].at = "upstream" /\ MayRefresh(r)
  /\ IF request[r].again THEN Responds(r) ELSE Onward(r, "refresh")
  /\ UNCHANGED <<sessionSide, dailyUse, arrivals, routeFaults>>

\* The refresh succeeds, or the caller must sign in again.
RefreshesOrNot(r) ==
  /\ request[r].at = "refresh"
  /\ \/ signedIn /\ request' = [request EXCEPT ![r].at = "upstream", ![r].again = TRUE]
     \/ Responds(r)
  /\ UNCHANGED <<sessionSide, dailyUse, arrivals, routeFaults>>

\* The upstream fails or takes too long, or its answer is too large.
UpstreamFails(r) ==
  /\ request[r].at = "upstream"
  /\ Responds(r)
  /\ UNCHANGED <<sessionSide, dailyUse, arrivals, routeFaults>>

Delivers(r, route) == request[r].at = "upstream" /\ request[r].route = route

\* These pass the upstream's status and body on, bounded; only an image is looked into.
ReplyOf(r, route) == Delivers(r, route) /\ Responds(r)

ImageReplied(r)     == ReplyOf(r, "image")
ManagedReplied(r)   == ReplyOf(r, "managed")
BundleReplied(r)    == ReplyOf(r, "bundle")
TelemetryReplied(r) == ReplyOf(r, "telemetry")
LocalReplied(r)     == ReplyOf(r, "local")

ReplyDelivered(r) ==
  /\ ImageReplied(r) \/ ManagedReplied(r) \/ BundleReplied(r) \/ TelemetryReplied(r) \/ LocalReplied(r)
  /\ UNCHANGED <<sessionSide, dailyUse, arrivals, routeFaults>>

\* A listing of managed tools replaces the catalog, or empties it when it cannot be read.
BootstrapDelivered(r) ==
  /\ Delivers(r, "bootstrap")
  /\ Responds(r)
  /\ catalog' \in (IF signedIn THEN {catalog, TRUE, FALSE} ELSE {catalog})
  /\ UNCHANGED <<signedIn, clip, claim, orphaned, dailyUse, arrivals, routeFaults>>

\* web_fetch follows redirects of one host, and no more of them than its limit.
FetchRedirected(r) ==
  /\ Delivers(r, "fetch")
  /\ IF request[r].hops = MaxRedirects
       THEN Responds(r)
       ELSE request' = [request EXCEPT ![r].hops = @ + 1]
  /\ UNCHANGED <<sessionSide, dailyUse, arrivals, routeFaults>>

\* Its content, or a redirect to another host, which is the caller's to follow.
FetchDelivered(r) ==
  /\ Delivers(r, "fetch")
  /\ Responds(r)
  /\ UNCHANGED <<sessionSide, dailyUse, arrivals, routeFaults>>

-----------------------------------------------------------------------------
(***************************************************************************)
(* Videos                                                                  *)
(***************************************************************************)

PendingClips(cs) == {c \in Clips : cs[c] = "pending"}

\* /video/register: one more than the limit is started and never polled.
VideoStarted(r, c) ==
  /\ Delivers(r, "video")
  /\ clip[c] = "none"
  /\ clip' = IF signedIn /\ Cardinality(PendingClips(clip)) < MaxClips
               THEN [clip EXCEPT ![c] = "pending"]
               ELSE [clip EXCEPT ![c] = "gone"]
  /\ Responds(r)
  /\ UNCHANGED <<signedIn, catalog, claim, orphaned, dailyUse, arrivals, routeFaults>>

\* /video/complete and /video/release, of a session that is still signed in.
Complete(c) == clip' = [clip EXCEPT ![c] = "gone"] /\ claim' = [claim EXCEPT ![c] = "none"]
GivesBack(c)  == UNCHANGED clip /\ claim' = [claim EXCEPT ![c] = "none"]

\* The upstream's word on the video: not yet, never, or done.
PollDelivered(r, status) ==
  /\ Delivers(r, "poll") /\ status \in {"pending", "failed", "expired", "done"}
  /\ IF status = "done" THEN Onward(r, "claim") ELSE Responds(r)
  /\ IF status \in {"failed", "expired"} THEN Complete(request[r].clip) ELSE UNCHANGED <<clip, claim>>
  /\ UNCHANGED <<signedIn, catalog, orphaned, dailyUse, arrivals, routeFaults>>

\* /video/claim
Claims(r) ==
  /\ request[r].at = "claim"
  /\ LET c == request[r].clip
     IN IF clip[c] = "pending" /\ claim[c] # "live"
          THEN /\ claim' = [claim EXCEPT ![c] = "live"]
               /\ orphaned' = orphaned \ {c}
               /\ Onward(r, "download")
          ELSE Responds(r) /\ UNCHANGED <<claim, orphaned>>
  /\ UNCHANGED <<signedIn, catalog, clip, dailyUse, arrivals, routeFaults>>

DownloadBegins(r) ==
  /\ request[r].at = "download"
  /\ Onward(r, "stream")
  /\ UNCHANGED <<sessionSide, dailyUse, arrivals, routeFaults>>

\* As DownloadFails, but the download that cannot begin keeps its claim.
DownloadFails_Kept(r) ==
  /\ request[r].at = "download"
  /\ Responds(r)
  /\ UNCHANGED <<sessionSide, dailyUse, arrivals, routeFaults>>

\* The download is refused, too large by its header, or cannot be reached.
DownloadFails(r) ==
  /\ request[r].at = "download"
  /\ Responds(r)
  /\ GivesBack(request[r].clip)
  /\ UNCHANGED <<signedIn, catalog, orphaned, dailyUse, arrivals, routeFaults>>

\* boundedResponseStream: all of it was sent, or it failed, grew too large or was cancelled.
StreamSettles(r) ==
  /\ request[r].at = "stream"
  /\ Complete(request[r].clip) \/ GivesBack(request[r].clip)
  /\ Responds(r)
  /\ UNCHANGED <<signedIn, catalog, orphaned, dailyUse, arrivals, routeFaults>>

ClaimRunsOut(c) ==
  /\ claim[c] = "live" /\ Fault
  /\ claim' = [claim EXCEPT ![c] = "over"]
  /\ UNCHANGED <<request, signedIn, catalog, clip, orphaned, dailyUse, arrivals>>

\* The ten minutes of a video are over: the next look at the session drops it.
ClipRunsOut(c) ==
  /\ clip[c] = "pending" /\ Fault
  /\ clip' = [clip EXCEPT ![c] = "gone"] /\ claim' = [claim EXCEPT ![c] = "none"]
  /\ UNCHANGED <<request, signedIn, catalog, orphaned, dailyUse, arrivals>>

\* The isolate goes away with its request.
WorkerCrashes(r) ==
  /\ request[r] # NoRequest /\ Fault
  /\ orphaned' = IF request[r].at \in {"download", "stream"} THEN orphaned \cup {request[r].clip}
                 ELSE orphaned
  /\ Responds(r)
  /\ UNCHANGED <<signedIn, catalog, clip, claim, dailyUse, arrivals>>

LogsOut ==
  /\ signedIn /\ Fault
  /\ signedIn' = FALSE /\ catalog' = FALSE
  /\ clip' = [c \in Clips |-> IF clip[c] = "none" THEN "none" ELSE "gone"]
  /\ claim' = [c \in Clips |-> "none"]
  /\ UNCHANGED <<request, orphaned, dailyUse, arrivals>>

-----------------------------------------------------------------------------

RoutesInit ==
  /\ request = [r \in Requests |-> NoRequest]
  /\ signedIn = TRUE /\ catalog = FALSE /\ dailyUse = 0
  /\ clip = [c \in Clips |-> "none"] /\ claim = [c \in Clips |-> "none"]
  /\ orphaned = {} /\ arrivals = 0 /\ routeFaults = 0

RoutesNext ==
  \/ \E r \in Requests :
       \/ \E route \in Routes, c \in Clips \cup {NoClip} : Arrives(r, route, c)
       \/ PassesOrNot(r) \/ ReadsCredential(r) \/ SpendsDaily(r) \/ ChecksClip(r)
       \/ Unauthorized401(r) \/ RefreshesOrNot(r) \/ UpstreamFails(r)
       \/ ReplyDelivered(r) \/ BootstrapDelivered(r) \/ FetchRedirected(r) \/ FetchDelivered(r)
       \/ \E c \in Clips : VideoStarted(r, c)
       \/ \E status \in {"pending", "failed", "expired", "done"} : PollDelivered(r, status)
       \/ Claims(r) \/ DownloadBegins(r) \/ DownloadFails(r) \/ StreamSettles(r)
       \/ WorkerCrashes(r)
  \/ \E c \in Clips : ClaimRunsOut(c) \/ ClipRunsOut(c)
  \/ LogsOut

RoutesSpec == RoutesInit /\ [][RoutesNext]_routeVars

-----------------------------------------------------------------------------
(***************************************************************************)
(* Properties                                                              *)
(***************************************************************************)

RoutesTypeOK ==
  /\ \A r \in Requests : /\ request[r].route \in Routes \cup {"none"}
                         /\ request[r].at \in {"idle", "checks", "upstream", "refresh", "claim", "download",
                                               "stream"}
                         /\ request[r].hops \in 0..MaxRedirects
  /\ dailyUse \in 0..DailyLimit
  /\ clip \in [Clips -> {"none", "pending", "gone"}]
  /\ claim \in [Clips -> {"none", "live", "over"}]
  /\ Cardinality(PendingClips(clip)) <= MaxClips

Downloads(c) == {r \in Requests : request[r].clip = c /\ request[r].at \in {"download", "stream"}}

(***************************************************************************)
(* A video that counts as being downloaded is: a download that is refused, *)
(* fails, grows too large, is cancelled or ends has given its claim back,  *)
(* whichever of several polls it belonged to, and only a worker that went  *)
(* away leaves one to run out.                                             *)
(***************************************************************************)
ClaimHasADownload ==
  \A c \in Clips : claim[c] = "live" => Downloads(c) # {} \/ c \in orphaned

(***************************************************************************)
(* A video is downloaded by one poll at a time.  It does not hold: a       *)
(* download may outlast its claim, and gives back that of the next one.    *)
(***************************************************************************)
OneDownload == \A c \in Clips : Cardinality(Downloads(c)) <= 1
=============================================================================
