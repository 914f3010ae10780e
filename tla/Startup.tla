------------------------------- MODULE Startup -------------------------------
(***************************************************************************)
(* How the browser agent's page signs in and comes by its settings         *)
(* (browser-grok-auth.ts, grok-build-bootstrap.ts and main.ts).            *)
(*                                                                         *)
(* The panel asks who is signed in, runs a device sign-in by polling, and  *)
(* signs out.  The coordinator fetches models and settings in three kinds  *)
(* of promises: the first fetch, a refresh for a new session and one after *)
(* a sign-in.  Each is joined while it runs, and what it returns is put    *)
(* into liveStartupProfile by whoever waited for it: the page or a run.    *)
(***************************************************************************)
EXTENDS Naturals, Sequences, FiniteSets

CONSTANTS SettingsTries,  \* SETTINGS_FETCH_MAX_ATTEMPTS
          MaxLogins,      \* bound: sign-ins
          MaxClicks,      \* bound: sign-outs, resets of the project and runs
          MaxOutages      \* bound: requests that get no answer, a 5xx or an odd one

ASSUME StartupAssumption ==
  {SettingsTries, MaxLogins, MaxClicks, MaxOutages} \subseteq Nat /\ SettingsTries > 0

VARIABLES
  hosted,   \* the deployed worker, not a developer's server with his own credential
  login,    \* the sign-in the server knows this browser by; 0 if none
  logins,   \* sign-ins so far
  panel,    \* what is shown, whether a run may start, what is asked, and the timers of the poll
  fetch,      \* prefetching, reapplying and postAuthRefreshing
  profile,  \* the coordinator's profile
  live,     \* liveStartupProfile
  cache,    \* the models kept in storage for five minutes
  run,      \* where the run under way waits
  prepared, \* interactiveBootstrapPrepared
  faulty,   \* history: a request of the coordinator failed for good, or the answer of a sign-in or -out was lost
  rejoined, \* history: a sign-in joined what an earlier one had asked for
  unreached, \* history: the worker could not be asked who is signed in
  spentOn   \* clicks and outages

panelVars == <<hosted, login, logins, panel, unreached>>
startupVars == <<panelVars, fetch, profile, live, cache, run, prepared, faulty, rejoined, spentOn>>

Fetches == {"prefetch", "reapply", "postauth"}
Readers == {"page", "run"}
Catalogs == {"none", "bundled", "remote", "unusable"}

\* Settings are those of a sign-in, or 0, the client's defaults.
NoProfile == [settings |-> 0, models |-> "none"]

NoFetch == [at |-> "idle", tries |-> 0, got |-> NoProfile, heard |-> <<>>, readers |-> {}]

Spend(what, limit) == spentOn[what] < limit /\ spentOn' = [spentOn EXCEPT ![what] = @ + 1]
Outage == Spend("outages", MaxOutages)

-----------------------------------------------------------------------------
(***************************************************************************)
(* The coordinator: joining and starting                                   *)
(***************************************************************************)

CachedModels == IF cache = "none" THEN "bundled" ELSE cache

\* The first fetch is of the models, unless they are in storage.
Prefetching(j) ==
  IF j["prefetch"].at # "idle" THEN j
  ELSE [j EXCEPT !["prefetch"] = [NoFetch EXCEPT !.at = IF cache = "none" THEN "models" ELSE "settings",
                                               !.tries = IF cache = "none" THEN 0 ELSE 1,
                                               !.got.models = CachedModels]]

Joined(j, k, reader) == [j EXCEPT ![k].readers = @ \cup {reader}]

\* refreshSettings of a profile, or of the one the first fetch is to bring.
Refreshing(j, k) ==
  IF profile # NoProfile
    THEN [j EXCEPT ![k] = [NoFetch EXCEPT !.at = "settings", !.got = profile, !.tries = 1]]
    ELSE [Prefetching(j) EXCEPT ![k] = [NoFetch EXCEPT !.at = "wait"]]

RefreshForNewSession(reader) ==
  Joined(IF fetch["postauth"].at = "idle" /\ fetch["reapply"].at = "idle" THEN Refreshing(fetch, "reapply") ELSE fetch,
         IF fetch["postauth"].at # "idle" THEN "postauth" ELSE "reapply", reader)

\* As RefreshAfterAuth, but it joins a refresh that a new session asked for.
RefreshAfterAuth_Joins ==
  /\ fetch' = IF profile = NoProfile THEN Joined(Prefetching(fetch), "prefetch", "page")
            ELSE IF fetch["reapply"].at # "idle" THEN Joined(fetch, "reapply", "page")
            ELSE Joined(IF fetch["postauth"].at = "idle" THEN Refreshing(fetch, "postauth") ELSE fetch, "postauth", "page")
  /\ rejoined' = (rejoined \/ fetch["postauth"].at # "idle" \/ "page" \in fetch["prefetch"].readers)

RefreshAfterAuth ==
  /\ fetch' = IF profile = NoProfile THEN Joined(Prefetching(fetch), "prefetch", "page")
            ELSE Joined(IF fetch["postauth"].at = "idle" THEN Refreshing(fetch, "postauth") ELSE fetch, "postauth", "page")
  /\ rejoined' = (rejoined \/ fetch["postauth"].at # "idle" \/ "page" \in fetch["prefetch"].readers)

-----------------------------------------------------------------------------
(***************************************************************************)
(* The coordinator: answers and ends                                       *)
(***************************************************************************)

\* The stage a run is at after the one that waited for the coordinator.
AfterProfile(at) == CASE at = "snapshot" -> "bundle" [] at = "refresh" -> "tools" [] at = "refresh again" -> "billing"

\* Those who waited get what the promise returns.
Delivers(readers, result) ==
  /\ live' = IF readers # {} THEN result ELSE live
  /\ run' = IF "run" \in readers THEN AfterProfile(run) ELSE run

Ends(k, result) ==
  /\ Delivers(fetch[k].readers, result)
  /\ fetch' = [i \in Fetches |-> IF i = k THEN NoFetch
                             ELSE IF k = "prefetch" /\ fetch[i].at = "wait"
                               THEN [fetch[i] EXCEPT !.at = "settings", !.got = result, !.tries = 1]
                               ELSE fetch[i]]

\* A catalog without a usable model: the promise and those that wait for it fail.
PrefetchFails ==
  LET gone == {"prefetch"} \cup {i \in Fetches : fetch[i].at = "wait"}
  IN /\ fetch' = [i \in Fetches |-> IF i \in gone THEN NoFetch ELSE fetch[i]]
     /\ run' = IF \E i \in gone : "run" \in fetch[i].readers THEN "none" ELSE run
     /\ faulty' = TRUE
     /\ UNCHANGED <<profile, live>>

\* The profile with the settings that were heard, or as it was when they were asked for.
SettingsKnown(k, found) ==
  LET result == IF found = <<>> THEN fetch[k].got ELSE [fetch[k].got EXCEPT !.settings = Head(found)]
  IN CASE k = "prefetch" /\ fetch[k].tries <= SettingsTries -> \* the early fetch; the re-apply is next
            /\ fetch' = [fetch EXCEPT ![k] = [@ EXCEPT !.got = result, !.heard = <<>>, !.tries = SettingsTries + 1]]
            /\ UNCHANGED <<profile, live, run>>
       [] k = "prefetch" /\ fetch[k].tries > SettingsTries /\ result.models = "unusable" -> PrefetchFails
       [] OTHER ->
            /\ profile' = IF found # <<>> \/ k = "prefetch" THEN result ELSE profile
            /\ Ends(k, result)

AsksSettings(k) == fetch[k].at = "settings" /\ fetch[k].heard = <<>>

\* The server answers with the settings of the sign-in it knows, or with 401.
SettingsServed(k) ==
  /\ AsksSettings(k)
  /\ fetch' = [fetch EXCEPT ![k].heard = <<login>>]
  /\ UNCHANGED <<panelVars, profile, live, cache, run, prepared, faulty, rejoined, spentOn>>

SettingsArrive(k) ==
  /\ fetch[k].heard # <<>>
  /\ SettingsKnown(k, IF fetch[k].heard = <<0>> THEN <<>> ELSE fetch[k].heard)
  /\ faulty' = (faulty \/ (k = "prefetch" /\ fetch[k].tries > SettingsTries /\ fetch[k].got.models = "unusable"))
  /\ UNCHANGED <<panelVars, cache, prepared, rejoined, spentOn>>

LastTry(k) == fetch[k].tries \in {SettingsTries, 2 * SettingsTries}

\* No answer in five seconds, or a 5xx: tried again, and given up in the end.
SettingsFail(k) ==
  /\ fetch[k].at = "settings" /\ Outage
  /\ IF LastTry(k)
       THEN SettingsKnown(k, <<>>) /\ faulty' = (faulty \/ k # "prefetch" \/ fetch[k].tries > SettingsTries)
       ELSE /\ fetch' = [fetch EXCEPT ![k].tries = @ + 1, ![k].heard = <<>>]
            /\ UNCHANGED <<profile, live, run, faulty>>
  /\ UNCHANGED <<panelVars, cache, prepared, rejoined>>

\* What the models are answered with is kept before it is looked at.
ModelsArrive(found) ==
  /\ fetch["prefetch"].at = "models"
  /\ CASE found = "remote" -> login > 0 /\ UNCHANGED spentOn
       [] found = "bundled" -> login = 0 /\ UNCHANGED spentOn
       [] found = "unusable" -> Outage
  /\ cache' = IF found = "bundled" THEN cache ELSE found
  /\ fetch' = [fetch EXCEPT !["prefetch"].at = "settings", !["prefetch"].tries = 1, !["prefetch"].got.models = found]
  /\ UNCHANGED <<panelVars, profile, live, run, prepared, faulty, rejoined>>

ModelsFail ==
  /\ fetch["prefetch"].at = "models" /\ Outage
  /\ fetch' = [fetch EXCEPT !["prefetch"].at = "settings", !["prefetch"].tries = 1, !["prefetch"].got.models = "bundled"]
  /\ UNCHANGED <<panelVars, profile, live, cache, run, prepared, faulty, rejoined>>

CacheAges ==
  /\ cache # "none"
  /\ cache' = "none"
  /\ UNCHANGED <<panelVars, fetch, profile, live, run, prepared, faulty, rejoined, spentOn>>

-----------------------------------------------------------------------------
(***************************************************************************)
(* The sign-in panel                                                       *)
(***************************************************************************)

Restful == [shown |-> {}, ready |-> FALSE, asks |-> {}, timer |-> FALSE, strays |-> 0,
            polls |-> 0, signed |-> 0, outs |-> 0, outDone |-> 0]

OthersOfPanel == UNCHANGED <<fetch, profile, live, cache, run, prepared, rejoined>>

\* The poll's timer is set again; one that is still set is forgotten and fires as well.
Armed(p) == [p EXCEPT !.timer = TRUE, !.strays = IF p.timer THEN @ + 1 ELSE @]

Disconnected(p) == [p EXCEPT !.shown = {"connect"}, !.ready = FALSE, !.timer = FALSE]

ShowAuthenticated(p, eligible) ==
  /\ panel' = [p EXCEPT !.shown = IF hosted THEN {"disconnect"} ELSE {}, !.ready = eligible, !.timer = FALSE]
  /\ RefreshAfterAuth
  /\ UNCHANGED <<hosted, profile, live, cache, run, prepared>>

Asked(what) == what \in panel.asks
Ask(p, was, is) == [p EXCEPT !.asks = (@ \ was) \cup is]

StatusAnswers ==
  /\ Asked("status") /\ hosted
  /\ LET p == Ask(panel, {"status"}, {})
     IN IF login > 0 THEN \E eligible \in BOOLEAN : ShowAuthenticated(p, eligible)
        ELSE panel' = Disconnected(p) /\ OthersOfPanel /\ UNCHANGED hosted
  /\ UNCHANGED <<login, logins, unreached, faulty, spentOn>>

\* An error of the worker's.
StatusFails ==
  /\ Asked("status") /\ hosted /\ Outage
  /\ panel' = Disconnected(Ask(panel, {"status"}, {}))
  /\ UNCHANGED <<hosted, login, logins, unreached, faulty>> /\ OthersOfPanel

\* Nothing but a developer's server is asked next, with no way back.
StatusUnanswered ==
  /\ Asked("status")
  /\ IF hosted THEN Outage ELSE UNCHANGED spentOn
  /\ panel' = Ask(panel, {"status"}, {"local"})
  /\ unreached' = hosted
  /\ UNCHANGED <<hosted, login, logins, faulty>> /\ OthersOfPanel

LocalAnswers ==
  /\ Asked("local")
  /\ LET p == Ask(panel, {"local"}, {})
     IN IF ~hosted /\ login > 0 THEN ShowAuthenticated(p, TRUE)
        ELSE panel' = [p EXCEPT !.shown = {}, !.ready = FALSE] /\ OthersOfPanel /\ UNCHANGED hosted
  /\ UNCHANGED <<login, logins, unreached, faulty, spentOn>>

StartDeviceAuth ==
  /\ "connect" \in panel.shown /\ ~Asked("start") /\ logins < MaxLogins
  /\ panel' = [Ask(panel, {}, {"start"}) EXCEPT !.timer = FALSE, !.shown = @ \ {"code"}]
  /\ UNCHANGED <<hosted, login, logins, unreached, faulty, spentOn>> /\ OthersOfPanel

DeviceCodeShown ==
  /\ Asked("start")
  /\ panel' = Armed([Ask(panel, {"start"}, {}) EXCEPT !.shown = (@ \ {"connect"}) \cup {"code"}])
  /\ UNCHANGED <<hosted, login, logins, unreached, faulty, spentOn>> /\ OthersOfPanel

StartFails ==
  /\ Asked("start") /\ Outage
  /\ panel' = [Ask(panel, {"start"}, {}) EXCEPT !.shown = @ \cup {"connect"}]
  /\ UNCHANGED <<hosted, login, logins, unreached, faulty>> /\ OthersOfPanel

\* A timer fires: the panel's own, or one it has forgotten; it forgets its own either way.
PollTimerFires ==
  /\ panel.timer \/ panel.strays > 0
  /\ \/ /\ panel.timer
        /\ panel' = [panel EXCEPT !.timer = FALSE, !.polls = @ + 1]
     \/ /\ panel.strays > 0
        /\ panel' = [panel EXCEPT !.timer = FALSE, !.polls = @ + 1,
                                  !.strays = IF panel.timer THEN @ ELSE @ - 1]
  /\ UNCHANGED <<hosted, login, logins, unreached, faulty, spentOn>> /\ OthersOfPanel

\* The person has approved, and the server signs the browser in before the page hears of it.
PollSignsIn ==
  /\ panel.polls > panel.signed /\ logins < MaxLogins
  /\ login' = logins + 1 /\ logins' = logins + 1
  /\ panel' = [panel EXCEPT !.signed = @ + 1]
  /\ UNCHANGED <<hosted, unreached, faulty, spentOn>> /\ OthersOfPanel

PollAuthenticates ==
  /\ panel.signed > 0
  /\ \E eligible \in BOOLEAN : ShowAuthenticated([panel EXCEPT !.polls = @ - 1, !.signed = @ - 1], eligible)
  /\ UNCHANGED <<login, logins, unreached, faulty, spentOn>>

\* 202 or 429.
PollPending ==
  /\ panel.polls > panel.signed
  /\ panel' = Armed([panel EXCEPT !.polls = @ - 1])
  /\ UNCHANGED <<hosted, login, logins, unreached, faulty, spentOn>> /\ OthersOfPanel

\* As PollFails, but the button to begin again stays hidden.
PollFails_Hidden ==
  /\ panel.polls > 0 /\ Outage
  /\ \E was \in 0..1 :
       /\ was <= panel.signed /\ (was = 0 => panel.polls > panel.signed)
       /\ panel' = [panel EXCEPT !.polls = @ - 1, !.signed = @ - was, !.shown = @ \ {"code"}]
  /\ UNCHANGED <<hosted, login, logins, unreached, faulty>> /\ OthersOfPanel

\* The code has expired or was denied, or the answer is lost, of a poll that signed in or of another.
PollFails ==
  /\ panel.polls > 0 /\ Outage
  /\ \E was \in 0..1 :
       /\ was <= panel.signed /\ (was = 0 => panel.polls > panel.signed)
       /\ panel' = [panel EXCEPT !.polls = @ - 1, !.signed = @ - was, !.shown = (@ \ {"code"}) \cup {"connect"}]
       /\ faulty' = (faulty \/ was = 1)
  /\ UNCHANGED <<hosted, login, logins, unreached>> /\ OthersOfPanel

\* The button is not disabled meanwhile: it may be clicked twice.
Disconnect ==
  /\ "disconnect" \in panel.shown /\ Spend("clicks", MaxClicks)
  /\ panel' = [panel EXCEPT !.timer = FALSE, !.outs = @ + 1]
  /\ UNCHANGED <<hosted, login, logins, unreached, faulty>> /\ OthersOfPanel

LogoutServed ==
  /\ panel.outs > panel.outDone
  /\ login' = 0
  /\ panel' = [panel EXCEPT !.outDone = @ + 1]
  /\ UNCHANGED <<hosted, logins, unreached, faulty, spentOn>> /\ OthersOfPanel

LogoutAnswers ==
  /\ panel.outDone > 0
  /\ panel' = Disconnected([panel EXCEPT !.outs = @ - 1, !.outDone = @ - 1])
  /\ UNCHANGED <<hosted, login, logins, unreached, faulty, spentOn>> /\ OthersOfPanel

LogoutFails ==
  /\ panel.outs > 0 /\ Outage
  /\ \E was \in 0..1 :
       /\ was <= panel.outDone /\ (was = 0 => panel.outs > panel.outDone)
       /\ panel' = [panel EXCEPT !.outs = @ - 1, !.outDone = @ - was, !.shown = @ \cup {"disconnect"}]
  /\ faulty' = TRUE
  /\ UNCHANGED <<hosted, login, logins, unreached>> /\ OthersOfPanel

-----------------------------------------------------------------------------
(***************************************************************************)
(* Runs and resets                                                         *)
(***************************************************************************)

OthersOfRun == UNCHANGED <<panelVars, profile, cache, faulty, rejoined>>

\* The first run of a page loads everything a native client loads; the rest start at once.
RunStarts ==
  /\ run = "none" /\ panel.ready /\ Spend("clicks", MaxClicks)
  /\ run' = IF prepared THEN "running" ELSE "user"
  /\ UNCHANGED <<fetch, live, prepared>> /\ OthersOfRun

\* snapshot
UserKnown ==
  /\ run = "user"
  /\ IF profile # NoProfile
       THEN live' = profile /\ run' = "bundle" /\ UNCHANGED fetch
       ELSE fetch' = Joined(Prefetching(fetch), "prefetch", "run") /\ run' = "snapshot" /\ UNCHANGED live
  /\ UNCHANGED <<prepared, spentOn>> /\ OthersOfRun

\* The published bundle is synchronized, or could not be.
BundleSettled ==
  /\ run = "bundle"
  /\ fetch' = RefreshForNewSession("run") /\ run' = "refresh"
  /\ UNCHANGED <<live, prepared, spentOn>> /\ OthersOfRun

\* The managed tools, by the settings of the moment.
ToolsListed ==
  /\ run = "tools"
  /\ fetch' = RefreshForNewSession("run") /\ run' = "refresh again"
  /\ UNCHANGED <<live, prepared, spentOn>> /\ OthersOfRun

BillingKnown ==
  /\ run = "billing"
  /\ run' = "running" /\ prepared' = TRUE
  /\ UNCHANGED <<fetch, live, spentOn>> /\ OthersOfRun

\* As PreparationFails, but the next run does not start over.
PreparationFails_Once ==
  /\ run \in {"user", "tools", "billing"} /\ Outage
  /\ run' = "none" /\ prepared' = TRUE
  /\ UNCHANGED <<fetch, live>> /\ OthersOfRun

\* A resource that cannot be fetched fails the run, and the next one starts over.
PreparationFails ==
  /\ run \in {"user", "tools", "billing"} /\ Outage
  /\ run' = "none"
  /\ UNCHANGED <<fetch, live, prepared>> /\ OthersOfRun

RunEnded ==
  /\ run = "running"
  /\ run' = "none"
  /\ UNCHANGED <<fetch, live, prepared, spentOn>> /\ OthersOfRun

\* Whether or not anyone is signed in.
ResetProject ==
  /\ run = "none" /\ Spend("clicks", MaxClicks)
  /\ fetch' = RefreshForNewSession("page")
  /\ UNCHANGED <<live, run, prepared>> /\ OthersOfRun

-----------------------------------------------------------------------------

StartupInit ==
  /\ hosted \in BOOLEAN
  /\ login \in 0..1 /\ logins = login
  /\ panel = [Restful EXCEPT !.asks = {"status"}]
  /\ fetch = [k \in Fetches |-> NoFetch]
  /\ profile = NoProfile /\ live = NoProfile
  /\ cache \in {"none", "remote"}
  /\ run = "none" /\ prepared = FALSE
  /\ faulty = FALSE /\ rejoined = FALSE /\ unreached = FALSE
  /\ spentOn = [clicks |-> 0, outages |-> 0]

PanelStep ==
  \/ StatusAnswers \/ StatusFails \/ StatusUnanswered \/ LocalAnswers
  \/ StartDeviceAuth \/ DeviceCodeShown \/ StartFails
  \/ PollTimerFires \/ PollSignsIn \/ PollAuthenticates \/ PollPending \/ PollFails
  \/ Disconnect \/ LogoutServed \/ LogoutAnswers \/ LogoutFails

StartupNext ==
  \/ PanelStep
  \/ \E k \in Fetches : SettingsServed(k) \/ SettingsArrive(k) \/ SettingsFail(k)
  \/ \E found \in {"remote", "bundled", "unusable"} : ModelsArrive(found)
  \/ ModelsFail \/ CacheAges
  \/ RunStarts \/ UserKnown \/ BundleSettled \/ ToolsListed \/ BillingKnown
  \/ PreparationFails \/ RunEnded \/ ResetProject

StartupSpec == StartupInit /\ [][StartupNext]_startupVars

-----------------------------------------------------------------------------
(***************************************************************************)
(* Properties                                                              *)
(***************************************************************************)

Profiles == [settings : 0..MaxLogins + 1, models : Catalogs]

StartupTypeOK ==
  /\ login \in 0..logins
  /\ panel.shown \subseteq {"connect", "disconnect", "code"}
  /\ panel.asks \subseteq {"status", "local", "start"}
  /\ panel.signed <= panel.polls /\ panel.outDone <= panel.outs
  /\ \A k \in Fetches : /\ fetch[k].at \in {"idle", "models", "settings", "wait"} /\ fetch[k].got \in Profiles
                      /\ fetch[k].readers \subseteq Readers /\ fetch[k].tries \in 0..2 * SettingsTries
  /\ {profile, live} \subseteq Profiles
  /\ run \in {"none", "user", "snapshot", "bundle", "refresh", "tools", "refresh again", "billing", "running"}

PanelRests ==
  panel.asks = {} /\ panel.polls = 0 /\ panel.outs = 0 /\ ~panel.timer /\ panel.strays = 0

AtRest == PanelRests /\ run = "none" /\ \A k \in Fetches : fetch[k] = NoFetch

(***************************************************************************)
(* Whatever fails and however often buttons are clicked, a panel at rest   *)
(* leaves a button to go on with, and a code that is shown is polled for,  *)
(* but for a second sign-out that fails after the code was shown.          *)
(***************************************************************************)
WayOut == hosted /\ ~unreached /\ PanelRests => panel.shown \cap {"connect", "disconnect"} # {}

CodeIsPolled ==
  panel.shown = {"code"} => panel.timer \/ panel.strays > 0 \/ panel.polls > 0

(***************************************************************************)
(* A page that rests signed in has settings of a sign-in, though resets    *)
(* and runs may have asked for them before it, and be refused after it.    *)
(***************************************************************************)
SignedInSettings ==
  AtRest /\ login > 0 /\ "disconnect" \in panel.shown /\ ~faulty /\ ~rejoined => profile.settings > 0

\* No run goes on without a profile, whichever resource failed before.
RunHasProfile == run = "running" => live # NoProfile

StartupSettles == WayOut /\ CodeIsPolled /\ SignedInSettings /\ RunHasProfile

(***************************************************************************)
(* The page uses the coordinator's profile.  It does not hold: a refresh   *)
(* that fails returns the profile it began with, after another replaced it.*)
(***************************************************************************)
LiveIsTheProfile == AtRest /\ live # NoProfile => live = profile

(***************************************************************************)
(* A page that rests signed in has the models of the account.  It does not *)
(* hold: they are fetched once, even if nobody was signed in.              *)
(***************************************************************************)
SignedInModels ==
  AtRest /\ login > 0 /\ "disconnect" \in panel.shown /\ ~faulty /\ ~rejoined => profile.models = "remote"
=============================================================================
