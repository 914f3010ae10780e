----------------------------- MODULE PageSafety -----------------------------
(***************************************************************************)
(* Proofs, for any values of the constants, about what a page of the       *)
(* browser agent begins with - its sign-in and settings (Startup), the     *)
(* published bundle beside the user's own files (BundleSync) and its       *)
(* skills (Skills) - and about the types of every part of the agent, in    *)
(* their sum (MCAgents).  What the types of its parts rest on are the      *)
(* invariants of AgentSafety, each widened until it carries them.          *)
(***************************************************************************)
EXTENDS AgentSafety, FiniteSetTheorems

(***************************************************************************)
(* The sign-in and the settings                                            *)
(***************************************************************************)

Settings0 == 0..MaxLogins + 1
Heard == {<<>>} \cup {<<s>> : s \in Settings0}
FetchRecords ==
  [at : {"idle", "models", "settings", "wait"}, tries : 0..2 * SettingsTries, got : Profiles,
   heard : Heard, readers : SUBSET Readers]
PanelRecords ==
  [shown : SUBSET {"connect", "disconnect", "code"}, ready : BOOLEAN,
   asks : SUBSET {"status", "local", "start"}, timer : BOOLEAN, strays : Nat,
   polls : Nat, signed : Nat, outs : Nat, outDone : Nat]
RunPlaces ==
  {"none", "user", "snapshot", "bundle", "refresh", "tools", "refresh again", "billing", "running"}

\* The panel, and what is known of who is signed in.
PanelTyped ==
  /\ hosted \in BOOLEAN /\ unreached \in BOOLEAN
  /\ logins \in 0..MaxLogins + 1 /\ login \in 0..logins
  /\ panel \in PanelRecords /\ panel.signed <= panel.polls /\ panel.outDone <= panel.outs
  /\ "local" \in panel.asks /\ hosted => unreached

\* The coordinator's promises, and the profiles they return.
FetchFits(j, k) ==
  /\ j[k].at = "idle" => j[k] = NoFetch
  /\ j[k].at # "settings" => j[k].heard = <<>>
  /\ j[k].at = "settings" => j[k].got.models # "none" /\ j[k].tries > 0
  /\ j[k].at = "models" => k = "prefetch"
  /\ j[k].at = "wait" => k = "reapply"
  /\ k # "prefetch" => j[k].tries <= SettingsTries

FetchesTyped(j) == j \in [Fetches -> FetchRecords] /\ \A k \in Fetches : FetchFits(j, k)

KnownProfile(p) == p \in Profiles /\ (p # NoProfile => p.models # "none")

CoordinatorTyped ==
  FetchesTyped(fetch) /\ KnownProfile(profile) /\ KnownProfile(live) /\ cache \in {"none", "remote", "unusable"}

\* The first fetch comes before every other.
FirstFetchFirst(j) ==
  /\ j["prefetch"].at # "idle" => profile = NoProfile
  /\ j["reapply"].at = "wait" => j["prefetch"].at # "idle"
  /\ profile = NoProfile => j["reapply"].at # "settings" /\ j["postauth"].at = "idle"

\* A run waits for at most one promise, and has a profile once it is past the first.
RunFits ==
  /\ run \in RunPlaces /\ prepared \in BOOLEAN
  /\ (run \notin {"none", "user", "snapshot"} \/ prepared) => live # NoProfile
  /\ \A k \in Fetches : "run" \in fetch[k].readers =>
       /\ run \in {"snapshot", "refresh", "refresh again"}
       /\ \A i \in Fetches : "run" \in fetch[i].readers => i = k

\* What is under way brings the settings of who is signed in, or the profile has them.
WillBring(j, k) == j[k].at = "settings" /\ (j[k].heard = <<>> \/ Head(j[k].heard) > 0)
PrefetchBrings(j) ==
  \/ j["prefetch"].at = "models"
  \/ /\ j["prefetch"].at = "settings"
     /\ \/ j["prefetch"].got.settings > 0 \/ j["prefetch"].tries <= SettingsTries
        \/ j["prefetch"].heard = <<>> \/ Head(j["prefetch"].heard) > 0
PromisesBring(j) ==
  WillBring(j, "reapply") \/ WillBring(j, "postauth") \/ PrefetchBrings(j) \/ j["reapply"].at = "wait"
SettingsComing == profile.settings > 0 \/ PromisesBring(fetch)

Fine == ~faulty /\ ~rejoined
SignedIn == "disconnect" \in panel.shown /\ login > 0 /\ panel.outs = 0 /\ panel.signed = 0
PageReads == "page" \in fetch["prefetch"].readers

SettingsFollow ==
  /\ faulty \in BOOLEAN /\ rejoined \in BOOLEAN
  /\ Fine /\ SignedIn => SettingsComing
  /\ Fine /\ fetch["prefetch"].at # "idle" => PageReads \/ fetch["reapply"].at = "wait"
  /\ Fine /\ (panel.ready \/ run # "none" \/ prepared) => profile # NoProfile \/ PageReads

\* The inductive invariant of a page's start.
StartupInv ==
  /\ PanelTyped /\ WayOut /\ CodeIsPolled
  /\ CoordinatorTyped /\ FirstFetchFirst(fetch) /\ RunFits /\ SettingsFollow

PanelHolds == PanelTyped /\ WayOut /\ CodeIsPolled

\* The panel's fields as they stand.
PanelFields(p) ==
  /\ p.shown \subseteq {"connect", "disconnect", "code"} /\ p.asks \subseteq {"status", "local", "start"}
  /\ p.ready \in BOOLEAN /\ p.timer \in BOOLEAN /\ p.strays \in Nat
  /\ p.polls \in Nat /\ p.signed \in Nat /\ p.signed <= p.polls
  /\ p.outs \in Nat /\ p.outDone \in Nat /\ p.outDone <= p.outs

\* The fields of a panel of its type.
LEMMA PanelIs == ASSUME PanelTyped PROVE PanelFields(panel)
  BY DEF PanelTyped, PanelRecords, PanelFields

\* The answer to who is signed in shows an account or the button to connect (refreshStatus).
LEMMA StatusAnswersPanel == ASSUME PanelHolds, StatusAnswers PROVE PanelHolds'
<1> DEFINE p == Ask(panel, {"status"}, {})
<1>0. PanelFields(panel) /\ panel \in PanelRecords /\ hosted
  BY PanelIs DEF PanelHolds, PanelTyped, StatusAnswers
<1>1. UNCHANGED <<hosted, login, logins, unreached>>
  BY DEF StatusAnswers, ShowAuthenticated
<1>2. \E shows \in {"connect", "disconnect"}, eligible \in BOOLEAN :
        panel' = [panel EXCEPT !.asks = (panel.asks \ {"status"}) \cup {}, !.shown = {shows},
                               !.ready = eligible, !.timer = FALSE]
  <2>1. CASE login > 0
    BY <1>0, <2>1 DEF StatusAnswers, ShowAuthenticated, Ask, PanelRecords
  <2>2. CASE ~(login > 0)
    BY <1>0, <2>2 DEF StatusAnswers, Disconnected, Ask, PanelRecords
  <2> QED BY <2>1, <2>2
<1>3. PICK shows \in {"connect", "disconnect"}, eligible \in BOOLEAN :
        panel' = [panel EXCEPT !.asks = (panel.asks \ {"status"}) \cup {}, !.shown = {shows},
                               !.ready = eligible, !.timer = FALSE]
  BY <1>2
<1>4. PanelFields(panel') /\ panel' \in PanelRecords /\ panel'.shown = {shows}
      /\ panel'.asks = panel.asks \ {"status"}
  BY <1>0, <1>3 DEF PanelRecords, PanelFields
<1>5. PanelTyped'
  BY <1>0, <1>1, <1>4 DEF PanelHolds, PanelTyped, PanelFields
<1> QED BY <1>4, <1>5 DEF PanelHolds, WayOut, CodeIsPolled

\* A developer's server answers, or does not: without a worker there is no button to show.
LEMMA LocalAnswersPanel == ASSUME PanelHolds, LocalAnswers PROVE PanelHolds'
<1>0. PanelFields(panel) /\ panel \in PanelRecords /\ "local" \in panel.asks
  BY PanelIs DEF PanelHolds, PanelTyped, LocalAnswers, Asked
<1>1. UNCHANGED <<hosted, login, logins, unreached>> /\ (hosted => unreached)
  BY <1>0 DEF LocalAnswers, ShowAuthenticated, PanelHolds, PanelTyped
<1>2. \E eligible \in BOOLEAN, timer \in BOOLEAN :
        panel' = [panel EXCEPT !.asks = (panel.asks \ {"local"}) \cup {}, !.shown = {},
                               !.ready = eligible, !.timer = timer]
  <2>1. CASE ~hosted /\ login > 0
    BY <1>0, <2>1 DEF LocalAnswers, ShowAuthenticated, Ask, PanelRecords
  <2>2. CASE ~(~hosted /\ login > 0)
    <3>1. panel' = [Ask(panel, {"local"}, {}) EXCEPT !.shown = {}, !.ready = FALSE]
      BY <2>2 DEF LocalAnswers
    <3>2. panel' = [panel EXCEPT !.asks = (panel.asks \ {"local"}) \cup {}, !.shown = {},
                               !.ready = FALSE, !.timer = panel.timer]
      BY <1>0, <3>1 DEF Ask, PanelRecords
    <3> QED BY <1>0, <3>2 DEF PanelFields
  <2> QED BY <2>1, <2>2
<1>3. PICK eligible \in BOOLEAN, timer \in BOOLEAN :
        panel' = [panel EXCEPT !.asks = (panel.asks \ {"local"}) \cup {}, !.shown = {},
                               !.ready = eligible, !.timer = timer]
  BY <1>2
<1>4. PanelFields(panel') /\ panel' \in PanelRecords /\ panel'.shown = {}
  BY <1>0, <1>3 DEF PanelRecords, PanelFields
<1>5. PanelTyped'
  BY <1>1, <1>4 DEF PanelHolds, PanelTyped, PanelFields
<1> QED BY <1>1, <1>4, <1>5 DEF PanelHolds, WayOut, CodeIsPolled

\* The poll that signed in shows the account and ends the polling (pollDeviceAuth).
LEMMA PollAuthenticatesPanel == ASSUME PanelHolds, PollAuthenticates PROVE PanelHolds'
<1>0. PanelFields(panel) /\ panel \in PanelRecords /\ panel.signed > 0
  BY PanelIs DEF PanelHolds, PanelTyped, PollAuthenticates
<1>1. UNCHANGED <<hosted, login, logins, unreached>>
  BY DEF PollAuthenticates, ShowAuthenticated
<1>2. PICK eligible \in BOOLEAN :
        ShowAuthenticated([panel EXCEPT !.polls = @ - 1, !.signed = @ - 1], eligible)
  BY DEF PollAuthenticates
<1>3. panel' = [panel EXCEPT !.polls = panel.polls - 1, !.signed = panel.signed - 1,
                  !.shown = IF hosted THEN {"disconnect"} ELSE {}, !.ready = eligible, !.timer = FALSE]
  BY <1>0, <1>2 DEF ShowAuthenticated, PanelRecords
<1>4. PanelFields(panel') /\ panel' \in PanelRecords /\ panel'.asks = panel.asks
      /\ panel'.shown = IF hosted THEN {"disconnect"} ELSE {}
  <2>1. /\ panel.polls - 1 \in Nat /\ panel.signed - 1 \in Nat
        /\ panel.signed - 1 <= panel.polls - 1
    BY <1>0 DEF PanelFields
  <2>2. (IF hosted THEN {"disconnect"} ELSE {}) \in SUBSET {"connect", "disconnect", "code"}
    OBVIOUS
  <2> DEFINE fewer == panel.polls - 1
             heard == panel.signed - 1
             shown == IF hosted THEN {"disconnect"} ELSE {}
  <2>3. panel' = [panel EXCEPT !.polls = fewer, !.signed = heard, !.shown = shown,
                               !.ready = eligible, !.timer = FALSE]
    BY <1>3
  <2>4. fewer \in Nat /\ heard \in Nat /\ heard <= fewer /\ shown \in SUBSET {"connect", "disconnect", "code"}
    BY <2>1, <2>2
  <2> HIDE DEF fewer, heard, shown
  <2>5. /\ panel' \in PanelRecords /\ panel'.polls = fewer /\ panel'.signed = heard
        /\ panel'.shown = shown /\ panel'.asks = panel.asks /\ panel'.outs = panel.outs
        /\ panel'.outDone = panel.outDone
    BY <1>0, <2>3, <2>4 DEF PanelRecords
  <2>6. PanelFields(panel')
    BY <1>0, <2>4, <2>5 DEF PanelRecords, PanelFields
  <2> QED BY <2>5, <2>6 DEF shown
<1>5. PanelTyped'
  BY <1>0, <1>1, <1>4 DEF PanelHolds, PanelTyped, PanelFields
<1> QED BY <1>1, <1>4, <1>5 DEF PanelHolds, WayOut, CodeIsPolled

\* The fields of the panel that its other steps leave.
SameShown == panel'.shown = panel.shown /\ panel'.ready = panel.ready
SameTimers == panel'.timer = panel.timer /\ panel'.strays = panel.strays
SamePolls == panel'.polls = panel.polls /\ panel'.signed = panel.signed
SameOuts == panel'.outs = panel.outs /\ panel'.outDone = panel.outDone

\* No account is shown anew, and no run may start that might not before.
Quiet ==
  /\ panel'.ready => panel.ready
  /\ faulty \in BOOLEAN => faulty' \in BOOLEAN
  /\ ~faulty' => ~faulty /\ (SignedIn' => SignedIn)

\* A step that shows no account and ends neither a poll nor a sign-out is quiet.
LEMMA ShownIsQuiet ==
  ASSUME SamePolls, SameOuts, panel'.shown \subseteq panel.shown \cup {"connect", "code"},
         panel'.ready => panel.ready, login' = login, faulty' = faulty
  PROVE  Quiet
  BY DEF Quiet, SignedIn, SamePolls, SameOuts

\* Steps that only ask, or are answered without an account.
LEMMA QuietPanel ==
  ASSUME PanelHolds, StatusFails \/ StatusUnanswered \/ StartDeviceAuth \/ DeviceCodeShown \/ StartFails
  PROVE  PanelHolds' /\ Quiet
<1>0. PanelFields(panel) /\ panel \in PanelRecords
  BY PanelIs DEF PanelHolds, PanelTyped
<1>1. CASE StatusFails
  <2>1. panel' = [panel EXCEPT !.asks = (panel.asks \ {"status"}) \cup {}, !.shown = {"connect"},
                               !.ready = FALSE, !.timer = FALSE]
    BY <1>0, <1>1 DEF StatusFails, Disconnected, Ask, PanelRecords
  <2>2. /\ PanelFields(panel') /\ panel' \in PanelRecords /\ panel'.asks = panel.asks \ {"status"}
        /\ SamePolls /\ SameOuts /\ panel'.shown = {"connect"} /\ panel'.ready = FALSE
    BY <1>0, <2>1 DEF PanelRecords, PanelFields, SamePolls, SameOuts
  <2>3. PanelTyped'
    BY <1>1, <2>2 DEF PanelHolds, PanelTyped, PanelFields, StatusFails
  <2>9. Quiet
    <3>1. login' = login /\ faulty' = faulty
      BY <1>1 DEF StatusFails
    <3> QED BY <2>2, <3>1, ShownIsQuiet DEF SameShown
  <2> QED BY <2>9, <2>2, <2>3 DEF PanelHolds, WayOut, CodeIsPolled
<1>2. CASE StatusUnanswered
  <2>1. panel' = [panel EXCEPT !.asks = (panel.asks \ {"status"}) \cup {"local"}]
    BY <1>0, <1>2 DEF StatusUnanswered, Ask, PanelRecords
  <2>2. /\ PanelFields(panel') /\ panel' \in PanelRecords /\ "local" \in panel'.asks
        /\ SamePolls /\ SameOuts /\ SameShown /\ SameTimers
    BY <1>0, <2>1 DEF PanelRecords, PanelFields, SamePolls, SameOuts, SameShown, SameTimers
  <2>3. PanelTyped'
    BY <1>2, <2>2 DEF PanelHolds, PanelTyped, PanelFields, StatusUnanswered
  <2>4. CodeIsPolled'
    BY <2>2 DEF PanelHolds, CodeIsPolled, SameShown, SameTimers, SamePolls
  <2>5. WayOut'
    BY <2>2 DEF WayOut, PanelRests
  <2>9. Quiet
    <3>1. login' = login /\ faulty' = faulty
      BY <1>2 DEF StatusUnanswered
    <3> QED BY <2>2, <3>1, ShownIsQuiet DEF SameShown
  <2> QED BY <2>9, <2>2, <2>3, <2>4, <2>5 DEF PanelHolds, SameShown
<1>3. CASE StartDeviceAuth
  <2>1. panel' = [panel EXCEPT !.asks = (panel.asks \ {}) \cup {"start"}, !.timer = FALSE,
                               !.shown = panel.shown \ {"code"}]
    BY <1>0, <1>3 DEF StartDeviceAuth, Ask, PanelRecords
  <2>2. /\ PanelFields(panel') /\ panel' \in PanelRecords /\ panel'.asks = panel.asks \cup {"start"}
        /\ SamePolls /\ SameOuts /\ panel'.shown = panel.shown \ {"code"} /\ panel'.ready = panel.ready
    BY <1>0, <2>1 DEF PanelRecords, PanelFields, SamePolls, SameOuts
  <2>3. PanelTyped'
    BY <1>3, <2>2 DEF PanelHolds, PanelTyped, PanelFields, StartDeviceAuth
  <2>4. WayOut' /\ CodeIsPolled'
    BY <2>2 DEF WayOut, PanelRests, CodeIsPolled
  <2>9. Quiet
    <3>1. login' = login /\ faulty' = faulty
      BY <1>3 DEF StartDeviceAuth
    <3> QED BY <2>2, <3>1, ShownIsQuiet DEF SameShown
  <2> QED BY <2>9, <2>2, <2>3, <2>4 DEF PanelHolds
<1>4. CASE DeviceCodeShown
  <2>1. PICK strays \in Nat :
          panel' = [panel EXCEPT !.asks = (panel.asks \ {"start"}) \cup {}, !.timer = TRUE,
                       !.strays = strays, !.shown = (panel.shown \ {"connect"}) \cup {"code"}]
    <3>1. panel' = [panel EXCEPT !.asks = (panel.asks \ {"start"}) \cup {}, !.timer = TRUE,
                       !.strays = IF panel.timer THEN panel.strays + 1 ELSE panel.strays,
                       !.shown = (panel.shown \ {"connect"}) \cup {"code"}]
      BY <1>0, <1>4 DEF DeviceCodeShown, Ask, Armed, PanelRecords
    <3>2. (IF panel.timer THEN panel.strays + 1 ELSE panel.strays) \in Nat
      BY <1>0 DEF PanelFields
    <3> QED BY <3>1, <3>2
  <2>2. /\ PanelFields(panel') /\ panel' \in PanelRecords /\ panel'.asks = panel.asks \ {"start"}
        /\ SamePolls /\ SameOuts /\ panel'.shown = (panel.shown \ {"connect"}) \cup {"code"}
        /\ panel'.timer = TRUE /\ panel'.ready = panel.ready
    BY <1>0, <2>1 DEF PanelRecords, PanelFields, SamePolls, SameOuts
  <2>3. PanelTyped'
    BY <1>4, <2>2 DEF PanelHolds, PanelTyped, PanelFields, DeviceCodeShown
  <2>4. WayOut' /\ CodeIsPolled'
    BY <2>2 DEF WayOut, PanelRests, CodeIsPolled
  <2>9. Quiet
    <3>1. login' = login /\ faulty' = faulty
      BY <1>4 DEF DeviceCodeShown
    <3> QED BY <2>2, <3>1, ShownIsQuiet DEF SameShown
  <2> QED BY <2>9, <2>2, <2>3, <2>4 DEF PanelHolds
<1>5. CASE StartFails
  <2>1. panel' = [panel EXCEPT !.asks = (panel.asks \ {"start"}) \cup {},
                               !.shown = panel.shown \cup {"connect"}]
    BY <1>0, <1>5 DEF StartFails, Ask, PanelRecords
  <2>2. /\ PanelFields(panel') /\ panel' \in PanelRecords /\ panel'.asks = panel.asks \ {"start"}
        /\ SamePolls /\ SameOuts /\ panel'.shown = panel.shown \cup {"connect"}
        /\ panel'.ready = panel.ready
    BY <1>0, <2>1 DEF PanelRecords, PanelFields, SamePolls, SameOuts
  <2>3. PanelTyped'
    BY <1>5, <2>2 DEF PanelHolds, PanelTyped, PanelFields, StartFails
  <2>4. WayOut' /\ CodeIsPolled'
    BY <2>2 DEF WayOut, PanelRests, CodeIsPolled
  <2>9. Quiet
    <3>1. login' = login /\ faulty' = faulty
      BY <1>5 DEF StartFails
    <3> QED BY <2>2, <3>1, ShownIsQuiet DEF SameShown
  <2> QED BY <2>9, <2>2, <2>3, <2>4 DEF PanelHolds
<1> QED BY <1>1, <1>2, <1>3, <1>4, <1>5

\* The steps of the poll.
LEMMA TimerPanel == ASSUME PanelHolds, PollTimerFires PROVE PanelHolds' /\ Quiet
<1>0. PanelFields(panel) /\ panel \in PanelRecords
  BY PanelIs DEF PanelHolds, PanelTyped
<1>1. panel.polls + 1 \in Nat /\ panel.polls + 1 > 0 /\ panel.signed <= panel.polls + 1
  BY <1>0 DEF PanelFields
<1>2. PICK strays \in Nat, more \in Nat :
        /\ panel' = [panel EXCEPT !.timer = FALSE, !.polls = more, !.strays = strays]
        /\ more = panel.polls + 1
  <2>1. CASE panel' = [panel EXCEPT !.timer = FALSE, !.polls = @ + 1]
    <3>1. panel' = [panel EXCEPT !.timer = FALSE, !.polls = panel.polls + 1, !.strays = panel.strays]
      BY <1>0, <2>1 DEF PanelRecords
    <3>2. panel.strays \in Nat
      BY <1>0 DEF PanelFields
    <3> QED BY <1>1, <3>1, <3>2
  <2>2. CASE /\ panel.strays > 0
             /\ panel' = [panel EXCEPT !.timer = FALSE, !.polls = @ + 1,
                                       !.strays = IF panel.timer THEN @ ELSE @ - 1]
    <3>1. (IF panel.timer THEN panel.strays ELSE panel.strays - 1) \in Nat
      BY <1>0, <2>2 DEF PanelFields
    <3> QED BY <1>1, <2>2, <3>1
  <2> QED BY <2>1, <2>2 DEF PollTimerFires
<1>3. /\ panel' \in PanelRecords /\ panel'.asks = panel.asks /\ panel'.polls = more
      /\ panel'.signed = panel.signed /\ SameOuts /\ SameShown
  BY <1>0, <1>2 DEF PanelRecords, SameShown, SameOuts
<1>4. PanelFields(panel')
  BY <1>0, <1>1, <1>2, <1>3 DEF PanelRecords, PanelFields, SameOuts
<1>5. PanelTyped'
  BY <1>3, <1>4 DEF PanelHolds, PanelTyped, PanelFields, PollTimerFires
<1>6. WayOut' /\ CodeIsPolled'
  BY <1>1, <1>2, <1>3 DEF WayOut, PanelRests, CodeIsPolled
<1>7. Quiet
  BY <1>3 DEF Quiet, SignedIn, PollTimerFires, SameOuts, SameShown
<1> QED BY <1>5, <1>6, <1>7 DEF PanelHolds

\* The server signs the browser in while the poll is under way.
LEMMA SignsInPanel == ASSUME PanelHolds, PollSignsIn PROVE PanelHolds' /\ Quiet
<1>0. PanelFields(panel) /\ panel \in PanelRecords
  BY PanelIs DEF PanelHolds, PanelTyped
<1>1. /\ panel.polls > panel.signed /\ logins < MaxLogins /\ login' = logins + 1 /\ logins' = logins + 1
      /\ UNCHANGED <<hosted, unreached, faulty>> /\ logins \in Nat /\ MaxLogins \in Nat
      /\ panel' = [panel EXCEPT !.signed = panel.signed + 1]
  BY StartupAssumption DEF PollSignsIn, PanelHolds, PanelTyped
<1>2. panel.signed + 1 \in Nat /\ panel.signed + 1 > 0 /\ panel.signed + 1 <= panel.polls /\ panel.polls > 0
  BY <1>0, <1>1 DEF PanelFields
<1>3. /\ panel' \in PanelRecords /\ panel'.asks = panel.asks /\ panel'.polls = panel.polls
      /\ panel'.signed = panel.signed + 1 /\ SameOuts /\ SameShown
  BY <1>0, <1>1, <1>2 DEF PanelRecords, SameShown, SameOuts
<1>4. PanelFields(panel')
  BY <1>0, <1>2, <1>3 DEF PanelRecords, PanelFields, SameOuts
<1>5. PanelTyped'
  BY <1>1, <1>3, <1>4 DEF PanelHolds, PanelTyped, PanelFields
<1>6. WayOut' /\ CodeIsPolled'
  BY <1>2, <1>3 DEF WayOut, PanelRests, CodeIsPolled
<1>7. Quiet
  BY <1>1, <1>2, <1>3 DEF Quiet, SignedIn, SameOuts, SameShown
<1> QED BY <1>5, <1>6, <1>7 DEF PanelHolds

\* A poll that is still pending sets its timer again.
LEMMA PendingPanel == ASSUME PanelHolds, PollPending PROVE PanelHolds' /\ Quiet
<1>0. PanelFields(panel) /\ panel \in PanelRecords
  BY PanelIs DEF PanelHolds, PanelTyped
<1>1. panel.polls > panel.signed /\ UNCHANGED <<hosted, login, logins, unreached, faulty>>
  BY DEF PollPending
<1>2. panel.polls - 1 \in Nat /\ panel.signed <= panel.polls - 1
  BY <1>0, <1>1 DEF PanelFields
<1>3. PICK strays \in Nat, fewer \in Nat :
        /\ panel' = [panel EXCEPT !.timer = TRUE, !.polls = fewer, !.strays = strays]
        /\ fewer = panel.polls - 1
  <2>1. panel' = [panel EXCEPT !.polls = panel.polls - 1, !.timer = TRUE,
                               !.strays = IF panel.timer THEN panel.strays + 1 ELSE panel.strays]
    BY <1>0 DEF PollPending, Armed, PanelRecords
  <2>2. (IF panel.timer THEN panel.strays + 1 ELSE panel.strays) \in Nat
    BY <1>0 DEF PanelFields
  <2>3. [panel EXCEPT !.polls = panel.polls - 1, !.timer = TRUE,
                      !.strays = IF panel.timer THEN panel.strays + 1 ELSE panel.strays]
        = [panel EXCEPT !.timer = TRUE, !.polls = panel.polls - 1,
                        !.strays = IF panel.timer THEN panel.strays + 1 ELSE panel.strays]
    BY <1>0 DEF PanelRecords
  <2> QED BY <1>2, <2>1, <2>2, <2>3
<1>4. /\ panel' \in PanelRecords /\ panel'.asks = panel.asks /\ panel'.polls = fewer
      /\ panel'.signed = panel.signed /\ SameOuts /\ SameShown /\ panel'.timer = TRUE
  BY <1>0, <1>3 DEF PanelRecords, SameShown, SameOuts
<1>5. PanelFields(panel')
  BY <1>0, <1>2, <1>3, <1>4 DEF PanelRecords, PanelFields, SameOuts
<1>6. PanelTyped'
  BY <1>1, <1>4, <1>5 DEF PanelHolds, PanelTyped, PanelFields
<1>7. WayOut' /\ CodeIsPolled'
  BY <1>4 DEF WayOut, PanelRests, CodeIsPolled
<1>8. Quiet
  BY <1>1, <1>4 DEF Quiet, SignedIn, SameOuts, SameShown
<1> QED BY <1>6, <1>7, <1>8 DEF PanelHolds

\* A poll that fails hides the code and shows the button to begin again.
LEMMA PollFailsPanel == ASSUME PanelHolds, PollFails PROVE PanelHolds' /\ Quiet
<1>0. PanelFields(panel) /\ panel \in PanelRecords
  BY PanelIs DEF PanelHolds, PanelTyped
<1>1. panel.polls > 0 /\ UNCHANGED <<hosted, login, logins, unreached>>
  BY DEF PollFails
<1>2. PICK was \in 0..1 :
        /\ was <= panel.signed /\ (was = 0 => panel.polls > panel.signed)
        /\ panel' = [panel EXCEPT !.polls = @ - 1, !.signed = @ - was, !.shown = (@ \ {"code"}) \cup {"connect"}]
        /\ faulty' = (faulty \/ was = 1)
  BY DEF PollFails
<1>3. /\ panel.polls - 1 \in Nat /\ panel.signed - was \in Nat /\ panel.signed - was <= panel.polls - 1
      /\ (was # 1 => panel.signed - was = panel.signed)
  BY <1>0, <1>1, <1>2 DEF PanelFields
<1>4. /\ panel' \in PanelRecords /\ panel'.asks = panel.asks /\ panel'.polls = panel.polls - 1
      /\ panel'.signed = panel.signed - was /\ SameOuts
      /\ panel'.shown = (panel.shown \ {"code"}) \cup {"connect"} /\ panel'.ready = panel.ready
  BY <1>0, <1>2, <1>3 DEF PanelRecords, SameOuts
<1>5. PanelFields(panel')
  BY <1>0, <1>3, <1>4 DEF PanelRecords, PanelFields, SameOuts
<1>6. PanelTyped'
  BY <1>1, <1>4, <1>5 DEF PanelHolds, PanelTyped, PanelFields
<1>7. WayOut' /\ CodeIsPolled'
  BY <1>4 DEF WayOut, PanelRests, CodeIsPolled
<1>8. Quiet
  <2>1. CASE was = 1
    BY <1>2, <1>4, <2>1 DEF Quiet
  <2>2. CASE was # 1
    BY <1>1, <1>2, <1>3, <1>4, <2>2 DEF Quiet, SignedIn, SameOuts
  <2> QED BY <2>1, <2>2
<1> QED BY <1>6, <1>7, <1>8 DEF PanelHolds

\* The steps of signing out.
LEMMA OutsPanel ==
  ASSUME PanelHolds, Disconnect \/ LogoutServed \/ LogoutAnswers \/ LogoutFails PROVE PanelHolds' /\ Quiet
<1>0. PanelFields(panel) /\ panel \in PanelRecords
  BY PanelIs DEF PanelHolds, PanelTyped
<1>1. CASE Disconnect
  <2>1. /\ panel' = [panel EXCEPT !.timer = FALSE, !.outs = panel.outs + 1]
        /\ UNCHANGED <<hosted, login, logins, unreached, faulty>> /\ "disconnect" \in panel.shown
    BY <1>1 DEF Disconnect
  <2>2. panel.outs + 1 \in Nat /\ panel.outDone <= panel.outs + 1 /\ panel.outs + 1 # 0
    BY <1>0 DEF PanelFields
  <2>3. /\ panel' \in PanelRecords /\ panel'.asks = panel.asks /\ panel'.outs = panel.outs + 1
        /\ panel'.outDone = panel.outDone /\ SamePolls /\ SameShown
    BY <1>0, <2>1, <2>2 DEF PanelRecords, SameShown, SamePolls
  <2>4. PanelFields(panel')
    BY <1>0, <2>2, <2>3 DEF PanelRecords, PanelFields, SamePolls
  <2>5. PanelTyped'
    BY <2>1, <2>3, <2>4 DEF PanelHolds, PanelTyped, PanelFields
  <2>6. WayOut' /\ CodeIsPolled' /\ Quiet
    BY <2>1, <2>2, <2>3 DEF WayOut, PanelRests, CodeIsPolled, SameShown, Quiet, SignedIn
  <2> QED BY <2>5, <2>6 DEF PanelHolds
<1>2. CASE LogoutServed
  <2>1. /\ panel' = [panel EXCEPT !.outDone = panel.outDone + 1] /\ login' = 0
        /\ UNCHANGED <<hosted, logins, unreached, faulty>> /\ panel.outs > panel.outDone /\ logins \in Nat
    BY <1>2, StartupAssumption DEF LogoutServed, PanelHolds, PanelTyped
  <2>2. panel.outDone + 1 \in Nat /\ panel.outDone + 1 <= panel.outs /\ panel.outs > 0 /\ 0 \in 0..logins
    BY <1>0, <2>1 DEF PanelFields
  <2>3. /\ panel' \in PanelRecords /\ panel'.asks = panel.asks /\ panel'.outs = panel.outs
        /\ panel'.outDone = panel.outDone + 1 /\ SamePolls /\ SameShown /\ SameTimers
    BY <1>0, <2>1, <2>2 DEF PanelRecords, SameShown, SamePolls, SameTimers
  <2>4. PanelFields(panel')
    BY <1>0, <2>2, <2>3 DEF PanelRecords, PanelFields, SamePolls
  <2>5. PanelTyped'
    BY <2>1, <2>2, <2>3, <2>4 DEF PanelHolds, PanelTyped, PanelFields
  <2>6. WayOut' /\ Quiet
    BY <2>1, <2>2, <2>3 DEF WayOut, PanelRests, SameShown, Quiet, SignedIn
  <2>7. CodeIsPolled'
    BY <2>3 DEF PanelHolds, CodeIsPolled, SameShown, SamePolls, SameTimers
  <2> QED BY <2>5, <2>6, <2>7 DEF PanelHolds
<1>3. CASE LogoutAnswers
  <2>1. /\ panel' = [panel EXCEPT !.outs = panel.outs - 1, !.outDone = panel.outDone - 1,
                        !.shown = {"connect"}, !.ready = FALSE, !.timer = FALSE]
        /\ UNCHANGED <<hosted, login, logins, unreached, faulty>> /\ panel.outDone > 0
    BY <1>0, <1>3 DEF LogoutAnswers, Disconnected, PanelRecords
  <2>2. panel.outDone - 1 \in Nat /\ panel.outs - 1 \in Nat /\ panel.outDone - 1 <= panel.outs - 1
    BY <1>0, <2>1 DEF PanelFields
  <2>3. /\ panel' \in PanelRecords /\ panel'.asks = panel.asks /\ panel'.outs = panel.outs - 1
        /\ panel'.outDone = panel.outDone - 1 /\ SamePolls /\ panel'.shown = {"connect"} /\ panel'.ready = FALSE
    BY <1>0, <2>1, <2>2 DEF PanelRecords, SamePolls
  <2>4. PanelFields(panel')
    BY <1>0, <2>2, <2>3 DEF PanelRecords, PanelFields, SamePolls
  <2>5. PanelTyped'
    BY <2>1, <2>3, <2>4 DEF PanelHolds, PanelTyped, PanelFields
  <2>6. WayOut' /\ CodeIsPolled' /\ Quiet
    BY <2>1, <2>3 DEF WayOut, PanelRests, CodeIsPolled, Quiet, SignedIn
  <2> QED BY <2>5, <2>6 DEF PanelHolds
<1>4. CASE LogoutFails
  <2>1. PICK was \in 0..1 :
          /\ was <= panel.outDone /\ (was = 0 => panel.outs > panel.outDone)
          /\ panel' = [panel EXCEPT !.outs = @ - 1, !.outDone = @ - was, !.shown = @ \cup {"disconnect"}]
    BY <1>4 DEF LogoutFails
  <2>2. /\ UNCHANGED <<hosted, login, logins, unreached>> /\ faulty' = TRUE /\ panel.outs > 0
    BY <1>4 DEF LogoutFails
  <2>3. panel.outDone - was \in Nat /\ panel.outs - 1 \in Nat /\ panel.outDone - was <= panel.outs - 1
    BY <1>0, <2>1, <2>2 DEF PanelFields
  <2>4. /\ panel' \in PanelRecords /\ panel'.asks = panel.asks /\ panel'.outs = panel.outs - 1
        /\ panel'.outDone = panel.outDone - was /\ SamePolls
        /\ panel'.shown = panel.shown \cup {"disconnect"} /\ panel'.ready = panel.ready
    BY <1>0, <2>1, <2>3 DEF PanelRecords, SamePolls
  <2>5. PanelFields(panel')
    BY <1>0, <2>3, <2>4 DEF PanelRecords, PanelFields, SamePolls
  <2>6. PanelTyped'
    BY <2>2, <2>4, <2>5 DEF PanelHolds, PanelTyped, PanelFields
  <2>7. WayOut' /\ CodeIsPolled'
    BY <2>4 DEF WayOut, PanelRests, CodeIsPolled
  <2>8. Quiet
    BY <2>2, <2>4 DEF Quiet
  <2> QED BY <2>6, <2>7, <2>8 DEF PanelHolds
<1> QED BY <1>1, <1>2, <1>3, <1>4

\* Where no account is shown anew, what the coordinator brings is as good as before.
LEMMA QuietStep ==
  ASSUME StartupInv, PanelHolds', Quiet, OthersOfPanel
  PROVE  StartupInv'
<1>1. CoordinatorTyped' /\ FirstFetchFirst(fetch)' /\ RunFits'
  BY DEF StartupInv, OthersOfPanel, CoordinatorTyped, FirstFetchFirst, RunFits
<1>2. SettingsFollow'
  <2>1. SettingsComing' = SettingsComing /\ PageReads' = PageReads
    BY DEF OthersOfPanel, SettingsComing, PageReads
  <2> QED BY <2>1 DEF StartupInv, SettingsFollow, OthersOfPanel, Quiet, Fine
<1> QED BY <1>1, <1>2 DEF PanelHolds, StartupInv

-----------------------------------------------------------------------------
(***************************************************************************)
(* Promises are begun and joined                                           *)
(***************************************************************************)

\* What is idle in j may be begun in q, with no reader yet; the rest is as it was.
Opens(j, q) ==
  /\ FetchesTyped(q)
  /\ \A i \in Fetches : (j[i].at # "idle" => q[i] = j[i]) /\ q[i].readers = j[i].readers

\* A reader waits for k.
Joins(j, q, k, reader) ==
  /\ FetchesTyped(q)
  /\ \A i \in Fetches :
       /\ q[i].readers = IF i = k THEN j[i].readers \cup {reader} ELSE j[i].readers
       /\ q[i].at = j[i].at /\ q[i].tries = j[i].tries /\ q[i].got = j[i].got /\ q[i].heard = j[i].heard

\* Bounds the profiles and the tries are within.
LEMMA StartupNumbers ==
  /\ SettingsTries \in Nat /\ SettingsTries > 0 /\ MaxLogins \in Nat
  /\ 0 \in Settings0 /\ 0 \in 0..2 * SettingsTries /\ 1 \in 0..2 * SettingsTries
  /\ 1 <= SettingsTries
  BY StartupAssumption DEF Settings0

\* The profile before the first fetch.
LEMMA NoProfileTyped == NoProfile \in Profiles /\ NoProfile.models = "none" /\ NoProfile.settings = 0
  BY StartupNumbers DEF NoProfile, Profiles, Catalogs, Settings0

\* A promise that nobody has asked for.
LEMMA NoFetchTyped ==
  /\ NoFetch \in FetchRecords /\ NoFetch.at = "idle" /\ NoFetch.heard = <<>> /\ NoFetch.readers = {}
  /\ NoFetch.tries = 0
  BY StartupNumbers, NoProfileTyped DEF NoFetch, FetchRecords, Heard, Readers

\* A promise that has just begun.
JustBegun(r, place, tries, got) ==
  /\ r \in FetchRecords /\ r.at = place /\ r.tries = tries /\ r.got = got /\ r.heard = <<>> /\ r.readers = {}

\* A refresh that waits for the first fetch.
LEMMA FreshWait == JustBegun([NoFetch EXCEPT !.at = "wait"], "wait", 0, NoProfile)
<1>1. NoFetch.got = NoProfile
  BY DEF NoFetch
<1> QED BY <1>1, NoFetchTyped DEF FetchRecords, JustBegun

\* A first fetch that begins, with the models in storage or to be fetched.
LEMMA FreshModels ==
  ASSUME NEW place \in {"models", "settings", "wait"}, NEW tries \in 0..1, NEW models \in Catalogs
  PROVE  JustBegun([NoFetch EXCEPT !.at = place, !.tries = tries, !.got.models = models], place, tries,
               [NoProfile EXCEPT !.models = models])
<1> DEFINE got == [NoProfile EXCEPT !.models = models]
<1>1. got \in Profiles /\ NoFetch.got = NoProfile
  BY NoProfileTyped DEF Profiles, NoFetch
<1>2. [NoFetch EXCEPT !.at = place, !.tries = tries, !.got.models = models]
      = [NoFetch EXCEPT !.at = place, !.tries = tries, !.got = got]
  BY <1>1 DEF NoFetch
<1>3. tries \in 0..2 * SettingsTries
  BY StartupNumbers
<1> HIDE DEF got
<1>4. JustBegun([NoFetch EXCEPT !.at = place, !.tries = tries, !.got = got], place, tries, got)
  BY <1>1, <1>3, NoFetchTyped DEF FetchRecords, JustBegun
<1> QED BY <1>2, <1>4 DEF got

\* Who joins a promise changes its readers alone.
LEMMA JoinedJoins ==
  ASSUME NEW j, FetchesTyped(j), NEW k \in Fetches, j[k].at # "idle", NEW reader \in Readers
  PROVE  Joins(j, Joined(j, k, reader), k, reader)
<1> DEFINE q == Joined(j, k, reader)
           r == [j[k] EXCEPT !.readers = j[k].readers \cup {reader}]
<1>1. q = [j EXCEPT ![k] = r] /\ j \in [Fetches -> FetchRecords]
  BY DEF Joined, FetchesTyped
<1>2. /\ r \in FetchRecords /\ r.at = j[k].at /\ r.tries = j[k].tries /\ r.got = j[k].got
      /\ r.heard = j[k].heard /\ r.readers = j[k].readers \cup {reader}
  BY <1>1 DEF FetchRecords, Readers
<1> HIDE DEF r, q
<1>3. q \in [Fetches -> FetchRecords] /\ q[k] = r /\ \A i \in Fetches \ {k} : q[i] = j[i]
  BY <1>1, <1>2
<1>4. ASSUME NEW i \in Fetches PROVE FetchFits(q, i)
  <2>1. CASE i = k
    BY <1>2, <1>3, <2>1 DEF FetchFits, FetchesTyped
  <2>2. CASE i # k
    BY <1>3, <2>2 DEF FetchFits, FetchesTyped
  <2> QED BY <2>1, <2>2
<1>5. FetchesTyped(q)
  BY <1>3, <1>4 DEF FetchesTyped
<1>6. Joins(j, q, k, reader)
  BY <1>2, <1>3, <1>5 DEF Joins
<1> QED BY <1>6 DEF q

\* The three kinds of promises by name.
LEMMA FetchNames == {"prefetch", "reapply", "postauth"} = Fetches
  BY DEF Fetches

\* To join, or begin, a promise takes nothing from what is brought.
LEMMA JoinsKeep ==
  ASSUME NEW j, NEW q, NEW k, NEW reader, Joins(j, q, k, reader)
  PROVE  /\ PromisesBring(j) => PromisesBring(q)
         /\ FirstFetchFirst(j) => FirstFetchFirst(q)
<1>1. ASSUME NEW i \in Fetches
      PROVE  q[i].at = j[i].at /\ q[i].tries = j[i].tries /\ q[i].got = j[i].got /\ q[i].heard = j[i].heard
  BY DEF Joins
<1> QED BY <1>1, FetchNames DEF PromisesBring, WillBring, PrefetchBrings, FirstFetchFirst

\* What is begun beside others takes nothing from what they bring.
LEMMA OpensKeep ==
  ASSUME NEW j, NEW q, Opens(j, q)
  PROVE  /\ PromisesBring(j) => PromisesBring(q)
         /\ j["reapply"].at = "wait" => q["reapply"].at = "wait"
<1>1. ASSUME NEW i \in Fetches PROVE j[i].at # "idle" => q[i] = j[i]
  BY DEF Opens
<1> QED BY <1>1, FetchNames DEF PromisesBring, WillBring, PrefetchBrings

\* Promise k of j is begun in q as r.
Begun(j, q, k, r) == Opens(j, q) /\ q[k] = r /\ \A i \in Fetches \ {k} : q[i] = j[i]

FreshFits(r, k) ==
  /\ r \in FetchRecords /\ r.at # "idle" /\ r.readers = {} /\ r.heard = <<>>
  /\ (r.at = "models" => k = "prefetch") /\ (r.at = "wait" => k = "reapply") /\ r.tries <= SettingsTries
  /\ (r.at = "settings" => r.got.models # "none" /\ r.tries > 0)

PutsAt(j, q, k, r) ==
  q \in [Fetches -> FetchRecords] /\ q[k] = r /\ \A i \in Fetches \ {k} : q[i] = j[i]

\* To begin one promise leaves the others.
LEMMA BeginsOne ==
  ASSUME NEW j, FetchesTyped(j), NEW k \in Fetches, j[k].at = "idle", NEW r, FreshFits(r, k),
         NEW q, PutsAt(j, q, k, r)
  PROVE  Begun(j, q, k, r)
<1>1. q \in [Fetches -> FetchRecords] /\ q[k] = r /\ \A i \in Fetches \ {k} : q[i] = j[i]
  BY DEF PutsAt
<1>2. j[k].readers = {}
  BY NoFetchTyped DEF FetchesTyped, FetchFits
<1>3. ASSUME NEW i \in Fetches PROVE FetchFits(q, i)
  BY <1>1 DEF FetchFits, FetchesTyped, FreshFits
<1>4. Opens(j, q)
  BY <1>1, <1>2, <1>3 DEF Opens, FetchesTyped, FreshFits
<1> QED BY <1>1, <1>4 DEF Begun

\* The first fetch is begun, and may bring settings as long as it is not answered.
LEMMA PrefetchingOpens ==
  ASSUME CoordinatorTyped
  PROVE  /\ Opens(fetch, Prefetching(fetch)) /\ Prefetching(fetch)["prefetch"].at # "idle"
         /\ \A i \in Fetches \ {"prefetch"} : Prefetching(fetch)[i] = fetch[i]
         /\ fetch["prefetch"].at = "idle" => PrefetchBrings(Prefetching(fetch))
         /\ Prefetching(fetch)["prefetch"].readers = fetch["prefetch"].readers
<1> DEFINE place == IF cache = "none" THEN "models" ELSE "settings"
           tries == IF cache = "none" THEN 0 ELSE 1
           got == [NoProfile EXCEPT !.models = CachedModels]
           r == [NoFetch EXCEPT !.at = place, !.tries = tries, !.got.models = CachedModels]
<1>0. FetchesTyped(fetch) /\ "prefetch" \in Fetches
  BY DEF CoordinatorTyped, Fetches
<1>1. CASE fetch["prefetch"].at # "idle"
  BY <1>0, <1>1 DEF Prefetching, Opens
<1>2. CASE fetch["prefetch"].at = "idle"
  <2>1. place \in {"models", "settings", "wait"} /\ tries \in 0..1 /\ place \notin {"wait", "idle"} /\ (place = "settings" => tries = 1)
    OBVIOUS
  <2>2. CachedModels \in Catalogs /\ got \in Profiles /\ got.models # "none"
    BY NoProfileTyped DEF CoordinatorTyped, CachedModels, Profiles, Catalogs
  <2>3. Prefetching(fetch) = [fetch EXCEPT !["prefetch"] = r]
    BY <1>2 DEF Prefetching
  <2>4. JustBegun(r, place, tries, got)
    BY <2>1, <2>2, FreshModels
  <2> HIDE DEF place, tries, got, r
  <2>5. tries <= SettingsTries
    BY <2>1, StartupNumbers
  <2>6. FreshFits(r, "prefetch")
    BY <2>1, <2>2, <2>4, <2>5 DEF JustBegun, FreshFits
  <2>7. Begun(fetch, Prefetching(fetch), "prefetch", r)
    <3>1. PutsAt(fetch, Prefetching(fetch), "prefetch", r)
      BY <1>0, <2>3, <2>6 DEF PutsAt, FetchesTyped, FreshFits
    <3> QED BY <1>0, <1>2, <2>6, <3>1, BeginsOne
  <2>8. PrefetchBrings(Prefetching(fetch))
    BY <2>1, <2>4, <2>7 DEF PrefetchBrings, JustBegun, Begun
  <2> QED BY <1>0, <2>1, <2>4, <2>7, <2>8 DEF Opens, JustBegun, Begun
<1> QED BY <1>1, <1>2

\* A refresh is begun, of a profile or of the one the first fetch is to bring.
LEMMA RefreshingOpens ==
  ASSUME CoordinatorTyped, FirstFetchFirst(fetch), NEW k \in {"reapply", "postauth"}, fetch[k].at = "idle",
         profile = NoProfile => k = "reapply"
  PROVE  /\ Opens(fetch, Refreshing(fetch, k)) /\ Refreshing(fetch, k)[k].at # "idle"
         /\ FirstFetchFirst(Refreshing(fetch, k))
         /\ profile # NoProfile => WillBring(Refreshing(fetch, k), k)
                                   /\ Refreshing(fetch, k)["prefetch"] = fetch["prefetch"]
         /\ profile = NoProfile => Refreshing(fetch, k)["reapply"].at = "wait"
<1>0. FetchesTyped(fetch) /\ k \in Fetches /\ "prefetch" \in Fetches /\ k # "prefetch" /\ "postauth" \in Fetches
  BY DEF CoordinatorTyped, Fetches
<1>1. CASE profile # NoProfile
  <2> DEFINE r == [NoFetch EXCEPT !.at = "settings", !.got = profile, !.tries = 1]
  <2>1. JustBegun(r, "settings", 1, profile)
    BY NoFetchTyped, StartupNumbers DEF FetchRecords, JustBegun, CoordinatorTyped, KnownProfile
  <2>2. Refreshing(fetch, k) = [fetch EXCEPT ![k] = r]
    BY <1>1 DEF Refreshing
  <2> HIDE DEF r
  <2>3. FreshFits(r, k)
    BY <1>1, <2>1, StartupNumbers DEF JustBegun, FreshFits, CoordinatorTyped, KnownProfile
  <2>4. Begun(fetch, Refreshing(fetch, k), k, r)
    <3>1. PutsAt(fetch, Refreshing(fetch, k), k, r)
      BY <1>0, <2>2, <2>3 DEF PutsAt, FetchesTyped, FreshFits
    <3> QED BY <1>0, <2>3, <3>1, BeginsOne
  <2>5. WillBring(Refreshing(fetch, k), k)
    BY <2>1, <2>4 DEF WillBring, JustBegun, Begun
  <2>6. FirstFetchFirst(Refreshing(fetch, k))
    BY <1>0, <1>1, <2>1, <2>4 DEF FirstFetchFirst, JustBegun, Begun, Fetches
  <2> QED BY <1>0, <1>1, <2>1, <2>4, <2>5, <2>6 DEF Begun, JustBegun
<1>2. CASE profile = NoProfile
  <2> DEFINE r == [NoFetch EXCEPT !.at = "wait"]
             p == Prefetching(fetch)
  <2>1. JustBegun(r, "wait", 0, NoProfile)
    BY FreshWait
  <2>2. Refreshing(fetch, k) = [p EXCEPT ![k] = r]
    BY <1>2 DEF Refreshing
  <2>3. /\ Opens(fetch, p) /\ p["prefetch"].at # "idle"
        /\ \A i \in Fetches \ {"prefetch"} : p[i] = fetch[i]
    BY PrefetchingOpens
  <2> HIDE DEF r, p
  <2>4. FreshFits(r, k)
    BY <1>2, <2>1, StartupNumbers DEF JustBegun, FreshFits
  <2>5. FetchesTyped(p) /\ p[k].at = "idle"
    BY <1>0, <2>3 DEF Opens
  <2>6. Begun(p, Refreshing(fetch, k), k, r)
    <3>1. PutsAt(p, Refreshing(fetch, k), k, r)
      BY <1>0, <2>2, <2>4, <2>5 DEF PutsAt, FetchesTyped, FreshFits
    <3> QED BY <1>0, <2>4, <2>5, <3>1, BeginsOne
  <2>7. Opens(fetch, Refreshing(fetch, k))
    BY <2>3, <2>6 DEF Begun, Opens
  <2>8. FirstFetchFirst(Refreshing(fetch, k))
    BY <1>0, <1>2, <2>1, <2>3, <2>6 DEF FirstFetchFirst, JustBegun, Begun
  <2> QED BY <1>2, <2>1, <2>6, <2>7, <2>8 DEF Begun, JustBegun
<1> QED BY <1>1, <1>2

\* The readers of the promises, once the page or the run has joined one.
LEMMA PageJoinsRun ==
  ASSUME RunFits, NEW k, NEW j, Opens(fetch, j), Joins(j, fetch', k, "page"), UNCHANGED <<run, live, prepared>>
  PROVE  RunFits'
<1>1. ASSUME NEW i \in Fetches, "run" \in fetch'[i].readers PROVE "run" \in fetch[i].readers
  <2>1. fetch'[i].readers = IF i = k THEN j[i].readers \cup {"page"} ELSE j[i].readers
    BY DEF Joins
  <2>2. j[i].readers = fetch[i].readers
    BY DEF Opens
  <2> QED BY <1>1, <2>1, <2>2
<1> QED BY <1>1 DEF RunFits

\* A run that waits for none joins one.
LEMMA RunJoins ==
  ASSUME RunFits, NEW k, NEW j, Opens(fetch, j), Joins(j, fetch', k, "run"), UNCHANGED <<live, prepared>>,
         run \in {"user", "bundle", "tools"}, run' \in {"snapshot", "refresh", "refresh again"},
         run = "user" => run' = "snapshot"
  PROVE  RunFits'
<1>1. ASSUME NEW i \in Fetches PROVE "run" \notin fetch[i].readers
  BY DEF RunFits
<1>2. ASSUME NEW i \in Fetches, "run" \in fetch'[i].readers PROVE i = k
  BY <1>1, <1>2 DEF Opens, Joins
<1>3. run' \in RunPlaces /\ ((run' \notin {"none", "user", "snapshot"} \/ prepared') => live' # NoProfile)
  BY DEF RunFits, RunPlaces
<1>4. prepared' \in BOOLEAN
  BY DEF RunFits
<1>5. \A m \in Fetches : "run" \in fetch'[m].readers =>
       /\ run' \in {"snapshot", "refresh", "refresh again"}
       /\ \A i \in Fetches : "run" \in fetch'[i].readers => i = m
  BY <1>2
<1> QED BY <1>3, <1>4, <1>5 DEF RunFits

\* A sign-in is shown, and the settings are asked for.
LEMMA ShowStep ==
  ASSUME StartupInv, PanelHolds', RefreshAfterAuth,
         UNCHANGED <<profile, live, cache, run, prepared, faulty>>
  PROVE  StartupInv'
<1>0. /\ CoordinatorTyped /\ FetchesTyped(fetch) /\ FirstFetchFirst(fetch) /\ RunFits /\ SettingsFollow
      /\ "page" \in Readers
  BY DEF StartupInv, CoordinatorTyped, Readers
<1>1. /\ rejoined' = (rejoined \/ fetch["postauth"].at # "idle" \/ PageReads)
      /\ rejoined' \in BOOLEAN
      /\ (~rejoined' => ~rejoined /\ fetch["postauth"].at = "idle" /\ ~PageReads)
  BY <1>0 DEF RefreshAfterAuth, PageReads, SettingsFollow
<1>2. CASE profile = NoProfile
  <2> DEFINE j == Prefetching(fetch)
  <2>1. /\ Opens(fetch, j) /\ j["prefetch"].at # "idle"
        /\ \A i \in Fetches \ {"prefetch"} : j[i] = fetch[i]
        /\ fetch["prefetch"].at = "idle" => PrefetchBrings(j)
    BY <1>0, PrefetchingOpens
  <2>2. fetch' = Joined(j, "prefetch", "page")
    BY <1>2 DEF RefreshAfterAuth
  <2> HIDE DEF j
  <2>3. Joins(j, fetch', "prefetch", "page")
    BY <1>0, <2>1, <2>2, JoinedJoins, FetchNames DEF Opens
  <2>4. FirstFetchFirst(j)
    BY <1>0, <1>2, <2>1, FetchNames DEF FirstFetchFirst
  <2>5. FirstFetchFirst(fetch') /\ (PromisesBring(j) => PromisesBring(fetch'))
    BY <2>3, <2>4, JoinsKeep
  <2>6. CoordinatorTyped' /\ FirstFetchFirst(fetch)' /\ RunFits'
    <3>1. FirstFetchFirst(fetch)'
      BY <2>5 DEF FirstFetchFirst
    <3>2. CoordinatorTyped'
      BY <1>0, <2>3 DEF CoordinatorTyped, Joins, FetchesTyped, FetchFits, KnownProfile
    <3>3. RunFits'
      BY <1>0, <2>1, <2>3, PageJoinsRun
    <3> QED BY <3>1, <3>2, <3>3
  <2>7. PageReads'
    BY <2>3, FetchNames DEF PageReads, Joins
  <2>8. Fine' => SettingsComing'
    <3>1. CASE fetch["prefetch"].at = "idle"
      BY <2>1, <2>5, <3>1 DEF SettingsComing, PromisesBring
    <3>2. CASE fetch["prefetch"].at # "idle"
      <4>1. Fine' => j["reapply"].at = "wait"
        BY <1>0, <1>1, <2>1, <3>2, OpensKeep DEF Fine, SettingsFollow
      <4> QED BY <2>5, <4>1 DEF SettingsComing, PromisesBring
    <3> QED BY <3>1, <3>2
  <2>9. SettingsFollow'
    BY <1>0, <1>1, <2>7, <2>8 DEF SettingsFollow
  <2> QED BY <2>6, <2>9 DEF StartupInv, PanelHolds
<1>3. CASE profile # NoProfile
  <2> DEFINE j == IF fetch["postauth"].at = "idle" THEN Refreshing(fetch, "postauth") ELSE fetch
  <2>1. /\ Opens(fetch, j) /\ j["postauth"].at # "idle" /\ FirstFetchFirst(j)
        /\ (fetch["postauth"].at = "idle" => WillBring(j, "postauth"))
    <3>1. CASE fetch["postauth"].at = "idle"
      BY <1>0, <1>3, <3>1, RefreshingOpens
    <3>2. CASE fetch["postauth"].at # "idle"
      BY <1>0, <3>2 DEF Opens
    <3> QED BY <3>1, <3>2
  <2>2. fetch' = Joined(j, "postauth", "page")
    BY <1>3 DEF RefreshAfterAuth
  <2> HIDE DEF j
  <2>3. Joins(j, fetch', "postauth", "page")
    BY <1>0, <2>1, <2>2, JoinedJoins, FetchNames DEF Opens
  <2>5. FirstFetchFirst(fetch') /\ (PromisesBring(j) => PromisesBring(fetch'))
    BY <2>1, <2>3, JoinsKeep
  <2>6. CoordinatorTyped' /\ FirstFetchFirst(fetch)' /\ RunFits'
    <3>1. FirstFetchFirst(fetch)'
      BY <2>5 DEF FirstFetchFirst
    <3>2. CoordinatorTyped'
      BY <1>0, <2>3 DEF CoordinatorTyped, Joins, FetchesTyped, FetchFits, KnownProfile
    <3>3. RunFits'
      BY <1>0, <2>1, <2>3, PageJoinsRun
    <3> QED BY <3>1, <3>2, <3>3
  <2>7. Fine' => SettingsComing'
    BY <1>1, <2>1, <2>5 DEF SettingsComing, PromisesBring, Fine
  <2>8. fetch'["prefetch"].at = "idle"
    BY <1>3, <2>6 DEF FirstFetchFirst
  <2>9. SettingsFollow'
    BY <1>0, <1>1, <1>3, <2>7, <2>8 DEF SettingsFollow
  <2> QED BY <2>6, <2>9 DEF StartupInv, PanelHolds
<1> QED BY <1>2, <1>3

\* A refresh for a new session begins one, or joins one of its kind or of a sign-in (refreshForNewSession).
LEMMA SessionRefresh ==
  ASSUME CoordinatorTyped, FirstFetchFirst(fetch), NEW reader \in Readers, NEW q, q = RefreshForNewSession(reader)
  PROVE  /\ \E j, k : Opens(fetch, j) /\ Joins(j, q, k, reader)
         /\ FirstFetchFirst(q) /\ (PromisesBring(fetch) => PromisesBring(q))
         /\ q["prefetch"].at # "idle" => fetch["prefetch"].at # "idle" \/ q["reapply"].at = "wait"
<1> DEFINE begins == fetch["postauth"].at = "idle" /\ fetch["reapply"].at = "idle"
           j == IF begins THEN Refreshing(fetch, "reapply") ELSE fetch
           k == IF fetch["postauth"].at # "idle" THEN "postauth" ELSE "reapply"
<1>0. FetchesTyped(fetch) /\ k \in Fetches
  BY FetchNames DEF CoordinatorTyped
<1>1. q = Joined(j, k, reader)
  BY DEF RefreshForNewSession
<1>2. /\ Opens(fetch, j) /\ FirstFetchFirst(j) /\ j[k].at # "idle"
      /\ (j["prefetch"].at # "idle" => fetch["prefetch"].at # "idle" \/ j["reapply"].at = "wait")
  <2>1. CASE begins
    <3>1. j = Refreshing(fetch, "reapply") /\ k = "reapply"
      BY <2>1
    <3> HIDE DEF j, k
    <3> QED BY <2>1, <3>1, RefreshingOpens
  <2>2. CASE ~begins
    <3>1. j = fetch /\ fetch[k].at # "idle"
      BY <2>2
    <3> HIDE DEF j, k
    <3> QED BY <1>0, <3>1 DEF Opens
  <2> QED BY <2>1, <2>2
<1> HIDE DEF j, k, begins
<1>3. Joins(j, q, k, reader)
  BY <1>0, <1>1, <1>2, JoinedJoins DEF Opens
<1>4. FirstFetchFirst(q) /\ (PromisesBring(fetch) => PromisesBring(q))
  BY <1>2, <1>3, JoinsKeep, OpensKeep
<1>5. q["prefetch"].at = j["prefetch"].at /\ q["reapply"].at = j["reapply"].at
  BY <1>3, FetchNames DEF Joins
<1> QED BY <1>2, <1>3, <1>4, <1>5

\* What is grown by a step that shows no account brings what was to be brought.
LEMMA GrowthFollows ==
  ASSUME SettingsFollow, UNCHANGED <<panel, login, profile, faulty, rejoined>>,
         PromisesBring(fetch) => PromisesBring(fetch'), PageReads => PageReads',
         fetch["reapply"].at = "wait" => fetch'["reapply"].at = "wait",
         fetch'["prefetch"].at # "idle" => fetch["prefetch"].at # "idle" \/ fetch'["reapply"].at = "wait" \/ PageReads',
         run' # "none" \/ prepared' => run # "none" \/ prepared \/ panel.ready
  PROVE  SettingsFollow'
<1>1. SettingsComing => SettingsComing'
  BY DEF SettingsComing
<1>2. Fine' = Fine /\ SignedIn' = SignedIn
  BY DEF Fine, SignedIn
<1> QED BY <1>1, <1>2 DEF SettingsFollow

\* A reset of the project, and a run past its bundle or its tools, asks for a refresh.
LEMMA SessionStep ==
  ASSUME StartupInv, NEW reader \in Readers, fetch' = RefreshForNewSession(reader),
         UNCHANGED <<panelVars, profile, cache, live, prepared, faulty, rejoined>>,
         \/ reader = "page" /\ run' = run
         \/ reader = "run" /\ run \in {"bundle", "tools"} /\ run' \in {"refresh", "refresh again"}
  PROVE  StartupInv'
<1>0. /\ CoordinatorTyped /\ FirstFetchFirst(fetch) /\ RunFits /\ SettingsFollow
  BY DEF StartupInv
<1>1. PICK j, k : Opens(fetch, j) /\ Joins(j, fetch', k, reader)
  BY <1>0, SessionRefresh
<1>2. /\ FirstFetchFirst(fetch') /\ (PromisesBring(fetch) => PromisesBring(fetch'))
      /\ fetch'["prefetch"].at # "idle" => fetch["prefetch"].at # "idle" \/ fetch'["reapply"].at = "wait"
  BY <1>0, SessionRefresh
<1>3. FirstFetchFirst(fetch)'
  BY <1>2 DEF FirstFetchFirst
<1>4. CoordinatorTyped'
  BY <1>0, <1>1 DEF CoordinatorTyped, Joins, FetchesTyped, FetchFits, KnownProfile
<1>5. RunFits'
  <2>1. CASE reader = "page" /\ run' = run
    BY <1>0, <1>1, <2>1, PageJoinsRun
  <2>2. CASE reader = "run" /\ run \in {"bundle", "tools"} /\ run' \in {"refresh", "refresh again"}
    BY <1>0, <1>1, <2>2, RunJoins
  <2> QED BY <2>1, <2>2
<1>6. (PageReads => PageReads') /\ (fetch["reapply"].at = "wait" => fetch'["reapply"].at = "wait")
  <2>1. PageReads => PageReads'
    BY <1>1, FetchNames DEF PageReads, Opens, Joins
  <2>2. fetch["reapply"].at = "wait" => fetch'["reapply"].at = "wait"
    <3>1. fetch["reapply"].at = "wait" => j["reapply"].at = "wait"
      BY <1>1, OpensKeep
    <3>2. fetch'["reapply"].at = j["reapply"].at
      BY <1>1, FetchNames DEF Joins
    <3> QED BY <3>1, <3>2
  <2> QED BY <2>1, <2>2
<1>7. run' # "none" => run # "none"
  OBVIOUS
<1>8. SettingsFollow'
  BY <1>0, <1>2, <1>6, <1>7, GrowthFollows DEF panelVars
<1>9. PanelHolds'
  BY DEF StartupInv, PanelHolds, panelVars, PanelTyped, WayOut, PanelRests, CodeIsPolled
<1> QED BY <1>3, <1>4, <1>5, <1>8, <1>9 DEF StartupInv, PanelHolds

\* What holds of the panel is left by the steps that are not its own.
LEMMA PanelStays == ASSUME PanelHolds, UNCHANGED panelVars PROVE PanelHolds'
  BY DEF PanelHolds, panelVars, PanelTyped, WayOut, PanelRests, CodeIsPolled

\* A run steps where no promise is begun or ends.
LEMMA RunMoves ==
  ASSUME StartupInv, UNCHANGED <<panelVars, fetch, profile, cache, faulty, rejoined>>, KnownProfile(live'),
         run \notin {"snapshot", "refresh", "refresh again"}, run' \in RunPlaces, prepared' \in BOOLEAN,
         (run' \notin {"none", "user", "snapshot"} \/ prepared') => live' # NoProfile,
         run' # "none" \/ prepared' => run # "none" \/ prepared \/ panel.ready
  PROVE  StartupInv'
<1>1. CoordinatorTyped' /\ FirstFetchFirst(fetch)'
  BY DEF StartupInv, CoordinatorTyped, FetchesTyped, FetchFits, KnownProfile, FirstFetchFirst
<1>2. RunFits'
  BY DEF StartupInv, RunFits
<1>3. SettingsFollow'
  <2>1. SettingsFollow /\ (PageReads => PageReads') /\ UNCHANGED <<panel, login>>
    BY DEF StartupInv, PageReads, panelVars
  <2> QED BY <2>1, GrowthFollows
<1>4. PanelHolds'
  BY PanelStays DEF StartupInv, PanelHolds
<1> QED BY <1>1, <1>2, <1>3, <1>4 DEF StartupInv, PanelHolds

\* Each step of a run and of a reset keeps the invariant (main.ts, prepareInteractiveStartup).
LEMMA RunStep ==
  ASSUME StartupInv, RunStarts \/ UserKnown \/ BundleSettled \/ ToolsListed \/ BillingKnown
                     \/ PreparationFails \/ RunEnded \/ ResetProject
  PROVE  StartupInv'
<1>0. /\ CoordinatorTyped /\ FetchesTyped(fetch) /\ FirstFetchFirst(fetch) /\ RunFits /\ SettingsFollow
      /\ PanelHolds /\ {"run", "page"} = Readers /\ KnownProfile(live) /\ KnownProfile(profile)
  BY DEF StartupInv, PanelHolds, CoordinatorTyped, Readers
<1>1. CASE RunStarts
  BY <1>0, <1>1, RunMoves DEF RunStarts, OthersOfRun, RunFits, RunPlaces
<1>2. CASE UserKnown
  <2>1. CASE profile # NoProfile
    BY <1>0, <1>2, <2>1, RunMoves DEF UserKnown, OthersOfRun, RunFits, RunPlaces
  <2>2. CASE profile = NoProfile
    <3> DEFINE j == Prefetching(fetch)
    <3>1. /\ Opens(fetch, j) /\ j["prefetch"].at # "idle"
          /\ \A i \in Fetches \ {"prefetch"} : j[i] = fetch[i]
      BY <1>0, PrefetchingOpens
    <3>2. /\ fetch' = Joined(j, "prefetch", "run") /\ run = "user" /\ run' = "snapshot"
          /\ UNCHANGED <<panelVars, profile, cache, live, prepared, faulty, rejoined>>
      BY <1>2, <2>2 DEF UserKnown, OthersOfRun
    <3> HIDE DEF j
    <3>3. Joins(j, fetch', "prefetch", "run")
      BY <1>0, <3>1, <3>2, JoinedJoins, FetchNames DEF Opens
    <3>4. FirstFetchFirst(j)
      BY <1>0, <2>2, <3>1, FetchNames DEF FirstFetchFirst
    <3>5. FirstFetchFirst(fetch') /\ (PromisesBring(fetch) => PromisesBring(fetch'))
      BY <3>1, <3>3, <3>4, JoinsKeep, OpensKeep
    <3>6. FirstFetchFirst(fetch)'
      BY <3>2, <3>5 DEF FirstFetchFirst
    <3>7. CoordinatorTyped'
      BY <1>0, <3>2, <3>3 DEF CoordinatorTyped, Joins, FetchesTyped, FetchFits, KnownProfile
    <3>8. RunFits'
      BY <1>0, <3>1, <3>2, <3>3, RunJoins
    <3>9. /\ (PageReads => PageReads') /\ fetch'["reapply"].at = fetch["reapply"].at
      BY <3>1, <3>3, FetchNames DEF PageReads, Opens, Joins
    <3>10. Fine => PageReads
      BY <1>0, <2>2, <3>2 DEF SettingsFollow
    <3>11. SettingsComing => SettingsComing'
      BY <3>2, <3>5 DEF SettingsComing
    <3>12. Fine' = Fine /\ SignedIn' = SignedIn /\ faulty' \in BOOLEAN /\ rejoined' \in BOOLEAN
      BY <1>0, <3>2 DEF Fine, SignedIn, panelVars, SettingsFollow
    <3>13. SettingsFollow'
      BY <1>0, <3>9, <3>10, <3>11, <3>12 DEF SettingsFollow
    <3>14. PanelHolds'
      BY <1>0, <3>2, PanelStays
    <3> QED BY <3>6, <3>7, <3>8, <3>13, <3>14 DEF StartupInv, PanelHolds
  <2> QED BY <2>1, <2>2
<1>3. CASE BundleSettled
  BY <1>0, <1>3, SessionStep DEF BundleSettled, OthersOfRun
<1>4. CASE ToolsListed
  BY <1>0, <1>4, SessionStep DEF ToolsListed, OthersOfRun
<1>5. CASE BillingKnown
  BY <1>0, <1>5, RunMoves DEF BillingKnown, OthersOfRun, RunFits, RunPlaces
<1>6. CASE PreparationFails \/ RunEnded
  <2>1. /\ run' = "none" /\ UNCHANGED <<panelVars, fetch, profile, cache, faulty, rejoined, live, prepared>>
        /\ run \notin {"snapshot", "refresh", "refresh again"}
    BY <1>6 DEF PreparationFails, RunEnded, OthersOfRun
  <2>2. run' \in RunPlaces /\ prepared' \in BOOLEAN /\ (prepared' => live' # NoProfile)
    BY <1>0, <2>1 DEF RunFits, RunPlaces
  <2> QED BY <1>0, <2>1, <2>2, RunMoves
<1>7. CASE ResetProject
  BY <1>0, <1>7, SessionStep DEF ResetProject, OthersOfRun
<1> QED BY <1>1, <1>2, <1>3, <1>4, <1>5, <1>6, <1>7

-----------------------------------------------------------------------------
(***************************************************************************)
(* Promises are answered and end                                           *)
(***************************************************************************)

\* An answer, or the lack of one, that leaves the promise asking for settings.
LEMMA StillAsks ==
  ASSUME StartupInv, NEW k \in Fetches, NEW r, PutsAt(fetch, fetch', k, r), r.at = "settings",
         fetch[k].at \in {"models", "settings"}, r.readers = fetch[k].readers, r.got.models # "none",
         r.tries > 0, k # "prefetch" => r.tries <= SettingsTries,
         UNCHANGED <<panelVars, profile, live, run, prepared, rejoined>>,
         cache' \in {"none", "remote", "unusable"}, faulty' \in BOOLEAN, ~faulty' => ~faulty,
         login > 0 /\ k # "prefetch" /\ WillBring(fetch, k) => WillBring(fetch', k),
         login > 0 /\ k = "prefetch" /\ PrefetchBrings(fetch) => PrefetchBrings(fetch')
  PROVE  StartupInv'
<1>0. /\ CoordinatorTyped /\ FetchesTyped(fetch) /\ FirstFetchFirst(fetch) /\ RunFits /\ SettingsFollow
      /\ PanelHolds
  BY DEF StartupInv, PanelHolds, CoordinatorTyped
<1>1. /\ fetch' \in [Fetches -> FetchRecords] /\ fetch'[k] = r
      /\ \A i \in Fetches \ {k} : fetch'[i] = fetch[i]
  BY DEF PutsAt
<1>2. FetchesTyped(fetch')
  <2>1. ASSUME NEW i \in Fetches PROVE FetchFits(fetch', i)
    BY <1>0, <1>1 DEF FetchFits, FetchesTyped
  <2> QED BY <1>1, <2>1 DEF FetchesTyped
<1>3. CoordinatorTyped'
  BY <1>0, <1>2 DEF CoordinatorTyped, FetchesTyped, FetchFits, KnownProfile
<1>4. fetch[k].at # "wait" /\ fetch[k].at # "idle"
  OBVIOUS
<1>5. /\ FirstFetchFirst(fetch)'
      /\ (fetch'["reapply"].at = "wait" <=> fetch["reapply"].at = "wait")
      /\ (fetch'["prefetch"].at # "idle" => fetch["prefetch"].at # "idle")
  <2>1. CASE k = "prefetch"
    BY <1>0, <1>1, <1>4, <2>1, FetchNames DEF FirstFetchFirst
  <2>2. CASE k # "prefetch"
    <3>1. fetch[k].at = "settings"
      BY <1>0, <2>2 DEF FetchesTyped, FetchFits
    <3> QED BY <1>0, <1>1, <2>2, <3>1, FetchNames DEF FirstFetchFirst
  <2> QED BY <2>1, <2>2
<1>6. RunFits'
  <2>1. \A i \in Fetches : fetch'[i].readers = fetch[i].readers
    BY <1>1
  <2> QED BY <1>0, <2>1 DEF RunFits
<1>7. SettingsFollow'
  <2>1. PageReads' = PageReads
    BY <1>1, FetchNames DEF PageReads
  <2>2. login > 0 /\ SettingsComing => SettingsComing'
    <3>1. CASE k = "prefetch"
      BY <1>1, <1>5, <3>1, FetchNames DEF SettingsComing, PromisesBring, WillBring
    <3>2. CASE k # "prefetch"
      <4>1. PrefetchBrings(fetch') = PrefetchBrings(fetch)
        BY <1>1, <3>2, FetchNames DEF PrefetchBrings
      <4>2. \A i \in Fetches \ {k} : WillBring(fetch', i) = WillBring(fetch, i)
        BY <1>1 DEF WillBring
      <4> QED BY <1>5, <3>2, <4>1, <4>2, FetchNames DEF SettingsComing, PromisesBring
    <3> QED BY <3>1, <3>2
  <2>3. SignedIn' = SignedIn /\ (Fine' => Fine) /\ (SignedIn => login > 0) /\ panel' = panel
    BY DEF SignedIn, Fine, panelVars
  <2> QED BY <1>0, <1>5, <2>1, <2>2, <2>3 DEF SettingsFollow
<1>8. PanelHolds'
  BY <1>0, PanelStays
<1> QED BY <1>3, <1>5, <1>6, <1>7, <1>8 DEF StartupInv, PanelHolds

\* A promise ends with a profile.
LEMMA EndsStep ==
  ASSUME StartupInv, NEW k \in Fetches, fetch[k].at = "settings", NEW result, KnownProfile(result),
         result # NoProfile, Ends(k, result),
         profile' \in {profile, result}, k = "prefetch" => profile' = result,
         UNCHANGED <<panelVars, cache, prepared, rejoined>>, faulty' \in BOOLEAN, ~faulty' => ~faulty,
         profile.settings > 0 => profile'.settings > 0,
         ~faulty' /\ k # "prefetch" /\ WillBring(fetch, k) => profile'.settings > 0,
         ~faulty' /\ k = "prefetch" /\ PrefetchBrings(fetch) => profile'.settings > 0
  PROVE  StartupInv'
<1>0. /\ CoordinatorTyped /\ FetchesTyped(fetch) /\ FirstFetchFirst(fetch) /\ RunFits /\ SettingsFollow
      /\ PanelHolds /\ fetch \in [Fetches -> FetchRecords] /\ result \in Profiles /\ result.models # "none"
  BY DEF StartupInv, PanelHolds, CoordinatorTyped, FetchesTyped, KnownProfile
<1> DEFINE after(i) == [fetch[i] EXCEPT !.at = "settings", !.got = result, !.tries = 1]
<1>1. \A i \in Fetches : fetch'[i] = IF i = k THEN NoFetch
                                   ELSE IF k = "prefetch" /\ fetch[i].at = "wait" THEN after(i) ELSE fetch[i]
  BY DEF Ends
<1>2. ASSUME NEW i \in Fetches, fetch[i].at = "wait"
      PROVE  /\ after(i) \in FetchRecords /\ after(i).at = "settings" /\ after(i).got = result
             /\ after(i).tries = 1 /\ after(i).heard = <<>> /\ after(i).readers = fetch[i].readers
             /\ i = "reapply"
  <2>1. fetch[i] \in FetchRecords /\ fetch[i].heard = <<>> /\ i = "reapply"
    BY <1>0, <1>2 DEF FetchesTyped, FetchFits
  <2> QED BY <1>0, <2>1, StartupNumbers DEF FetchRecords
<1> HIDE DEF after
<1>3. fetch' \in [Fetches -> FetchRecords]
  <2>1. \A i \in Fetches : fetch'[i] \in FetchRecords
    BY <1>0, <1>1, <1>2, NoFetchTyped
  <2>2. fetch' = [i \in Fetches |-> fetch'[i]]
    BY DEF Ends
  <2> QED BY <2>1, <2>2
<1>4. ASSUME NEW i \in Fetches PROVE FetchFits(fetch', i)
  <2>1. CASE i = k
    BY <1>1, <2>1, NoFetchTyped, StartupNumbers DEF FetchFits
  <2>2. CASE i # k /\ k = "prefetch" /\ fetch[i].at = "wait"
    BY <1>0, <1>1, <1>2, <2>2, StartupNumbers DEF FetchFits
  <2>3. CASE i # k /\ ~(k = "prefetch" /\ fetch[i].at = "wait")
    BY <1>0, <1>1, <2>3 DEF FetchFits, FetchesTyped
  <2> QED BY <2>1, <2>2, <2>3
<1>5. profile' # NoProfile /\ KnownProfile(profile') /\ KnownProfile(live') /\ (fetch[k].readers # {} => live' = result)
      /\ (fetch[k].readers = {} => live' = live)
  <2>1. profile' # NoProfile
    <3>1. CASE k = "prefetch"
      BY <3>1
    <3>2. CASE k # "prefetch"
      BY <1>0, <3>2, FetchNames DEF FirstFetchFirst
    <3> QED BY <3>1, <3>2
  <2>2. KnownProfile(profile') /\ KnownProfile(live)
    BY <1>0 DEF CoordinatorTyped
  <2> QED BY <2>1, <2>2 DEF Ends, Delivers
<1>6. CoordinatorTyped'
  BY <1>0, <1>3, <1>4, <1>5 DEF CoordinatorTyped, FetchesTyped, FetchFits, KnownProfile
<1>7. fetch'["prefetch"].at = "idle" /\ fetch'["reapply"].at # "wait"
  <2>1. CASE k = "prefetch"
    BY <1>1, <1>2, <2>1, NoFetchTyped, FetchNames
  <2>2. CASE k # "prefetch"
    <3>1. fetch["prefetch"].at = "idle" /\ fetch["reapply"].at # "wait"
      BY <1>0, <2>2, FetchNames DEF FirstFetchFirst
    <3> QED BY <1>1, <2>2, <3>1, NoFetchTyped, FetchNames
  <2> QED BY <2>1, <2>2
<1>8. FirstFetchFirst(fetch)'
  BY <1>5, <1>7 DEF FirstFetchFirst
<1>9. RunFits'
  <2>1. ASSUME NEW i \in Fetches
        PROVE  fetch'[i].readers = IF i = k THEN {} ELSE fetch[i].readers
    <3> HIDE DEF after
    <3>1. CASE i = k
      BY <1>1, <3>1, NoFetchTyped
    <3>2. CASE i # k /\ k = "prefetch" /\ fetch[i].at = "wait"
      BY <1>1, <1>2, <3>2
    <3>3. CASE i # k /\ ~(k = "prefetch" /\ fetch[i].at = "wait")
      BY <1>1, <3>3
    <3> QED BY <3>1, <3>2, <3>3
  <2>2. run' = IF "run" \in fetch[k].readers THEN AfterProfile(run) ELSE run
    BY DEF Ends, Delivers
  <2>3. CASE "run" \in fetch[k].readers
    <3>1. run \in {"snapshot", "refresh", "refresh again"} /\ live' # NoProfile
      BY <1>0, <1>5, <2>3 DEF RunFits
    <3>2. run' \in RunPlaces
      BY <2>2, <2>3, <3>1 DEF AfterProfile, RunPlaces
    <3>3. \A i \in Fetches : "run" \notin fetch'[i].readers
      BY <1>0, <2>1, <2>3 DEF RunFits
    <3>4. prepared' \in BOOLEAN
      BY <1>0 DEF RunFits
    <3> QED BY <3>1, <3>2, <3>3, <3>4 DEF RunFits
  <2>4. CASE "run" \notin fetch[k].readers
    <3>1. run' = run /\ prepared' = prepared /\ (live # NoProfile => live' # NoProfile)
      BY <1>5, <2>2, <2>4
    <3>2. \A i \in Fetches : "run" \in fetch'[i].readers => "run" \in fetch[i].readers
      BY <2>1
    <3>3. ASSUME NEW m \in Fetches, "run" \in fetch'[m].readers
          PROVE  /\ run' \in {"snapshot", "refresh", "refresh again"}
                 /\ \A i \in Fetches : "run" \in fetch'[i].readers => i = m
      BY <1>0, <3>1, <3>2, <3>3 DEF RunFits
    <3>4. run' \in RunPlaces /\ prepared' \in BOOLEAN
      BY <1>0, <3>1 DEF RunFits
    <3>5. ASSUME run' \notin {"none", "user", "snapshot"} \/ prepared' PROVE live' # NoProfile
      <4>1. run \notin {"none", "user", "snapshot"} \/ prepared
        BY <3>1, <3>5
      <4>2. live # NoProfile
        BY <1>0, <4>1 DEF RunFits
      <4> QED BY <3>1, <4>2
    <3> QED BY <3>3, <3>4, <3>5 DEF RunFits
  <2> QED BY <2>3, <2>4
<1>10. SettingsFollow'
  <2>1. ~faulty' /\ SettingsComing => SettingsComing'
    <3>1. CASE k = "prefetch"
      <4>1. fetch["reapply"].at = "wait" => WillBring(fetch', "reapply")
        BY <1>1, <1>2, <3>1, FetchNames DEF WillBring
      <4>2. ~WillBring(fetch, "reapply") /\ ~WillBring(fetch, "postauth")
        BY <1>0, <3>1 DEF FirstFetchFirst, WillBring
      <4> QED BY <3>1, <4>1, <4>2 DEF SettingsComing, PromisesBring
    <3>2. CASE k # "prefetch"
      <4>1. ~PrefetchBrings(fetch) /\ fetch["reapply"].at # "wait"
        BY <1>0, <3>2, FetchNames DEF FirstFetchFirst, PrefetchBrings
      <4>2. \A i \in Fetches \ {k} : WillBring(fetch, i) => WillBring(fetch', i)
        BY <1>1, <3>2 DEF WillBring
      <4> QED BY <3>2, <4>1, <4>2, FetchNames DEF SettingsComing, PromisesBring
    <3> QED BY <3>1, <3>2
  <2>2. SignedIn' = SignedIn /\ (Fine' => Fine /\ ~faulty') /\ panel' = panel
    BY DEF SignedIn, Fine, panelVars
  <2>3. rejoined' \in BOOLEAN
    BY <1>0 DEF SettingsFollow
  <2> QED BY <1>0, <1>5, <1>7, <2>1, <2>2, <2>3 DEF SettingsFollow
<1>11. PanelHolds'
  BY <1>0, PanelStays
<1> QED BY <1>6, <1>8, <1>9, <1>10, <1>11 DEF StartupInv, PanelHolds

\* The models of the first fetch are unusable: nothing is brought to anyone.
LEMMA PrefetchFailsStep ==
  ASSUME StartupInv, PrefetchFails, fetch["prefetch"].at # "idle",
         UNCHANGED <<panelVars, cache, prepared, rejoined>>
  PROVE  StartupInv'
<1>0. /\ CoordinatorTyped /\ FetchesTyped(fetch) /\ FirstFetchFirst(fetch) /\ RunFits /\ SettingsFollow
      /\ PanelHolds /\ fetch \in [Fetches -> FetchRecords]
  BY DEF StartupInv, PanelHolds, CoordinatorTyped, FetchesTyped
<1> DEFINE failed == {"prefetch"} \cup {i \in Fetches : fetch[i].at = "wait"}
<1>1. /\ fetch' = [i \in Fetches |-> IF i \in failed THEN NoFetch ELSE fetch[i]]
      /\ run' = IF \E i \in failed : "run" \in fetch[i].readers THEN "none" ELSE run
      /\ faulty' = TRUE /\ UNCHANGED <<profile, live>>
  BY DEF PrefetchFails
<1>2. /\ \A i \in Fetches : fetch[i].at = "wait" => i \in failed
      /\ "prefetch" \in failed /\ failed \subseteq Fetches
  BY FetchNames
<1> HIDE DEF failed
<1>3. FetchesTyped(fetch')
  <2>1. ASSUME NEW i \in Fetches PROVE FetchFits(fetch', i)
    BY <1>0, <1>1, NoFetchTyped, StartupNumbers DEF FetchFits, FetchesTyped
  <2>2. fetch' \in [Fetches -> FetchRecords]
    BY <1>0, <1>1, NoFetchTyped
  <2> QED BY <2>1, <2>2 DEF FetchesTyped
<1>4. CoordinatorTyped'
  BY <1>0, <1>1, <1>3 DEF CoordinatorTyped, FetchesTyped, FetchFits, KnownProfile
<1>5. FirstFetchFirst(fetch)'
  <2>1. profile = NoProfile
    BY <1>0 DEF FirstFetchFirst
  <2>2. \A i \in Fetches : fetch'[i].at = "idle" \/ (fetch'[i].at = fetch[i].at /\ fetch[i].at # "wait" /\ i # "prefetch")
    <3> SUFFICES ASSUME NEW i \in Fetches
                 PROVE  fetch'[i].at = "idle" \/ (fetch'[i].at = fetch[i].at /\ fetch[i].at # "wait" /\ i # "prefetch")
      OBVIOUS
    <3>1. CASE i \in failed
      <4>1. fetch'[i] = NoFetch
        BY <1>1, <3>1
      <4> QED BY <4>1, NoFetchTyped
    <3>2. CASE i \notin failed
      BY <1>1, <1>2, <3>2
    <3> QED BY <3>1, <3>2
  <2> QED BY <1>0, <1>1, <2>1, <2>2, FetchNames DEF FirstFetchFirst
<1>6. RunFits'
  <2>1. \A i \in Fetches : "run" \in fetch'[i].readers => "run" \in fetch[i].readers /\ i \notin failed
    BY <1>1, NoFetchTyped
  <2>2. CASE \E i \in failed : "run" \in fetch[i].readers
    <3>1. run' = "none" /\ \A i \in Fetches : "run" \notin fetch'[i].readers
      BY <1>0, <1>1, <1>2, <2>1, <2>2 DEF RunFits
    <3> QED BY <1>0, <1>1, <3>1 DEF RunFits, RunPlaces
  <2>3. CASE ~\E i \in failed : "run" \in fetch[i].readers
    <3>1. run' = run
      BY <1>1, <2>3
    <3>2. ASSUME NEW m \in Fetches, "run" \in fetch'[m].readers
          PROVE  /\ run' \in {"snapshot", "refresh", "refresh again"}
                 /\ \A i \in Fetches : "run" \in fetch'[i].readers => i = m
      BY <1>0, <2>1, <3>1, <3>2 DEF RunFits
    <3>3. /\ run' \in RunPlaces /\ prepared' \in BOOLEAN
          /\ ((run' \notin {"none", "user", "snapshot"} \/ prepared') => live' # NoProfile)
      BY <1>0, <1>1, <3>1 DEF RunFits
    <3> QED BY <3>2, <3>3 DEF RunFits
  <2> QED BY <2>2, <2>3
<1>7. SettingsFollow'
  BY <1>0, <1>1 DEF SettingsFollow, Fine
<1>8. PanelHolds'
  BY <1>0, PanelStays
<1> QED BY <1>4, <1>5, <1>6, <1>7, <1>8 DEF StartupInv, PanelHolds

\* What was heard of the settings, or that nothing was.
LEMMA KnownStep ==
  ASSUME StartupInv, NEW k \in Fetches, fetch[k].at = "settings", NEW found \in Heard,
         SettingsKnown(k, found), UNCHANGED <<panelVars, cache, prepared, rejoined>>,
         faulty' \in BOOLEAN, ~faulty' => ~faulty,
         \/ found = <<>> /\ (~faulty' => k = "prefetch" /\ fetch[k].tries <= SettingsTries)
         \/ found = <<>> /\ fetch[k].heard = << 0 >>
         \/ found # <<>> /\ found = fetch[k].heard /\ Head(found) > 0,
         k = "prefetch" /\ fetch[k].tries > SettingsTries /\ fetch[k].got.models = "unusable" => faulty' = TRUE
  PROVE  StartupInv'
<1>0. /\ CoordinatorTyped /\ FetchesTyped(fetch) /\ FirstFetchFirst(fetch) /\ fetch \in [Fetches -> FetchRecords]
      /\ fetch[k] \in FetchRecords /\ fetch[k].got \in Profiles /\ fetch[k].got.models # "none"
      /\ KnownProfile(profile)
  <2>1. CoordinatorTyped /\ FetchesTyped(fetch) /\ FirstFetchFirst(fetch) /\ fetch \in [Fetches -> FetchRecords]
    BY DEF StartupInv, CoordinatorTyped, FetchesTyped
  <2>2. fetch[k] \in FetchRecords /\ KnownProfile(profile)
    BY <2>1 DEF CoordinatorTyped
  <2> QED BY <2>1, <2>2 DEF FetchesTyped, FetchFits, FetchRecords
<1> DEFINE result == IF found = <<>> THEN fetch[k].got ELSE [fetch[k].got EXCEPT !.settings = Head(found)]
<1>1. /\ result \in Profiles /\ result.models = fetch[k].got.models
      /\ (found = <<>> => result = fetch[k].got)
      /\ (found # <<>> => result.settings = Head(found))
  <2>1. CASE found = <<>>
    BY <1>0, <2>1
  <2>2. CASE found # <<>>
    <3>1. PICK n \in Settings0 : found = <<n>>
      BY <2>2 DEF Heard
    <3>2. Head(found) = n /\ n \in 0..MaxLogins + 1
      BY <3>1 DEF Settings0
    <3> QED BY <1>0, <2>2, <3>2 DEF Profiles
  <2> QED BY <2>1, <2>2
<1>2. result # NoProfile /\ KnownProfile(result)
  BY <1>0, <1>1, NoProfileTyped DEF KnownProfile
<1> DEFINE early == k = "prefetch" /\ fetch[k].tries <= SettingsTries
           broken1 == k = "prefetch" /\ fetch[k].tries > SettingsTries /\ result.models = "unusable"
<1>3. CASE early
  <2> DEFINE r == [fetch[k] EXCEPT !.got = result, !.heard = <<>>, !.tries = SettingsTries + 1]
  <2>1. /\ fetch' = [fetch EXCEPT ![k] = [fetch[k] EXCEPT !.got = result, !.heard = <<>>, !.tries = SettingsTries + 1]]
        /\ UNCHANGED <<profile, live, run>>
    <3>1. /\ fetch' = [fetch EXCEPT ![k] = [@ EXCEPT !.got = result, !.heard = <<>>, !.tries = SettingsTries + 1]]
          /\ UNCHANGED <<profile, live, run>>
      <4>1. fetch[k].tries \in Nat /\ SettingsTries \in Nat
        BY <1>0, StartupNumbers DEF FetchRecords
      <4> QED BY <1>3, <4>1 DEF SettingsKnown
    <3> HIDE DEF result
    <3> QED BY <3>1
  <2>2. SettingsTries + 1 \in 0..2 * SettingsTries /\ SettingsTries + 1 > 0 /\ <<>> \in Heard
    BY StartupNumbers DEF Heard
  <2> HIDE DEF result
  <2>3. /\ r \in FetchRecords /\ r.at = "settings" /\ r.readers = fetch[k].readers /\ r.got = result
        /\ r.heard = <<>> /\ r.tries = SettingsTries + 1
    BY <1>0, <1>1, <2>2 DEF FetchRecords
  <2>4. fetch' = [fetch EXCEPT ![k] = r]
    BY <2>1
  <2> HIDE DEF r
  <2>5. PutsAt(fetch, fetch', k, r)
    BY <1>0, <2>3, <2>4 DEF PutsAt
  <2>6. PrefetchBrings(fetch')
    BY <1>3, <2>3, <2>5 DEF PrefetchBrings, PutsAt
  <2>7. cache' \in {"none", "remote", "unusable"}
    BY <1>0 DEF CoordinatorTyped
  <2>8. k = "prefetch" /\ r.got.models # "none" /\ r.tries > 0
    <3>1. r.got.models # "none"
      BY <1>0, <1>1, <2>3
    <3>2. r.tries > 0
      BY <2>2, <2>3
    <3> QED BY <1>3, <3>1, <3>2
  <2>9. UNCHANGED <<panelVars, profile, live, run, prepared, rejoined>>
    BY <2>1
  <2>10. fetch[k].at \in {"models", "settings"} /\ r.at = "settings" /\ r.readers = fetch[k].readers
    BY <2>3
  <2> HIDE DEF early, broken1
  <2> QED BY <2>5, <2>6, <2>7, <2>8, <2>9, <2>10, StillAsks
<1>4. CASE ~early /\ broken1
  <2>1. PrefetchFails
    BY <1>4, StartupNumbers DEF SettingsKnown
  <2> QED BY <1>4, <2>1, PrefetchFailsStep
<1>5. CASE ~early /\ ~broken1
  <2>1. /\ profile' = (IF found # <<>> \/ k = "prefetch" THEN result ELSE profile)
        /\ Ends(k, result)
    BY <1>5 DEF SettingsKnown
  <2> HIDE DEF result
  <2>2. k = "prefetch" => profile' = result
    BY <2>1
  <2>3. k # "prefetch" /\ ~faulty' /\ WillBring(fetch, k) => profile'.settings > 0
    <3> SUFFICES ASSUME k # "prefetch", ~faulty', WillBring(fetch, k) PROVE profile'.settings > 0
      OBVIOUS
    <3>1. ~(found = <<>> /\ fetch[k].heard = << 0 >>)
      <4>1. << 0 >> # <<>> /\ Head(<< 0 >>) = 0
        OBVIOUS
      <4> SUFFICES ASSUME fetch[k].heard = << 0 >> PROVE FALSE
        OBVIOUS
      <4>2. Head(fetch[k].heard) = 0 /\ fetch[k].heard # <<>>
        BY <4>1
      <4> QED BY <4>2 DEF WillBring
    <3>2. found # <<>> /\ Head(found) > 0
      BY <3>1
    <3> QED BY <1>1, <2>1, <3>2
  <2>4. k = "prefetch" /\ ~faulty' /\ PrefetchBrings(fetch) => profile'.settings > 0
    <3> SUFFICES ASSUME k = "prefetch", ~faulty', PrefetchBrings(fetch) PROVE profile'.settings > 0
      OBVIOUS
    <3>1. fetch["prefetch"].got.settings > 0 \/ fetch["prefetch"].heard = <<>> \/ Head(fetch["prefetch"].heard) > 0
      BY <1>5 DEF PrefetchBrings
    <3>2. CASE found # <<>>
      BY <1>1, <2>2, <3>2
    <3>3. CASE found = <<>>
      <4>1. fetch[k].heard = << 0 >>
        BY <1>5, <3>3
      <4>2. fetch[k].got.settings > 0
        BY <3>1, <4>1
      <4> QED BY <1>1, <2>2, <3>3, <4>2
    <3> QED BY <3>2, <3>3
  <2>5. profile.settings > 0 => profile'.settings > 0
    <3>1. CASE k = "prefetch"
      <4>1. profile = NoProfile
        BY <1>0, <3>1 DEF FirstFetchFirst
      <4> QED BY <4>1, NoProfileTyped
    <3>2. CASE k # "prefetch" /\ found = <<>>
      BY <2>1, <3>2
    <3>3. CASE k # "prefetch" /\ found # <<>>
      BY <1>1, <2>1, <3>3
    <3> QED BY <3>1, <3>2, <3>3
  <2>6. profile' \in {profile, result}
    BY <2>1
  <2> QED BY <1>2, <2>1, <2>2, <2>3, <2>4, <2>5, <2>6, EndsStep
<1> QED BY <1>3, <1>4, <1>5

\* The server answers with the sign-in it knows.
LEMMA ServedStep ==
  ASSUME StartupInv, NEW k \in Fetches, SettingsServed(k)
  PROVE  StartupInv'
<1> DEFINE r == [fetch[k] EXCEPT !.heard = <<login>>]
<1>0. /\ fetch[k].at = "settings" /\ fetch[k].heard = <<>> /\ fetch' = [fetch EXCEPT ![k] = r]
      /\ UNCHANGED <<panelVars, profile, live, cache, run, prepared, faulty, rejoined, spentOn>>
  BY DEF SettingsServed, AsksSettings
<1>1. /\ fetch \in [Fetches -> FetchRecords] /\ fetch[k] \in FetchRecords
      /\ fetch[k].got.models # "none" /\ fetch[k].tries > 0 /\ (k # "prefetch" => fetch[k].tries <= SettingsTries)
      /\ cache \in {"none", "remote", "unusable"} /\ faulty \in BOOLEAN
  BY <1>0 DEF StartupInv, CoordinatorTyped, FetchesTyped, FetchFits, SettingsFollow
<1>2. <<login>> \in Heard
  <2>1. login \in Settings0
    BY StartupNumbers DEF StartupInv, PanelTyped, Settings0
  <2> QED BY <2>1 DEF Heard
<1>3. /\ r \in FetchRecords /\ r.at = "settings" /\ r.readers = fetch[k].readers /\ r.got = fetch[k].got
      /\ r.tries = fetch[k].tries /\ r.heard = <<login>>
  BY <1>0, <1>1, <1>2 DEF FetchRecords
<1> HIDE DEF r
<1>4. PutsAt(fetch, fetch', k, r)
  BY <1>0, <1>1, <1>3 DEF PutsAt
<1>5. login > 0 => r.heard # <<>> /\ Head(r.heard) > 0
  BY <1>3
<1>6. login > 0 => WillBring(fetch', k)
  BY <1>3, <1>4, <1>5 DEF PutsAt, WillBring
<1>7. login > 0 /\ k = "prefetch" => PrefetchBrings(fetch')
  BY <1>3, <1>4, <1>5 DEF PutsAt, PrefetchBrings
<1>8. cache' \in {"none", "remote", "unusable"} /\ faulty' \in BOOLEAN /\ (~faulty' => ~faulty)
  BY <1>0, <1>1
<1>9. UNCHANGED <<panelVars, profile, live, run, prepared, rejoined>>
  BY <1>0
<1>10. r.got.models # "none" /\ r.tries > 0 /\ (k # "prefetch" => r.tries <= SettingsTries)
  BY <1>1, <1>3
<1> QED BY <1>0, <1>3, <1>4, <1>6, <1>7, <1>8, <1>9, <1>10, StillAsks

\* The answer of the settings arrives.
LEMMA ArriveStep ==
  ASSUME StartupInv, NEW k \in Fetches, SettingsArrive(k)
  PROVE  StartupInv'
<1> DEFINE found == IF fetch[k].heard = << 0 >> THEN <<>> ELSE fetch[k].heard
<1>0. /\ fetch[k].heard # <<>> /\ SettingsKnown(k, found)
      /\ faulty' = (faulty \/ (k = "prefetch" /\ fetch[k].tries > SettingsTries /\ fetch[k].got.models = "unusable"))
      /\ UNCHANGED <<panelVars, cache, prepared, rejoined, spentOn>>
  BY DEF SettingsArrive
<1>1. fetch[k].at = "settings" /\ fetch[k].heard \in Heard /\ faulty \in BOOLEAN
  BY <1>0 DEF StartupInv, CoordinatorTyped, FetchesTyped, FetchFits, SettingsFollow, FetchRecords
<1>2. PICK n \in Settings0 : fetch[k].heard = <<n>>
  BY <1>0, <1>1 DEF Heard
<1>3. found \in Heard /\ (\/ found = <<>> /\ fetch[k].heard = << 0 >>
                          \/ found # <<>> /\ found = fetch[k].heard /\ Head(found) > 0)
  <2>1. CASE n = 0
    BY <1>2, <2>1 DEF Heard
  <2>2. CASE n # 0
    <3>1. n > 0 /\ Head(<<n>>) = n /\ <<n>> # <<>> /\ <<n>> # << 0 >>
      BY <2>2, StartupNumbers DEF Settings0
    <3> QED BY <1>1, <1>2, <3>1
  <2> QED BY <2>1, <2>2
<1>4. /\ faulty' \in BOOLEAN /\ (~faulty' => ~faulty)
      /\ (k = "prefetch" /\ fetch[k].tries > SettingsTries /\ fetch[k].got.models = "unusable" => faulty' = TRUE)
  BY <1>0, <1>1
<1> HIDE DEF found
<1>5. UNCHANGED <<panelVars, cache, prepared, rejoined>>
  BY <1>0
<1> QED BY <1>0, <1>1, <1>3, <1>4, <1>5, KnownStep

\* No answer comes: the settings are asked for again, or given up (fetchSettings).
LEMMA FailStep ==
  ASSUME StartupInv, NEW k \in Fetches, SettingsFail(k)
  PROVE  StartupInv'
<1>0. /\ fetch[k].at = "settings" /\ UNCHANGED <<panelVars, cache, prepared, rejoined>>
      /\ IF LastTry(k)
           THEN SettingsKnown(k, <<>>) /\ faulty' = (faulty \/ k # "prefetch" \/ fetch[k].tries > SettingsTries)
           ELSE /\ fetch' = [fetch EXCEPT ![k].tries = @ + 1, ![k].heard = <<>>]
                /\ UNCHANGED <<profile, live, run, faulty>>
  BY DEF SettingsFail
<1>1. /\ fetch \in [Fetches -> FetchRecords] /\ fetch[k] \in FetchRecords /\ fetch[k].tries \in 0..2 * SettingsTries
      /\ fetch[k].got.models # "none" /\ fetch[k].tries > 0 /\ (k # "prefetch" => fetch[k].tries <= SettingsTries)
      /\ cache \in {"none", "remote", "unusable"} /\ faulty \in BOOLEAN
  BY <1>0 DEF StartupInv, CoordinatorTyped, FetchesTyped, FetchFits, SettingsFollow, FetchRecords
<1>2. CASE LastTry(k)
  <2>1. SettingsKnown(k, <<>>) /\ faulty' = (faulty \/ k # "prefetch" \/ fetch[k].tries > SettingsTries)
    BY <1>0, <1>2
  <2>2. <<>> \in Heard
    BY DEF Heard
  <2>3. /\ faulty' \in BOOLEAN /\ (~faulty' => ~faulty)
        /\ (~faulty' => k = "prefetch" /\ fetch[k].tries <= SettingsTries)
        /\ (k = "prefetch" /\ fetch[k].tries > SettingsTries /\ fetch[k].got.models = "unusable" => faulty' = TRUE)
    <3>1. fetch[k].tries > SettingsTries \/ fetch[k].tries <= SettingsTries
      BY <1>1, StartupNumbers
    <3> DEFINE late == fetch[k].tries > SettingsTries
    <3>2. faulty' = (faulty \/ k # "prefetch" \/ late) /\ (~late => fetch[k].tries <= SettingsTries)
      BY <2>1, <3>1
    <3>3. k = "prefetch" /\ fetch[k].tries > SettingsTries /\ fetch[k].got.models = "unusable" => faulty' = TRUE
      BY <3>2
    <3> HIDE DEF late
    <3> QED BY <1>1, <3>2, <3>3
  <2> QED BY <1>0, <2>1, <2>2, <2>3, KnownStep
<1>3. CASE ~LastTry(k)
  <2> DEFINE r == [fetch[k] EXCEPT !.tries = fetch[k].tries + 1, !.heard = <<>>]
  <2>1. fetch' = [fetch EXCEPT ![k] = r] /\ UNCHANGED <<profile, live, run, faulty>>
    <3>1. fetch' = [fetch EXCEPT ![k].tries = @ + 1, ![k].heard = <<>>] /\ UNCHANGED <<profile, live, run, faulty>>
      BY <1>0, <1>3
    <3> QED BY <1>1, <3>1 DEF FetchRecords
  <2>2. /\ fetch[k].tries + 1 \in 0..2 * SettingsTries /\ fetch[k].tries + 1 > 0 /\ fetch[k].tries # SettingsTries
        /\ (fetch[k].tries <= SettingsTries => fetch[k].tries + 1 <= SettingsTries)
    BY <1>1, <1>3, StartupNumbers DEF LastTry
  <2>3. <<>> \in Heard
    BY DEF Heard
  <2>4. /\ r \in FetchRecords /\ r.at = "settings" /\ r.readers = fetch[k].readers /\ r.got = fetch[k].got
        /\ r.tries = fetch[k].tries + 1 /\ r.heard = <<>>
    BY <1>0, <1>1, <2>2, <2>3 DEF FetchRecords
  <2> HIDE DEF r
  <2>5. PutsAt(fetch, fetch', k, r)
    BY <1>1, <2>1, <2>4 DEF PutsAt
  <2>6. WillBring(fetch', k)
    BY <2>4, <2>5 DEF PutsAt, WillBring
  <2>7. k = "prefetch" => PrefetchBrings(fetch')
    BY <2>4, <2>5 DEF PutsAt, PrefetchBrings
  <2>8. cache' \in {"none", "remote", "unusable"} /\ faulty' \in BOOLEAN /\ (~faulty' => ~faulty)
    BY <1>0, <1>1, <2>1
  <2>9. UNCHANGED <<panelVars, profile, live, run, prepared, rejoined>>
    BY <1>0, <2>1
  <2>10. r.got.models # "none" /\ r.tries > 0 /\ (k # "prefetch" => r.tries <= SettingsTries)
    BY <1>1, <2>2, <2>4
  <2> QED BY <1>0, <2>4, <2>5, <2>6, <2>7, <2>8, <2>9, <2>10, StillAsks
<1> QED BY <1>2, <1>3

\* The models of the first fetch are known, or the client's own are used.
LEMMA ModelsStep ==
  ASSUME StartupInv, NEW found \in {"remote", "bundled", "unusable"}, ModelsArrive(found) \/ (ModelsFail /\ found = "bundled")
  PROVE  StartupInv'
<1> DEFINE got == [fetch["prefetch"].got EXCEPT !.models = found]
           r == [fetch["prefetch"] EXCEPT !.at = "settings", !.tries = 1, !.got = got]
<1>0. /\ fetch["prefetch"].at = "models" /\ UNCHANGED <<panelVars, profile, live, run, prepared, faulty, rejoined>>
      /\ fetch' = [fetch EXCEPT !["prefetch"].at = "settings", !["prefetch"].tries = 1, !["prefetch"].got.models = found]
      /\ cache' \in {cache, found} /\ (found = "bundled" => cache' = cache)
  BY DEF ModelsArrive, ModelsFail
<1>1. /\ fetch \in [Fetches -> FetchRecords] /\ fetch["prefetch"] \in FetchRecords /\ fetch["prefetch"].got \in Profiles
      /\ fetch["prefetch"].heard = <<>> /\ cache \in {"none", "remote", "unusable"} /\ faulty \in BOOLEAN
      /\ "prefetch" \in Fetches
  <2>1. /\ fetch \in [Fetches -> FetchRecords] /\ fetch["prefetch"] \in FetchRecords /\ FetchFits(fetch, "prefetch")
        /\ cache \in {"none", "remote", "unusable"} /\ faulty \in BOOLEAN
    BY FetchNames DEF StartupInv, CoordinatorTyped, FetchesTyped, SettingsFollow
  <2> QED BY <1>0, <2>1, FetchNames DEF FetchFits, FetchRecords
<1>2. got \in Profiles /\ got.models = found /\ found # "none"
  BY <1>1 DEF Profiles, Catalogs
<1>3. fetch' = [fetch EXCEPT !["prefetch"] = r]
  <2>1. fetch' = [fetch EXCEPT !["prefetch"] =
                    [fetch["prefetch"] EXCEPT !.at = "settings", !.tries = 1,
                                              !.got = [fetch["prefetch"].got EXCEPT !.models = found]]]
    BY <1>0, <1>1 DEF FetchRecords
  <2> QED BY <2>1
<1> HIDE DEF got
<1>4. /\ r \in FetchRecords /\ r.at = "settings" /\ r.readers = fetch["prefetch"].readers /\ r.got = got
      /\ r.tries = 1 /\ r.heard = <<>>
  BY <1>1, <1>2, StartupNumbers DEF FetchRecords
<1> HIDE DEF r
<1>5. PutsAt(fetch, fetch', "prefetch", r)
  BY <1>1, <1>3, <1>4 DEF PutsAt
<1>6. PrefetchBrings(fetch')
  BY <1>4, <1>5 DEF PutsAt, PrefetchBrings
<1>7. cache' \in {"none", "remote", "unusable"} /\ faulty' \in BOOLEAN /\ (~faulty' => ~faulty)
  BY <1>0, <1>1
<1>8. r.got.models # "none" /\ r.tries > 0
  BY <1>2, <1>4
<1>9. UNCHANGED <<panelVars, profile, live, run, prepared, rejoined>>
  BY <1>0
<1> QED BY <1>0, <1>1, <1>4, <1>5, <1>6, <1>7, <1>8, <1>9, StillAsks

\* The models in storage expire.
LEMMA AgesStep == ASSUME StartupInv, CacheAges PROVE StartupInv'
<1>0. /\ UNCHANGED <<panelVars, fetch, profile, live, run, prepared, faulty, rejoined>> /\ cache' = "none"
  BY DEF CacheAges
<1>1. CoordinatorTyped' /\ FirstFetchFirst(fetch)' /\ RunFits'
  BY <1>0 DEF StartupInv, CoordinatorTyped, FetchesTyped, FetchFits, KnownProfile, FirstFetchFirst, RunFits
<1>2. SettingsFollow'
  BY <1>0 DEF StartupInv, SettingsFollow, SettingsComing, PromisesBring, WillBring, PrefetchBrings, PageReads,
              Fine, SignedIn, panelVars
<1>3. PanelHolds'
  BY <1>0, PanelStays DEF StartupInv, PanelHolds
<1> QED BY <1>1, <1>2, <1>3 DEF StartupInv, PanelHolds

-----------------------------------------------------------------------------
(***************************************************************************)
(* The page's start                                                        *)
(***************************************************************************)

\* A page begins with the invariant.
LEMMA StartupInitInv == StartupInit => StartupInv
<1> SUFFICES ASSUME StartupInit PROVE StartupInv
  OBVIOUS
<1>0. /\ login \in 0..1 /\ logins = login /\ hosted \in BOOLEAN /\ unreached = FALSE
      /\ panel = [Restful EXCEPT !.asks = {"status"}] /\ fetch = [k \in Fetches |-> NoFetch]
      /\ profile = NoProfile /\ live = NoProfile /\ cache \in {"none", "remote"} /\ run = "none" /\ prepared = FALSE
      /\ faulty = FALSE /\ rejoined = FALSE
  BY DEF StartupInit
<1>1. /\ panel \in PanelRecords /\ panel.shown = {} /\ panel.asks = {"status"} /\ panel.ready = FALSE
      /\ panel.signed = 0 /\ panel.polls = 0 /\ panel.outs = 0 /\ panel.outDone = 0
  BY <1>0 DEF Restful, PanelRecords
<1>2. PanelTyped
  <2>1. logins \in 0..MaxLogins + 1 /\ login \in 0..logins
    BY <1>0, StartupNumbers
  <2>2. panel.signed <= panel.polls /\ panel.outDone <= panel.outs
    BY <1>1
  <2>3. "local" \notin panel.asks
    BY <1>1
  <2> QED BY <1>0, <1>1, <2>1, <2>2, <2>3 DEF PanelTyped
<1>3. WayOut /\ CodeIsPolled
  BY <1>1 DEF WayOut, PanelRests, CodeIsPolled
<1>4. \A k \in Fetches : fetch[k] = NoFetch
  BY <1>0
<1>5. FetchesTyped(fetch)
  BY <1>0, <1>4, NoFetchTyped, StartupNumbers DEF FetchesTyped, FetchFits
<1>6. CoordinatorTyped
  BY <1>0, <1>5, NoProfileTyped DEF CoordinatorTyped, KnownProfile
<1>7. FirstFetchFirst(fetch)
  BY <1>4, NoFetchTyped, FetchNames DEF FirstFetchFirst
<1>8. RunFits
  BY <1>0, <1>4, NoFetchTyped DEF RunFits, RunPlaces
<1>9. SettingsFollow
  BY <1>0, <1>1, <1>4, NoFetchTyped, FetchNames DEF SettingsFollow, SignedIn
<1> QED BY <1>2, <1>3, <1>6, <1>7, <1>8, <1>9 DEF StartupInv

\* Every step of a page keeps the invariant.
LEMMA StartupStepInv == StartupInv /\ [StartupNext]_startupVars => StartupInv'
<1> SUFFICES ASSUME StartupInv, [StartupNext]_startupVars PROVE StartupInv'
  OBVIOUS
<1>0. PanelHolds
  BY DEF StartupInv, PanelHolds
<1>1. CASE StatusAnswers
  <2>1. PanelHolds' /\ faulty' = faulty
    BY <1>0, <1>1, StatusAnswersPanel DEF StatusAnswers
  <2>2. CASE login > 0
    BY <1>1, <2>1, <2>2, ShowStep DEF StatusAnswers, ShowAuthenticated
  <2>3. CASE ~(login > 0)
    <3>1. OthersOfPanel /\ panel' = Disconnected(Ask(panel, {"status"}, {})) /\ login' = login
      BY <1>1, <2>3 DEF StatusAnswers
    <3>2. panel \in PanelRecords
      BY <1>0 DEF PanelHolds, PanelTyped
    <3>3. panel'.shown = {"connect"} /\ panel'.ready = FALSE /\ SamePolls /\ SameOuts
      BY <3>1, <3>2 DEF Disconnected, Ask, PanelRecords, SamePolls, SameOuts
    <3>4. Quiet
      BY <2>1, <3>1, <3>3, ShownIsQuiet
    <3> QED BY <2>1, <3>1, <3>4, QuietStep
  <2> QED BY <2>2, <2>3
<1>2. CASE LocalAnswers
  <2>1. PanelHolds' /\ faulty' = faulty
    BY <1>0, <1>2, LocalAnswersPanel DEF LocalAnswers
  <2>2. CASE ~hosted /\ login > 0
    BY <1>2, <2>1, <2>2, ShowStep DEF LocalAnswers, ShowAuthenticated
  <2>3. CASE ~(~hosted /\ login > 0)
    <3>1. OthersOfPanel /\ panel' = [Ask(panel, {"local"}, {}) EXCEPT !.shown = {}, !.ready = FALSE] /\ login' = login
      BY <1>2, <2>3 DEF LocalAnswers
    <3>2. panel \in PanelRecords
      BY <1>0 DEF PanelHolds, PanelTyped
    <3>3. panel'.shown = {} /\ panel'.ready = FALSE /\ SamePolls /\ SameOuts
      BY <3>1, <3>2 DEF Ask, PanelRecords, SamePolls, SameOuts
    <3>4. Quiet
      BY <2>1, <3>1, <3>3, ShownIsQuiet
    <3> QED BY <2>1, <3>1, <3>4, QuietStep
  <2> QED BY <2>2, <2>3
<1>3. CASE PollAuthenticates
  <2>1. PanelHolds' /\ faulty' = faulty
    BY <1>0, <1>3, PollAuthenticatesPanel DEF PollAuthenticates
  <2> QED BY <1>3, <2>1, ShowStep DEF PollAuthenticates, ShowAuthenticated
<1>4. CASE StatusFails \/ StatusUnanswered \/ StartDeviceAuth \/ DeviceCodeShown \/ StartFails
  <2>1. PanelHolds' /\ Quiet
    BY <1>0, <1>4, QuietPanel
  <2>2. OthersOfPanel
    BY <1>4 DEF StatusFails, StatusUnanswered, StartDeviceAuth, DeviceCodeShown, StartFails
  <2> QED BY <2>1, <2>2, QuietStep
<1>5. CASE PollTimerFires \/ PollSignsIn \/ PollPending \/ PollFails
  <2>1. PanelHolds' /\ Quiet
    BY <1>0, <1>5, TimerPanel, SignsInPanel, PendingPanel, PollFailsPanel
  <2>2. OthersOfPanel
    BY <1>5 DEF PollTimerFires, PollSignsIn, PollPending, PollFails
  <2> QED BY <2>1, <2>2, QuietStep
<1>6. CASE Disconnect \/ LogoutServed \/ LogoutAnswers \/ LogoutFails
  <2>1. PanelHolds' /\ Quiet
    BY <1>0, <1>6, OutsPanel
  <2>2. OthersOfPanel
    BY <1>6 DEF Disconnect, LogoutServed, LogoutAnswers, LogoutFails
  <2> QED BY <2>1, <2>2, QuietStep
<1>7. CASE \E k \in Fetches : SettingsServed(k) \/ SettingsArrive(k) \/ SettingsFail(k)
  BY <1>7, ServedStep, ArriveStep, FailStep
<1>8. CASE \E found \in {"remote", "bundled", "unusable"} : ModelsArrive(found)
  BY <1>8, ModelsStep
<1>9. CASE ModelsFail
  BY <1>9, ModelsStep
<1>10. CASE CacheAges
  BY <1>10, AgesStep
<1>11. CASE RunStarts \/ UserKnown \/ BundleSettled \/ ToolsListed \/ BillingKnown
            \/ PreparationFails \/ RunEnded \/ ResetProject
  BY <1>11, RunStep
<1>12. CASE UNCHANGED startupVars
  <2>1. CoordinatorTyped' /\ FirstFetchFirst(fetch)' /\ RunFits'
    BY <1>12 DEF StartupInv, CoordinatorTyped, FetchesTyped, FetchFits, KnownProfile, FirstFetchFirst, RunFits,
                 startupVars, panelVars
  <2>2. SettingsFollow'
    BY <1>12 DEF StartupInv, SettingsFollow, SettingsComing, PromisesBring, WillBring, PrefetchBrings, PageReads,
                Fine, SignedIn, startupVars, panelVars
  <2>3. PanelHolds'
    BY <1>0, <1>12, PanelStays DEF startupVars
  <2> QED BY <2>1, <2>2, <2>3 DEF StartupInv, PanelHolds
<1> QED BY <1>1, <1>2, <1>3, <1>4, <1>5, <1>6, <1>7, <1>8, <1>9, <1>10, <1>11, <1>12
        DEF StartupNext, PanelStep

\* The invariant gives the types and the properties the run checks.
LEMMA StartupInvHolds == StartupInv => StartupTypeOK /\ StartupSettles
<1> SUFFICES ASSUME StartupInv PROVE StartupTypeOK /\ StartupSettles
  OBVIOUS
<1>1. StartupTypeOK
  BY DEF StartupInv, PanelTyped, PanelRecords, CoordinatorTyped, FetchesTyped, FetchRecords, KnownProfile, RunFits,
         RunPlaces, StartupTypeOK
<1>2. SignedInSettings
  <2> SUFFICES ASSUME AtRest, login > 0, "disconnect" \in panel.shown, ~faulty, ~rejoined
               PROVE  profile.settings > 0
    BY DEF SignedInSettings
  <2>1. Fine /\ SignedIn
    <3>1. panel.polls = 0 /\ panel.outs = 0 /\ panel.signed <= panel.polls /\ panel.signed \in Nat
      BY DEF AtRest, PanelRests, StartupInv, PanelTyped, PanelRecords
    <3>2. panel.signed = 0
      BY <3>1
    <3> QED BY <3>1, <3>2 DEF Fine, SignedIn
  <2>2. \A k \in Fetches : fetch[k].at = "idle"
    BY NoFetchTyped DEF AtRest
  <2>3. ~PromisesBring(fetch)
    BY <2>2, FetchNames DEF PromisesBring, WillBring, PrefetchBrings
  <2> QED BY <2>1, <2>3 DEF StartupInv, SettingsFollow, SettingsComing
<1>3. RunHasProfile
  BY DEF StartupInv, RunFits, RunHasProfile
<1> QED BY <1>1, <1>2, <1>3 DEF StartupInv, StartupSettles

(***************************************************************************)
(* Whatever the worker answers, and however often the person clicks, a     *)
(* page that rests has a way on, a code that is shown is polled for, and a *)
(* page that rests signed in has settings of a sign-in.                    *)
(***************************************************************************)
THEOREM StartupComesToRest == StartupSpec => []StartupSettles
<1>1. StartupInit => StartupInv
  BY StartupInitInv
<1>2. StartupInv /\ [StartupNext]_startupVars => StartupInv'
  BY StartupStepInv
<1>3. StartupInv => StartupSettles
  BY StartupInvHolds
<1> QED BY <1>1, <1>2, <1>3, PTL DEF StartupSpec

-----------------------------------------------------------------------------
(***************************************************************************)
(* The bundle                                                              *)
(***************************************************************************)

\* What a record of files says of one.
At(record, f) == IF f \in DOMAIN record THEN record[f] ELSE NoFile

\* A record of what was published of some files.
IsRecord(record) ==
  record \in [DOMAIN record -> Publications] /\ DOMAIN record \subseteq Managed

SyncPlaces == {"idle", "archive", "legacy", "entry", "write", "prune", "remove"}

\* A sync has the fields it begins with; what it has to do and has done are records.
SyncRecord(s) ==
  s \in [at : SyncPlaces, from : {"none", "archive", "legacy"}, todo : {s.todo},
         next : {s.next}, old : {s.old}, name : Managed \cup {NoDigest}, seen : Contents]

BundleTyped ==
  /\ file \in [Managed -> Contents]
  /\ SyncRecord(sync)
  /\ IsRecord(manifest) /\ IsRecord(published)
  /\ IsRecord(sync.todo) /\ IsRecord(sync.next) /\ IsRecord(sync.old)
  /\ sync.at \in {"idle", "archive", "legacy"} => sync = [Resting EXCEPT !.at = sync.at]
  /\ sync.at \in {"write", "remove"} => sync.name \in DOMAIN sync.todo
  /\ sync.at \in {"entry", "prune"} => sync.name = NoDigest /\ sync.seen = NoFile
  /\ sync.at \in {"prune", "remove"} => DOMAIN sync.todo \subseteq DOMAIN sync.old
  /\ sync.at = "remove" => sync.name \notin DOMAIN sync.next
  /\ lost \subseteq usersOwn /\ raced \subseteq usersOwn /\ usersOwn \subseteq Managed
  /\ broken \in BOOLEAN

\* A file is as it was digested, or was touched since.
DigestHolds == sync.name # NoDigest => file[sync.name] = sync.seen \/ sync.name \in raced

\* Where the older bundle is written, workflows are neither to do nor done.
FlowsAreApart ==
  sync.from = "legacy" /\ sync.at \in {"entry", "write"} =>
    (DOMAIN sync.todo \cup DOMAIN sync.next) \cap FlowFiles = {}

\* A file the user never touched, as long as no sync was cut off: as the manifest has it; as the
\* sync found it, while that is to be replaced; and as it is published, once it was.
BeforeSync(f) == file[f] = At(manifest, f) /\ file[f] = At(published, f)
WhileWriting(f) ==
  IF f \in DOMAIN sync.todo
    THEN f \notin DOMAIN sync.next /\ file[f] = At(sync.old, f) /\ At(published, f) = sync.todo[f]
  ELSE IF f \in DOMAIN sync.next
    THEN file[f] = sync.next[f] /\ At(published, f) = sync.next[f]
  ELSE /\ file[f] = At(sync.old, f)
       /\ At(published, f) = IF sync.from = "legacy" /\ f \in FlowFiles THEN At(sync.old, f) ELSE NoFile
WhilePruning(f) ==
  IF f \in DOMAIN sync.next
    THEN file[f] = sync.next[f] /\ At(published, f) = sync.next[f]
    ELSE /\ At(published, f) = NoFile
         /\ file[f] = IF f \in DOMAIN sync.todo THEN sync.old[f] ELSE NoFile

UntouchedFollow ==
  ~broken => \A f \in Managed \ usersOwn :
    /\ sync.at \in {"idle", "archive", "legacy"} => BeforeSync(f)
    /\ sync.at \in {"entry", "write"} => WhileWriting(f)
    /\ sync.at \in {"prune", "remove"} => WhilePruning(f)

\* The inductive invariant of the syncs.
BundleInv == BundleTyped /\ DigestHolds /\ FlowsAreApart /\ EditsOutlastSyncs /\ UntouchedFollow

\* What the operators on records of files do.
LEMMA NoRecord == IsRecord(<<>>) /\ DOMAIN <<>> = {} /\ \A f : At(<<>>, f) = NoFile
  BY DEF IsRecord, At

\* A record without one file has the others as they were.
LEMMA WithoutOne ==
  ASSUME NEW r, IsRecord(r), NEW f
  PROVE  /\ IsRecord(Without(r, f)) /\ DOMAIN Without(r, f) = DOMAIN r \ {f}
         /\ \A g \in DOMAIN r \ {f} : Without(r, f)[g] = r[g]
  BY DEF IsRecord, Without, Restrict

\* Record q is r with file f standing for c.
Puts(q, r, f, c) ==
  /\ IsRecord(q) /\ DOMAIN q = DOMAIN r \cup {f} /\ q[f] = c
  /\ \A g \in DOMAIN r \ {f} : q[g] = r[g]

\* A record is set for one file.
LEMMA HoldsOne ==
  ASSUME NEW r, IsRecord(r), NEW f \in Managed, NEW c \in Publications
  PROVE  Puts(NowHolds(r, f, c), r, f, c)
  BY DEF IsRecord, NowHolds, Puts

\* The workflows of a record.
LEMMA OnlyFlows ==
  ASSUME NEW r, IsRecord(r)
  PROVE  /\ IsRecord(FlowsOf(r))
         /\ DOMAIN FlowsOf(r) = DOMAIN r \cap FlowFiles
         /\ \A g \in DOMAIN r \cap FlowFiles : FlowsOf(r)[g] = r[g]
  BY DEF IsRecord, FlowsOf, Restrict

\* One record over another.
LEMMA OneOverOther ==
  ASSUME NEW r, IsRecord(r), NEW q, IsRecord(q)
  PROVE  /\ IsRecord(Beside(r, q)) /\ DOMAIN Beside(r, q) = DOMAIN r \cup DOMAIN q
         /\ \A g \in DOMAIN r : Beside(r, q)[g] = r[g]
         /\ \A g \in DOMAIN q \ DOMAIN r : Beside(r, q)[g] = q[g]
  BY DEF IsRecord, Beside

\* What the constants and the markers of contents have to do with each other.
LEMMA BundleConstants ==
  /\ NoFile \in Contents /\ Edited \in Contents /\ Publications \subseteq Contents
  /\ NoFile \notin Publications /\ Edited \notin Publications /\ NoFile # Edited
  /\ AgentFiles \cap FlowFiles = {} /\ Managed = AgentFiles \cup FlowFiles
  /\ NoDigest \notin Managed
  BY BundleAssumption DEF Contents, Managed, NoDigest

\* A sync that rests, or fetches.
LEMMA RestingFields ==
  ASSUME NEW s, NEW place \in {"idle", "archive", "legacy"}, s = [Resting EXCEPT !.at = place]
  PROVE  /\ s.at = place /\ s.from = "none" /\ s.todo = <<>> /\ s.next = <<>> /\ s.old = <<>>
         /\ s.name = NoDigest /\ s.seen = NoFile
         /\ s = [at |-> place, from |-> "none", todo |-> <<>>, next |-> <<>>, old |-> <<>>,
                 name |-> NoDigest, seen |-> NoFile]
  BY DEF Resting

\* A sync that rests or fetches has its fields.
LEMMA RestingTyped ==
  ASSUME NEW s, NEW place \in {"idle", "archive", "legacy"}, s = [Resting EXCEPT !.at = place]
  PROVE  SyncRecord(s)
  BY RestingFields, BundleConstants DEF SyncRecord, SyncPlaces

\* Nothing is published, kept or touched at first.
LEMMA BundleInitInv == BundleInit => BundleInv
<1> SUFFICES ASSUME BundleInit PROVE BundleInv
  OBVIOUS
<1>0. sync = [Resting EXCEPT !.at = "idle"]
  BY DEF BundleInit, Resting
<1>1. /\ sync.at = "idle" /\ sync.from = "none" /\ sync.todo = <<>> /\ sync.next = <<>> /\ sync.old = <<>>
      /\ sync.name = NoDigest /\ sync.seen = NoFile /\ SyncRecord(sync)
  BY <1>0, RestingFields, RestingTyped
<1>2. /\ file = [f \in Managed |-> NoFile] /\ manifest = <<>> /\ published = <<>>
      /\ usersOwn = {} /\ raced = {} /\ lost = {} /\ broken = FALSE
  BY DEF BundleInit
<1>3. BundleTyped
  BY <1>0, <1>1, <1>2, NoRecord, BundleConstants DEF BundleTyped, SyncRecord
<1>4. DigestHolds /\ FlowsAreApart /\ EditsOutlastSyncs
  BY <1>1, <1>2 DEF DigestHolds, FlowsAreApart, EditsOutlastSyncs
<1>5. UntouchedFollow
  BY <1>1, <1>2, NoRecord DEF UntouchedFollow, BeforeSync
<1> QED BY <1>3, <1>4, <1>5 DEF BundleInv

\* A sync that stops before it has written anything, or is cut off, is none.
LEMMA RestsAgain ==
  ASSUME BundleInv, NEW place \in {"idle", "archive", "legacy"},
         sync' = [Resting EXCEPT !.at = place],
         UNCHANGED <<file, manifest, published, usersOwn, raced, lost>>,
         broken' \in BOOLEAN, ~broken' => ~broken /\ sync.at \in {"idle", "archive", "legacy"}
  PROVE  BundleInv'
<1>1. /\ sync'.at = place /\ sync'.from = "none" /\ sync'.todo = <<>> /\ sync'.next = <<>>
      /\ sync'.old = <<>> /\ sync'.name = NoDigest /\ sync'.seen = NoFile /\ SyncRecord(sync')
  BY RestingFields, RestingTyped
<1>2. BundleTyped'
  BY <1>1, NoRecord DEF BundleInv, BundleTyped, SyncRecord, IsRecord
<1>3. DigestHolds' /\ FlowsAreApart' /\ EditsOutlastSyncs'
  BY <1>1 DEF BundleInv, DigestHolds, FlowsAreApart, EditsOutlastSyncs
<1>4. UntouchedFollow'
  BY <1>1 DEF BundleInv, UntouchedFollow, BeforeSync, At
<1> QED BY <1>2, <1>3, <1>4 DEF BundleInv

\* The sync has its fields.
LEMMA BundleAt == ASSUME BundleInv PROVE SyncRecord(sync) /\ sync.at \in SyncPlaces
  BY DEF BundleInv, BundleTyped, SyncRecord

\* A bundle that was fetched is to be written, against the manifest of the last one.
LEMMA BeginsStep ==
  ASSUME BundleInv, NEW from \in {"archive", "legacy"}, NEW bundle, IsRecord(bundle),
         sync.at \in {"archive", "legacy"}, Begins(from, bundle),
         from = "legacy" => DOMAIN bundle \subseteq AgentFiles
  PROVE  BundleInv'
<1> DEFINE flows == IF from = "legacy" THEN FlowsOf(manifest) ELSE <<>>
<1>0. IsRecord(manifest)
  BY DEF BundleInv, BundleTyped
<1>1. /\ sync' = [at |-> "entry", from |-> from, todo |-> bundle, next |-> <<>>, old |-> manifest,
                  name |-> NoDigest, seen |-> NoFile]
      /\ published' = Beside(bundle, flows)
      /\ UNCHANGED <<file, manifest, usersOwn, raced, lost, broken>>
  BY DEF Begins, Resting
<1>2. /\ IsRecord(flows)
      /\ DOMAIN flows = IF from = "legacy" THEN DOMAIN manifest \cap FlowFiles ELSE {}
      /\ \A g \in DOMAIN flows : flows[g] = manifest[g]
  BY <1>0, NoRecord, OnlyFlows
<1> HIDE DEF flows
<1>3. /\ sync'.at = "entry" /\ sync'.from = from /\ sync'.todo = bundle /\ sync'.next = <<>>
      /\ sync'.old = manifest /\ sync'.name = NoDigest /\ sync'.seen = NoFile /\ SyncRecord(sync')
  BY <1>1, BundleConstants DEF SyncRecord, SyncPlaces
<1>4. IsRecord(published') /\ \A g : At(published', g) = IF g \in DOMAIN bundle THEN bundle[g]
                                                   ELSE IF g \in DOMAIN flows THEN flows[g] ELSE NoFile
  <2> DEFINE all == Beside(bundle, flows)
  <2>1. /\ IsRecord(all) /\ DOMAIN all = DOMAIN bundle \cup DOMAIN flows
        /\ \A g \in DOMAIN bundle : all[g] = bundle[g]
        /\ \A g \in DOMAIN flows \ DOMAIN bundle : all[g] = flows[g]
    BY <1>2, OneOverOther
  <2>2. published' = all
    BY <1>1
  <2> HIDE DEF all
  <2> QED BY <2>1, <2>2 DEF At
<1>5. BundleTyped'
  <2>1. /\ IsRecord(manifest') /\ IsRecord(published') /\ IsRecord(sync'.todo) /\ IsRecord(sync'.next)
        /\ IsRecord(sync'.old)
    BY <1>0, <1>1, <1>3, <1>4, NoRecord
  <2>2. /\ file' \in [Managed -> Contents] /\ broken' \in BOOLEAN
        /\ lost' \subseteq usersOwn' /\ raced' \subseteq usersOwn' /\ usersOwn' \subseteq Managed
    BY <1>1 DEF BundleInv, BundleTyped
  <2> QED BY <1>3, <2>1, <2>2 DEF BundleTyped, SyncRecord, IsRecord
<1>6. DigestHolds' /\ EditsOutlastSyncs'
  BY <1>1, <1>3 DEF BundleInv, DigestHolds, EditsOutlastSyncs
<1>7. FlowsAreApart'
  BY <1>3, NoRecord, BundleConstants DEF FlowsAreApart
<1>8. UntouchedFollow'
  <2> SUFFICES ASSUME ~broken, NEW f \in Managed \ usersOwn PROVE WhileWriting(f)'
    BY <1>1, <1>3 DEF UntouchedFollow
  <2>1. file[f] = At(manifest, f)
    BY DEF BundleInv, UntouchedFollow, BeforeSync
  <2>2. CASE f \in DOMAIN bundle
    BY <1>1, <1>3, <1>4, <2>1, <2>2, NoRecord DEF WhileWriting, At
  <2>3. CASE f \notin DOMAIN bundle
    BY <1>1, <1>2, <1>3, <1>4, <2>1, <2>3, NoRecord DEF WhileWriting, At
  <2> QED BY <2>2, <2>3
<1> QED BY <1>5, <1>6, <1>7, <1>8 DEF BundleInv

\* A step that leaves the file of its name to be digested, or has it digested.
LEMMA DigestsStep ==
  ASSUME BundleInv, NEW f \in Managed, DigestsEntry(f) \/ DigestsRemoved(f)
  PROVE  BundleInv'
<1>0. /\ sync.at \in {"entry", "prune"} /\ f \in DOMAIN sync.todo
      /\ (sync.at = "prune" => f \notin DOMAIN sync.next)
      /\ sync' = [sync EXCEPT !.at = IF sync.at = "entry" THEN "write" ELSE "remove", !.name = f, !.seen = file[f]]
      /\ UNCHANGED <<file, manifest, published, usersOwn, raced, lost, broken>>
  BY DEF DigestsEntry, DigestsRemoved, ToPrune, history
<1>1. SyncRecord(sync) /\ file[f] \in Contents
  BY BundleAt DEF BundleInv, BundleTyped
<1>2. /\ sync'.at = (IF sync.at = "entry" THEN "write" ELSE "remove") /\ sync'.from = sync.from
      /\ sync'.todo = sync.todo /\ sync'.next = sync.next /\ sync'.old = sync.old
      /\ sync'.name = f /\ sync'.seen = file[f] /\ SyncRecord(sync')
  BY <1>0, <1>1 DEF SyncRecord, SyncPlaces
<1>3. BundleTyped'
  <2>1. /\ IsRecord(manifest') /\ IsRecord(published') /\ IsRecord(sync'.todo) /\ IsRecord(sync'.next)
        /\ IsRecord(sync'.old)
    BY <1>0, <1>2 DEF BundleInv, BundleTyped
  <2>2. /\ file' \in [Managed -> Contents] /\ broken' \in BOOLEAN
        /\ lost' \subseteq usersOwn' /\ raced' \subseteq usersOwn' /\ usersOwn' \subseteq Managed
        /\ sync.at = "prune" => DOMAIN sync.todo \subseteq DOMAIN sync.old
    BY <1>0 DEF BundleInv, BundleTyped
  <2> QED BY <1>0, <1>2, <2>1, <2>2 DEF BundleTyped, SyncRecord
<1>4. DigestHolds' /\ EditsOutlastSyncs'
  BY <1>0, <1>2 DEF BundleInv, DigestHolds, EditsOutlastSyncs
<1>5. FlowsAreApart'
  BY <1>0, <1>2 DEF BundleInv, FlowsAreApart
<1>6. UntouchedFollow'
  BY <1>0, <1>2 DEF BundleInv, UntouchedFollow, WhileWriting, WhilePruning, At
<1> QED BY <1>3, <1>4, <1>5, <1>6 DEF BundleInv

\* A file is written, unless its digest says that it is the user's (WritesEntry).
LEMMA WritesStep == ASSUME BundleInv, WritesEntry PROVE BundleInv'
<1> DEFINE f == sync.name
           flows == IF f \in DOMAIN sync.old THEN NowHolds(sync.next, f, sync.old[f]) ELSE sync.next
           next == IF Replaceable(f) THEN NowHolds(sync.next, f, sync.todo[f]) ELSE flows
           left == Without(sync.todo, f)
<1>0. /\ sync.at = "write" /\ f \in DOMAIN sync.todo /\ f \in Managed
      /\ IsRecord(sync.todo) /\ IsRecord(sync.next) /\ IsRecord(sync.old) /\ SyncRecord(sync)
      /\ file \in [Managed -> Contents] /\ sync.todo[f] \in Publications
  BY BundleAt DEF BundleInv, BundleTyped, WritesEntry, IsRecord
<1>1. /\ file' = IF Replaceable(f) THEN [file EXCEPT ![f] = sync.todo[f]] ELSE file
      /\ lost' = IF Replaceable(f) /\ file[f] = Edited THEN lost \cup {f} ELSE lost
      /\ UNCHANGED <<manifest, published, usersOwn, raced, broken>>
  BY DEF WritesEntry, Overwrites
<1>2. sync' = [sync EXCEPT !.at = "entry", !.todo = left, !.name = NoDigest, !.seen = NoFile, !.next = next]
  BY DEF WritesEntry
<1>3. /\ IsRecord(left) /\ DOMAIN left = DOMAIN sync.todo \ {f}
      /\ \A g \in DOMAIN sync.todo \ {f} : left[g] = sync.todo[g]
  BY <1>0, WithoutOne
<1>4. /\ IsRecord(next)
      /\ Replaceable(f) => DOMAIN next = DOMAIN sync.next \cup {f} /\ next[f] = sync.todo[f]
      /\ \A g \in Managed \ {f} : (g \in DOMAIN next <=> g \in DOMAIN sync.next)
                                  /\ (g \in DOMAIN sync.next => next[g] = sync.next[g])
      /\ DOMAIN next \subseteq DOMAIN sync.next \cup {f}
  <2>1. ASSUME NEW c \in Publications, next = NowHolds(sync.next, f, c)
        PROVE  /\ IsRecord(next) /\ DOMAIN next = DOMAIN sync.next \cup {f} /\ next[f] = c
               /\ \A g \in DOMAIN sync.next \ {f} : next[g] = sync.next[g]
    <3> HIDE DEF f, next
    <3>1. Puts(NowHolds(sync.next, f, c), sync.next, f, c)
      BY <1>0, HoldsOne
    <3> QED BY <2>1, <3>1 DEF Puts
  <2>2. ASSUME NEW c \in Publications, next = NowHolds(sync.next, f, c)
        PROVE  /\ \A g \in Managed \ {f} : (g \in DOMAIN next <=> g \in DOMAIN sync.next)
                                           /\ (g \in DOMAIN sync.next => next[g] = sync.next[g])
               /\ DOMAIN next \subseteq DOMAIN sync.next \cup {f}
    <3>1. /\ DOMAIN next = DOMAIN sync.next \cup {f}
          /\ \A g \in DOMAIN sync.next \ {f} : next[g] = sync.next[g]
      BY <2>1, <2>2
    <3> HIDE DEF f, next
    <3> QED BY <3>1
  <2>3. CASE Replaceable(f)
    <3>1. next = NowHolds(sync.next, f, sync.todo[f])
      BY <2>3
    <3> HIDE DEF next, f
    <3> QED BY <1>0, <2>1, <2>2, <2>3, <3>1
  <2>4. CASE ~Replaceable(f) /\ f \in DOMAIN sync.old
    <3>1. sync.old[f] \in Publications /\ next = NowHolds(sync.next, f, sync.old[f])
      BY <1>0, <2>4 DEF IsRecord
    <3> HIDE DEF next, f
    <3> QED BY <1>0, <2>1, <2>2, <2>4, <3>1
  <2>5. CASE ~Replaceable(f) /\ f \notin DOMAIN sync.old
    <3>1. next = sync.next
      BY <2>5
    <3> HIDE DEF next, f
    <3> QED BY <1>0, <2>5, <3>1
  <2> QED BY <2>3, <2>4, <2>5
<1> HIDE DEF next, left
<1>5. /\ sync'.at = "entry" /\ sync'.from = sync.from /\ sync'.todo = left /\ sync'.next = next
      /\ sync'.old = sync.old /\ sync'.name = NoDigest /\ sync'.seen = NoFile /\ SyncRecord(sync')
  BY <1>0, <1>2, BundleConstants DEF SyncRecord, SyncPlaces
<1>6. Replaceable(f) /\ file[f] = Edited => f \in raced
  BY <1>0, BundleConstants DEF BundleInv, DigestHolds, Replaceable, IsRecord
<1>7. f \in raced => f \in usersOwn
  BY DEF BundleInv, BundleTyped
<1>8. BundleTyped'
  <2>1. /\ IsRecord(manifest') /\ IsRecord(published') /\ IsRecord(sync'.todo) /\ IsRecord(sync'.next)
        /\ IsRecord(sync'.old)
    BY <1>0, <1>1, <1>3, <1>4, <1>5 DEF BundleInv, BundleTyped
  <2>2. file' \in [Managed -> Contents]
    BY <1>0, <1>1, BundleConstants
  <2>3. /\ broken' \in BOOLEAN
        /\ lost' \subseteq usersOwn' /\ raced' \subseteq usersOwn' /\ usersOwn' \subseteq Managed
    BY <1>1, <1>6, <1>7 DEF BundleInv, BundleTyped
  <2> QED BY <1>5, <2>1, <2>2, <2>3 DEF BundleTyped, SyncRecord
<1>9. DigestHolds' /\ EditsOutlastSyncs'
  BY <1>1, <1>5, <1>6 DEF BundleInv, DigestHolds, EditsOutlastSyncs
<1>10. FlowsAreApart'
  BY <1>0, <1>3, <1>4, <1>5 DEF BundleInv, FlowsAreApart
<1>11. UntouchedFollow'
  <2> SUFFICES ASSUME ~broken, NEW g \in Managed \ usersOwn PROVE WhileWriting(g)'
    BY <1>1, <1>5 DEF UntouchedFollow
  <2>1. WhileWriting(g)
    BY <1>0 DEF BundleInv, UntouchedFollow
  <2>2. CASE g = f
    <3>1. file[f] = sync.seen /\ file[f] = At(sync.old, f) /\ At(published, f) = sync.todo[f]
      BY <1>0, <1>7, <2>1, <2>2, BundleConstants DEF BundleInv, DigestHolds, WhileWriting
    <3>2. Replaceable(f)
      BY <3>1 DEF Replaceable, At
    <3>3. file'[f] = sync.todo[f] /\ f \in DOMAIN next /\ next[f] = sync.todo[f] /\ f \notin DOMAIN left
      BY <1>0, <1>1, <1>3, <1>4, <3>2
    <3> QED BY <1>1, <1>5, <2>2, <3>1, <3>3 DEF WhileWriting, At
  <2>3. CASE g # f
    <3>1. /\ file'[g] = file[g] /\ (g \in DOMAIN left <=> g \in DOMAIN sync.todo)
          /\ (g \in DOMAIN next <=> g \in DOMAIN sync.next)
          /\ (g \in DOMAIN sync.next => next[g] = sync.next[g])
          /\ (g \in DOMAIN sync.todo => left[g] = sync.todo[g])
      BY <1>0, <1>1, <1>3, <1>4, <2>3
    <3> QED BY <1>1, <1>5, <2>1, <3>1 DEF WhileWriting, At
  <2> QED BY <2>2, <2>3
<1> QED BY <1>8, <1>9, <1>10, <1>11 DEF BundleInv

\* When all is written, what the manifest knew beside it is to be removed.
LEMMA EntriesDoneStep == ASSUME BundleInv, EntriesDone PROVE BundleInv'
<1> DEFINE flows == IF sync.from = "legacy" THEN FlowsOf(sync.old) ELSE <<>>
           next == Beside(sync.next, flows)
<1>0. /\ sync.at = "entry" /\ sync.todo = <<>> /\ SyncRecord(sync)
      /\ IsRecord(sync.next) /\ IsRecord(sync.old) /\ sync.name = NoDigest /\ sync.seen = NoFile
  BY BundleAt DEF BundleInv, BundleTyped, EntriesDone
<1>1. /\ UNCHANGED <<file, manifest, published, usersOwn, raced, lost, broken>>
      /\ sync' = [sync EXCEPT !.at = "prune", !.next = next, !.todo = sync.old]
  BY DEF EntriesDone, history
<1>2. /\ IsRecord(flows)
      /\ DOMAIN flows = IF sync.from = "legacy" THEN DOMAIN sync.old \cap FlowFiles ELSE {}
      /\ \A g \in DOMAIN flows : flows[g] = sync.old[g]
  BY <1>0, NoRecord, OnlyFlows
<1> HIDE DEF flows
<1>3. /\ IsRecord(next) /\ DOMAIN next = DOMAIN sync.next \cup DOMAIN flows
      /\ \A g \in DOMAIN sync.next : next[g] = sync.next[g]
      /\ \A g \in DOMAIN flows \ DOMAIN sync.next : next[g] = flows[g]
  BY <1>0, <1>2, OneOverOther
<1> HIDE DEF next
<1>4. /\ sync'.at = "prune" /\ sync'.from = sync.from /\ sync'.todo = sync.old /\ sync'.next = next
      /\ sync'.old = sync.old /\ sync'.name = NoDigest /\ sync'.seen = NoFile /\ SyncRecord(sync')
  BY <1>0, <1>1 DEF SyncRecord, SyncPlaces
<1>5. BundleTyped'
  <2>1. /\ IsRecord(manifest') /\ IsRecord(published') /\ IsRecord(sync'.todo) /\ IsRecord(sync'.next)
        /\ IsRecord(sync'.old)
    BY <1>0, <1>1, <1>3, <1>4 DEF BundleInv, BundleTyped
  <2>2. /\ file' \in [Managed -> Contents] /\ broken' \in BOOLEAN
        /\ lost' \subseteq usersOwn' /\ raced' \subseteq usersOwn' /\ usersOwn' \subseteq Managed
    BY <1>1 DEF BundleInv, BundleTyped
  <2> QED BY <1>4, <2>1, <2>2 DEF BundleTyped, SyncRecord
<1>6. DigestHolds' /\ EditsOutlastSyncs' /\ FlowsAreApart'
  BY <1>1, <1>4 DEF BundleInv, DigestHolds, EditsOutlastSyncs, FlowsAreApart
<1>7. UntouchedFollow'
  <2> SUFFICES ASSUME ~broken, NEW f \in Managed \ usersOwn PROVE WhilePruning(f)'
    BY <1>1, <1>4 DEF UntouchedFollow
  <2>1. f \notin DOMAIN sync.todo
    BY <1>0, NoRecord
  <2>2. WhileWriting(f)
    BY <1>0 DEF BundleInv, UntouchedFollow
  <2>3. CASE f \in DOMAIN sync.next
    BY <1>1, <1>3, <1>4, <2>1, <2>2, <2>3 DEF WhileWriting, WhilePruning, At
  <2>4. CASE f \notin DOMAIN sync.next
    <3>1. /\ file[f] = At(sync.old, f)
          /\ At(published, f) = IF sync.from = "legacy" /\ f \in FlowFiles THEN At(sync.old, f) ELSE NoFile
      BY <2>1, <2>2, <2>4 DEF WhileWriting
    <3>2. CASE f \in DOMAIN flows
      <4>1. f \in DOMAIN next /\ next[f] = sync.old[f] /\ f \in DOMAIN sync.old
            /\ sync.from = "legacy" /\ f \in FlowFiles
        BY <1>2, <1>3, <2>4, <3>2
      <4> QED BY <1>1, <1>4, <3>1, <4>1 DEF WhilePruning, At
    <3>3. CASE f \notin DOMAIN flows
      <4>1. f \notin DOMAIN next /\ ~(sync.from = "legacy" /\ f \in FlowFiles /\ f \in DOMAIN sync.old)
        BY <1>2, <1>3, <2>4, <3>3
      <4> QED BY <1>1, <1>4, <3>1, <4>1 DEF WhilePruning, At
    <3> QED BY <3>2, <3>3
  <2> QED BY <2>3, <2>4
<1> QED BY <1>5, <1>6, <1>7 DEF BundleInv

\* A file that is no longer published is removed, if it is as it was written.
LEMMA RemovesStep == ASSUME BundleInv, RemovesFile PROVE BundleInv'
<1> DEFINE f == sync.name
           same == sync.seen = sync.old[f]
           next == IF same THEN sync.next ELSE NowHolds(sync.next, f, sync.old[f])
           left == Without(sync.todo, f)
<1>0. /\ sync.at = "remove" /\ f \in DOMAIN sync.todo /\ f \in Managed /\ f \in DOMAIN sync.old
      /\ f \notin DOMAIN sync.next /\ DOMAIN sync.todo \subseteq DOMAIN sync.old
      /\ IsRecord(sync.todo) /\ IsRecord(sync.next) /\ IsRecord(sync.old) /\ SyncRecord(sync)
      /\ file \in [Managed -> Contents] /\ sync.old[f] \in Publications
  BY BundleAt DEF BundleInv, BundleTyped, RemovesFile, IsRecord
<1>1. /\ file' = IF same THEN [file EXCEPT ![f] = NoFile] ELSE file
      /\ lost' = IF same /\ file[f] = Edited THEN lost \cup {f} ELSE lost
      /\ UNCHANGED <<manifest, published, usersOwn, raced, broken>>
  BY DEF RemovesFile, Overwrites
<1>2. sync' = [sync EXCEPT !.at = "prune", !.todo = left, !.name = NoDigest, !.seen = NoFile, !.next = next]
  <2>1. CASE same
    BY <1>0, <2>1 DEF RemovesFile, SyncRecord
  <2>2. CASE ~same
    BY <1>0, <2>2 DEF RemovesFile, SyncRecord
  <2> QED BY <2>1, <2>2
<1>3. /\ IsRecord(left) /\ DOMAIN left = DOMAIN sync.todo \ {f}
      /\ \A g \in DOMAIN sync.todo \ {f} : left[g] = sync.todo[g]
  BY <1>0, WithoutOne
<1>4. IF same THEN next = sync.next ELSE Puts(next, sync.next, f, sync.old[f])
  BY <1>0, HoldsOne
<1>5. /\ IsRecord(next) /\ DOMAIN next \subseteq DOMAIN sync.next \cup {f}
      /\ \A g \in Managed \ {f} : (g \in DOMAIN next <=> g \in DOMAIN sync.next)
                                  /\ (g \in DOMAIN sync.next => next[g] = sync.next[g])
  <2> HIDE DEF next, f, same
  <2> QED BY <1>0, <1>4 DEF Puts
<1> HIDE DEF next, left
<1>6. /\ sync'.at = "prune" /\ sync'.from = sync.from /\ sync'.todo = left /\ sync'.next = next
      /\ sync'.old = sync.old /\ sync'.name = NoDigest /\ sync'.seen = NoFile /\ SyncRecord(sync')
  BY <1>0, <1>2, BundleConstants DEF SyncRecord, SyncPlaces
<1>7. same /\ file[f] = Edited => f \in raced
  BY <1>0, BundleConstants DEF BundleInv, DigestHolds
<1>8. f \in raced => f \in usersOwn
  BY DEF BundleInv, BundleTyped
<1>9. BundleTyped'
  <2>1. /\ IsRecord(manifest') /\ IsRecord(published') /\ IsRecord(sync'.todo) /\ IsRecord(sync'.next)
        /\ IsRecord(sync'.old)
    BY <1>0, <1>1, <1>3, <1>5, <1>6 DEF BundleInv, BundleTyped
  <2>2. file' \in [Managed -> Contents]
    BY <1>0, <1>1, BundleConstants
  <2>3. /\ broken' \in BOOLEAN
        /\ lost' \subseteq usersOwn' /\ raced' \subseteq usersOwn' /\ usersOwn' \subseteq Managed
    BY <1>1, <1>7, <1>8 DEF BundleInv, BundleTyped
  <2>4. DOMAIN left \subseteq DOMAIN sync.old
    BY <1>0, <1>3
  <2> QED BY <1>6, <2>1, <2>2, <2>3, <2>4 DEF BundleTyped, SyncRecord
<1>10. DigestHolds' /\ EditsOutlastSyncs' /\ FlowsAreApart'
  BY <1>1, <1>6, <1>7 DEF BundleInv, DigestHolds, EditsOutlastSyncs, FlowsAreApart
<1>11. UntouchedFollow'
  <2> SUFFICES ASSUME ~broken, NEW g \in Managed \ usersOwn PROVE WhilePruning(g)'
    BY <1>1, <1>6 DEF UntouchedFollow
  <2>1. WhilePruning(g)
    BY <1>0 DEF BundleInv, UntouchedFollow
  <2>2. CASE g = f
    <3>1. file[f] = sync.old[f] /\ At(published, f) = NoFile /\ file[f] = sync.seen
      BY <1>0, <1>8, <2>1, <2>2, BundleConstants DEF BundleInv, DigestHolds, WhilePruning
    <3>2. same /\ next = sync.next /\ file'[f] = NoFile /\ f \notin DOMAIN left
      BY <1>0, <1>1, <1>3, <1>4, <3>1
    <3> QED BY <1>0, <1>1, <1>6, <2>2, <3>1, <3>2 DEF WhilePruning, At
  <2>3. CASE g # f
    <3>1. /\ file'[g] = file[g] /\ (g \in DOMAIN left <=> g \in DOMAIN sync.todo)
          /\ (g \in DOMAIN next <=> g \in DOMAIN sync.next)
          /\ (g \in DOMAIN sync.next => next[g] = sync.next[g])
      BY <1>0, <1>1, <1>3, <1>5, <2>3
    <3> QED BY <1>1, <1>6, <2>1, <3>1 DEF WhilePruning, At
  <2> QED BY <2>2, <2>3
<1> QED BY <1>9, <1>10, <1>11 DEF BundleInv

\* The manifest is written last, of what was published and is left.
LEMMA SyncEndsStep == ASSUME BundleInv, SyncEnds PROVE BundleInv'
<1>0. /\ sync.at = "prune" /\ ToPrune = {} /\ manifest' = sync.next
      /\ sync' = [Resting EXCEPT !.at = "idle"]
      /\ UNCHANGED <<file, published, usersOwn, raced, lost, broken>>
  BY DEF SyncEnds, history, Resting
<1>1. /\ sync'.at = "idle" /\ sync'.from = "none" /\ sync'.todo = <<>> /\ sync'.next = <<>>
      /\ sync'.old = <<>> /\ sync'.name = NoDigest /\ sync'.seen = NoFile /\ SyncRecord(sync')
  BY <1>0, RestingFields, RestingTyped
<1>2. BundleTyped'
  <2>1. /\ IsRecord(manifest') /\ IsRecord(published') /\ IsRecord(sync'.todo) /\ IsRecord(sync'.next)
        /\ IsRecord(sync'.old)
    BY <1>0, <1>1, NoRecord DEF BundleInv, BundleTyped
  <2>2. /\ file' \in [Managed -> Contents] /\ broken' \in BOOLEAN
        /\ lost' \subseteq usersOwn' /\ raced' \subseteq usersOwn' /\ usersOwn' \subseteq Managed
    BY <1>0 DEF BundleInv, BundleTyped
  <2>3. sync' = [Resting EXCEPT !.at = sync'.at]
    BY <1>0, <1>1
  <2> QED BY <1>1, <2>1, <2>2, <2>3 DEF BundleTyped, SyncRecord
<1>3. DigestHolds' /\ FlowsAreApart' /\ EditsOutlastSyncs'
  BY <1>0, <1>1 DEF BundleInv, DigestHolds, FlowsAreApart, EditsOutlastSyncs
<1>4. UntouchedFollow'
  <2> SUFFICES ASSUME ~broken, NEW f \in Managed \ usersOwn PROVE BeforeSync(f)'
    BY <1>0, <1>1 DEF UntouchedFollow
  <2>1. WhilePruning(f)
    BY <1>0 DEF BundleInv, UntouchedFollow
  <2>2. f \in DOMAIN sync.todo /\ f \notin DOMAIN sync.next => file[f] = NoFile
    BY <1>0 DEF ToPrune
  <2> QED BY <1>0, <2>1, <2>2 DEF WhilePruning, BeforeSync, At
<1> QED BY <1>2, <1>3, <1>4 DEF BundleInv

\* The user writes or removes a file at any time.
LEMMA UserWritesStep ==
  ASSUME BundleInv, NEW f \in Managed, NEW c \in {Edited, NoFile}, UserWrites(f, c)
  PROVE  BundleInv'
<1>0. /\ file' = [file EXCEPT ![f] = c] /\ usersOwn' = usersOwn \cup {f}
      /\ raced' = (IF sync.name = f THEN raced \cup {f} ELSE raced)
      /\ UNCHANGED <<manifest, sync, published, lost, broken>>
  BY DEF UserWrites
<1>1. BundleTyped'
  <2>1. file' \in [Managed -> Contents] /\ c \in Contents
    BY <1>0, BundleConstants DEF BundleInv, BundleTyped
  <2>2. lost' \subseteq usersOwn' /\ raced' \subseteq usersOwn' /\ usersOwn' \subseteq Managed
    BY <1>0 DEF BundleInv, BundleTyped
  <2> QED BY <1>0, <2>1, <2>2 DEF BundleInv, BundleTyped
<1>2. DigestHolds' /\ EditsOutlastSyncs' /\ FlowsAreApart'
  BY <1>0 DEF BundleInv, BundleTyped, DigestHolds, EditsOutlastSyncs, FlowsAreApart
<1>3. UntouchedFollow'
  <2> SUFFICES ASSUME ~broken, NEW g \in Managed \ usersOwn, g # f
               PROVE /\ sync.at \in {"idle", "archive", "legacy"} => BeforeSync(g)'
                     /\ sync.at \in {"entry", "write"} => WhileWriting(g)'
                     /\ sync.at \in {"prune", "remove"} => WhilePruning(g)'
    BY <1>0 DEF UntouchedFollow
  <2>1. file'[g] = file[g]
    BY <1>0 DEF BundleInv, BundleTyped
  <2>2. /\ sync.at \in {"idle", "archive", "legacy"} => BeforeSync(g)
        /\ sync.at \in {"entry", "write"} => WhileWriting(g)
        /\ sync.at \in {"prune", "remove"} => WhilePruning(g)
    BY DEF BundleInv, UntouchedFollow
  <2> QED BY <1>0, <2>1, <2>2 DEF BeforeSync, WhileWriting, WhilePruning, At
<1> QED BY <1>1, <1>2, <1>3 DEF BundleInv

\* Steps that change none of what the invariant is of.
LEMMA BundleStill ==
  ASSUME BundleInv, UNCHANGED <<file, manifest, sync, published, usersOwn, raced, lost, broken>>
  PROVE  BundleInv'
<1>1. BundleTyped'
  BY DEF BundleInv, BundleTyped
<1>2. DigestHolds' /\ EditsOutlastSyncs' /\ FlowsAreApart'
  BY DEF BundleInv, DigestHolds, EditsOutlastSyncs, FlowsAreApart
<1>3. UntouchedFollow'
  BY DEF BundleInv, UntouchedFollow, BeforeSync, WhileWriting, WhilePruning, At
<1> QED BY <1>1, <1>2, <1>3 DEF BundleInv

\* Every step of a sync, of the user and of what is published keeps the invariant.
LEMMA BundleStepInv == BundleInv /\ [BundleNext]_bundleVars => BundleInv'
<1> SUFFICES ASSUME BundleInv, [BundleNext]_bundleVars PROVE BundleInv'
  OBVIOUS
<1>0. broken \in BOOLEAN /\ sync.at \in SyncPlaces
  BY BundleAt DEF BundleInv, BundleTyped
<1>1. CASE SyncStarts
  BY <1>0, <1>1, RestsAgain DEF SyncStarts, history, Resting
<1>2. CASE ArchiveRefused
  <2>1. PICK place \in {"idle", "legacy"} : sync' = [Resting EXCEPT !.at = place]
    BY <1>2 DEF ArchiveRefused, Resting
  <2> QED BY <1>0, <1>2, <2>1, RestsAgain DEF ArchiveRefused, history
<1>3. CASE LegacyRefused \/ ManifestUnreadable
  <2>1. sync' = [Resting EXCEPT !.at = "idle"] /\ sync.at \in {"archive", "legacy"}
    BY <1>3 DEF LegacyRefused, ManifestUnreadable, Resting
  <2> QED BY <1>0, <1>3, <2>1, RestsAgain DEF LegacyRefused, ManifestUnreadable, history
<1>4. ASSUME NEW bundle \in Bundles, ArchiveArrives(bundle) \/ LegacyArrives(bundle) PROVE BundleInv'
  <2>1. IsRecord(bundle)
    BY DEF Bundles, IsRecord
  <2>2. CASE ArchiveArrives(bundle)
    BY <2>1, <2>2, BeginsStep DEF ArchiveArrives
  <2>3. CASE LegacyArrives(bundle)
    BY <2>1, <2>3, BeginsStep DEF LegacyArrives
  <2> QED BY <1>4, <2>2, <2>3
<1>5. CASE ArchiveBreaks \/ PageLeaves
  <2>1. /\ sync' = [Resting EXCEPT !.at = "idle"]
        /\ UNCHANGED <<file, manifest, published, usersOwn, raced, lost>>
    BY <1>5 DEF ArchiveBreaks, PageLeaves, history, Resting
  <2>2. broken' \in BOOLEAN /\ (~broken' => ~broken /\ sync.at \in {"idle", "archive", "legacy"})
    BY <1>0, <1>5 DEF ArchiveBreaks, PageLeaves
  <2> QED BY <2>1, <2>2, RestsAgain
<1>6. CASE UserSpoilsManifest \/ HourPasses \/ UNCHANGED bundleVars
  BY <1>6, BundleStill DEF UserSpoilsManifest, HourPasses, bundleVars, history
<1> QED BY <1>1, <1>2, <1>3, <1>4, <1>5, <1>6, DigestsStep, WritesStep, EntriesDoneStep, RemovesStep,
           SyncEndsStep, UserWritesStep DEF BundleNext

\* The invariant says what the run checks.
LEMMA BundleInvHolds == BundleInv => BundleTypeOK /\ BundleKeepsOwnership
<1> SUFFICES ASSUME BundleInv PROVE BundleTypeOK /\ BundleKeepsOwnership
  OBVIOUS
<1>1. BundleTypeOK
  <2>1. sync.at \in SyncPlaces /\ (sync.name # NoDigest <=> sync.at \in {"write", "remove"})
    <3>1. CASE sync.at \in {"idle", "archive", "legacy"}
      BY <3>1, RestingFields DEF BundleInv, BundleTyped, SyncPlaces
    <3>2. CASE sync.at \in {"entry", "prune"}
      BY <3>2 DEF BundleInv, BundleTyped, SyncPlaces
    <3>3. CASE sync.at \in {"write", "remove"}
      BY <3>3, BundleConstants DEF BundleInv, BundleTyped, SyncPlaces, IsRecord
    <3> QED BY <3>1, <3>2, <3>3, BundleAt DEF SyncPlaces
  <2>2. DOMAIN manifest \subseteq Managed /\ \A f \in DOMAIN manifest : manifest[f] \in Publications
    BY DEF BundleInv, BundleTyped, IsRecord
  <2> QED BY <2>1, <2>2 DEF BundleInv, BundleTyped, BundleTypeOK, SyncPlaces
<1>2. UntouchedIsPublished
  <2> SUFFICES ASSUME sync = Resting, ~broken, NEW f \in Managed \ usersOwn
               PROVE  file[f] = IF f \in DOMAIN published THEN published[f] ELSE NoFile
    BY DEF UntouchedIsPublished
  <2>1. sync.at = "idle"
    BY DEF Resting
  <2> QED BY <2>1 DEF BundleInv, UntouchedFollow, BeforeSync, At
<1> QED BY <1>1, <1>2 DEF BundleInv, BundleKeepsOwnership

\* What the user has written outlasts every sync (but for what he writes while his file is digested),
\* and a file he never touched follows what is published (syncGrokBuildBundle, grok-build-bundle.ts).
THEOREM BundleKeeps == BundleSpec => []BundleKeepsOwnership
<1>1. BundleSpec => []BundleInv
  BY BundleInitInv, BundleStepInv, PTL DEF BundleSpec
<1> QED BY <1>1, BundleInvHolds, PTL

-----------------------------------------------------------------------------
(***************************************************************************)
(* The skills                                                              *)
(***************************************************************************)

ManagerRecords ==
  [startup : SUBSET Skills, held : SUBSET Skills, found : SUBSET Skills, activated : SUBSET SkillFiles,
   dynamic : SUBSET SkillFiles, known : SUBSET SkillFiles, announced : SUBSET SkillNames,
   checked : BOOLEAN, begun : BOOLEAN]

SkillsTyped ==
  /\ DOMAIN text = SkillFiles /\ text = [f \in SkillFiles |-> text[f]] /\ skillManager \in ManagerRecords
  /\ SkillTypeOK

\* A name that a reminder gave is one the manager has announced; a session that has not begun lists nothing.
RemindersFit ==
  /\ named \subseteq skillManager.announced
  /\ ~skillManager.begun => listed = {}

\* The inductive invariant of the skills.
SkillsInv == SkillsTyped /\ TablesAgree /\ ListsWhatIsNew /\ RemindersFit

\* What is parsed of a file on disk is a skill.
LEMMA ParsedIsSkill ==
  ASSUME SkillsTyped, NEW f \in OnDisk
  PROVE  Parsed(f) \in Skills /\ Parsed(f).file = f
<1>1. f \in SkillFiles /\ text[f] # NoText /\ text[f] \in SkillTexts[f] \cup {NoText}
  BY DEF OnDisk, SkillsTyped, SkillTypeOK
<1>2. text[f] \in SkillTexts[f] /\ text[f].gated \in BOOLEAN /\ text[f].shown \in BOOLEAN
  BY <1>1, SkillAssumption
<1>3. text[f].name \in SkillNames
  <2>1. text[f] \in UNION {SkillTexts[g] : g \in SkillFiles}
    BY <1>1, <1>2
  <2> QED BY <2>1 DEF SkillNames
<1> QED BY <1>1, <1>2, <1>3 DEF Parsed, Skills

\* What is found on disk are skills, one for each file, none near a file that was touched.
LEMMA FoundAreSkills ==
  ASSUME SkillsTyped
  PROVE  /\ FoundSkills \subseteq Skills
         /\ \A s, t \in FoundSkills : s.file = t.file => s = t
         /\ \A s \in FoundSkills : s.file.in \in {"local", "bundled"}
<1>1. \A s \in FoundSkills : \E f \in OnDisk : f.in # "near" /\ s = Parsed(f)
  BY DEF FoundSkills
<1>2. FoundSkills \subseteq Skills
  BY <1>1, ParsedIsSkill
<1>3. \A s, t \in FoundSkills : s.file = t.file => s = t
  BY <1>1, ParsedIsSkill
<1>4. ASSUME NEW s \in FoundSkills PROVE s.file.in \in {"local", "bundled"}
  <2>1. PICK f \in OnDisk : f.in # "near" /\ s = Parsed(f)
    BY <1>1
  <2>2. s.file = f /\ f \in SkillFiles
    BY <2>1, ParsedIsSkill DEF OnDisk
  <2> QED BY <2>1, <2>2, SkillAssumption
<1> QED BY <1>2, <1>3, <1>4

\* What is found near a path that was touched are skills.
LEMMA NearAreSkills ==
  ASSUME SkillsTyped, NEW target \in {Page, Deep} \cup OnDisk
  PROVE  FoundAt(target) \subseteq Skills
<1>1. CASE target \in SkillFiles /\ target.in \in {"local", "near"}
  <2>1. target \in OnDisk
    BY <1>1 DEF Page, Deep
  <2>2. FoundAt(target) = {Parsed(target)}
    BY <1>1 DEF FoundAt, Deep
  <2> QED BY <2>1, <2>2, ParsedIsSkill
<1>2. CASE target = Deep /\ ~skillManager.checked
  <2>1. FoundAt(target) = {Parsed(f) : f \in {g \in OnDisk : g.in = "near"}}
    BY <1>2 DEF FoundAt, Deep
  <2> QED BY <2>1, ParsedIsSkill
<1>3. CASE ~(target \in SkillFiles /\ target.in \in {"local", "near"}) /\ ~(target = Deep /\ ~skillManager.checked)
  BY <1>3 DEF FoundAt
<1> QED BY <1>1, <1>2, <1>3

\* Files and names of sets of skills.
LEMMA SkillSets ==
  /\ \A S, T : FilesOf(S \cup T) = FilesOf(S) \cup FilesOf(T) /\ NamesOf(S \cup T) = NamesOf(S) \cup NamesOf(T)
  /\ \A S, T : S \subseteq T => FilesOf(S) \subseteq FilesOf(T) /\ NamesOf(S) \subseteq NamesOf(T)
  /\ \A S : S \subseteq Skills => FilesOf(S) \subseteq SkillFiles /\ NamesOf(S) \subseteq SkillNames
  /\ \A S : Shown(S) \subseteq S
  /\ FilesOf({}) = {} /\ NamesOf({}) = {}
<1>1. \A S, T : FilesOf(S \cup T) = FilesOf(S) \cup FilesOf(T) /\ NamesOf(S \cup T) = NamesOf(S) \cup NamesOf(T)
  BY DEF FilesOf, NamesOf
<1>2. \A S, T : S \subseteq T => FilesOf(S) \subseteq FilesOf(T) /\ NamesOf(S) \subseteq NamesOf(T)
  BY DEF FilesOf, NamesOf
<1>3. \A S : S \subseteq Skills => FilesOf(S) \subseteq SkillFiles /\ NamesOf(S) \subseteq SkillNames
  BY DEF FilesOf, NamesOf, Skills
<1>4. \A S : Shown(S) \subseteq S
  BY DEF Shown
<1>5. FilesOf({}) = {} /\ NamesOf({}) = {}
  BY DEF FilesOf, NamesOf
<1> QED BY <1>1, <1>2, <1>3, <1>4, <1>5

\* The files of three tables.
LEMMA ThreeFiles ==
  ASSUME NEW S, NEW T, NEW U
  PROVE  FilesOf(S \cup T \cup U) = FilesOf(S) \cup FilesOf(T) \cup FilesOf(U)
  BY DEF FilesOf

\* The fields of a manager of its type.
LEMMA ManagerFields ==
  ASSUME SkillsTyped
  PROVE  /\ skillManager.startup \subseteq Skills /\ skillManager.held \subseteq Skills
         /\ skillManager.found \subseteq Skills /\ skillManager.activated \subseteq SkillFiles
         /\ skillManager.dynamic \subseteq SkillFiles /\ skillManager.known \subseteq SkillFiles
         /\ skillManager.announced \subseteq SkillNames
         /\ skillManager.checked \in BOOLEAN /\ skillManager.begun \in BOOLEAN
         /\ named \subseteq SkillNames /\ listed \subseteq Skills
  BY DEF SkillsTyped, SkillTypeOK, ManagerRecords

\* A step that leaves the files, of which the types follow by the fields.
LEMMA SkillsTypedNext ==
  ASSUME SkillsTyped, skillManager' \in ManagerRecords, UNCHANGED <<text, writes>>,
         listed' \subseteq Skills, named' \subseteq SkillNames,
         namedTwice' \in BOOLEAN, summarized' \in BOOLEAN
  PROVE  SkillsTyped'
<1>1. SkillTypeOK'
  BY DEF SkillsTyped, SkillTypeOK, ManagerRecords
<1> QED BY <1>1 DEF SkillsTyped

\* The manager before the first run.
LEMMA NoManagerTyped ==
  /\ NoManager \in ManagerRecords /\ NoManager.startup = {} /\ NoManager.held = {} /\ NoManager.found = {}
  /\ NoManager.activated = {} /\ NoManager.dynamic = {} /\ NoManager.known = {} /\ NoManager.announced = {}
  /\ NoManager.checked = FALSE /\ NoManager.begun = FALSE
  BY DEF NoManager, ManagerRecords

\* A session begins: what is not gated is offered and listed, what is gated is held (BeginsSession).
LEMMA BeginsSessionStep == ASSUME SkillsInv, BeginsSession PROVE SkillsInv'
<1> DEFINE ungated == {s \in FoundSkills : ~s.gated}
           held == FoundSkills \ ungated
           known == FilesOf(FoundSkills)
           names == NamesOf(ungated)
<1>0. /\ ~skillManager.begun /\ SkillsTyped
      /\ skillManager' = [NoManager EXCEPT !.begun = TRUE, !.startup = ungated, !.held = held,
                            !.known = known, !.announced = names]
      /\ listed' = listed \cup Shown(ungated) /\ named' = NamesOf(Shown(ungated))
      /\ UNCHANGED <<text, namedTwice, summarized, writes>>
  BY DEF BeginsSession, Lists, SkillsInv
<1>1. /\ FoundSkills \subseteq Skills /\ ungated \subseteq Skills /\ held \subseteq Skills
      /\ known \subseteq SkillFiles /\ names \subseteq SkillNames
  BY <1>0, FoundAreSkills, SkillSets
<1>2. /\ \A s \in held : s.gated
      /\ FoundSkills = ungated \cup held
      /\ FilesOf(ungated) \cap FilesOf(held) = {}
  <2>1. FilesOf(ungated) \cap FilesOf(held) = {}
    BY <1>0, FoundAreSkills DEF FilesOf
  <2>2. FoundSkills = ungated \cup held
    OBVIOUS
  <2>3. \A s \in held : s.gated
    OBVIOUS
  <2> QED BY <2>1, <2>2, <2>3
<1>3. known = FilesOf(ungated) \cup FilesOf(held) /\ names = NamesOf(ungated)
  BY <1>2, SkillSets
<1>4. \A s \in ungated : ~s.gated
  OBVIOUS
<1> HIDE DEF ungated, held, known, names
<1>5. /\ skillManager' \in ManagerRecords /\ skillManager'.startup = ungated /\ skillManager'.held = held
      /\ skillManager'.found = {} /\ skillManager'.known = known /\ skillManager'.announced = names
      /\ skillManager'.begun = TRUE
  BY <1>0, <1>1, NoManagerTyped DEF ManagerRecords
<1>6. listed = {} /\ listed' = Shown(ungated) /\ Shown(ungated) \subseteq ungated
  BY <1>0, SkillSets DEF SkillsInv, RemindersFit
<1>7. named' \subseteq names
  BY <1>0, <1>3, <1>6, SkillSets
<1>8. SkillsTyped'
  <2>1. namedTwice' \in BOOLEAN /\ summarized' \in BOOLEAN
    BY <1>0 DEF SkillsTyped, SkillTypeOK
  <2>2. listed' \subseteq Skills /\ named' \subseteq SkillNames
    BY <1>1, <1>6, <1>7
  <2> QED BY <1>0, <1>5, <2>1, <2>2, SkillsTypedNext
<1>9. TablesAgree'
  <2>1. FilesOf(ungated \cup held \cup {}) = known
    BY <1>3, SkillSets
  <2>2. skillManager'.known = FilesOf(skillManager'.startup \cup skillManager'.held \cup skillManager'.found)
    BY <1>5, <2>1
  <2>3. FilesOf(skillManager'.startup) \cap FilesOf(skillManager'.held) = {}
    BY <1>2, <1>5
  <2>4. \A s \in skillManager'.held : s.gated
    BY <1>2, <1>5
  <2>5. \A s \in skillManager'.startup \cup skillManager'.found : s.gated => s.file \in skillManager'.activated
    BY <1>4, <1>5
  <2> QED BY <2>2, <2>3, <2>4, <2>5 DEF TablesAgree, FilesOf
<1>10. ListsWhatIsNew'
  BY <1>0, <1>4, <1>6 DEF SkillsInv, ListsWhatIsNew
<1>11. RemindersFit'
  BY <1>5, <1>7 DEF RemindersFit
<1> QED BY <1>8, <1>9, <1>10, <1>11 DEF SkillsInv

\* A synced bundle is discovered again: its files are known, and no held file is offered (BundleUpdated).
LEMMA BundleUpdatedStep == ASSUME SkillsInv, BundleUpdated PROVE SkillsInv'
<1> DEFINE m == skillManager
           gated == {s \in FoundSkills : s.gated /\ s.file \notin m.activated}
           keeps == {s \in m.held : s.file \in m.dynamic /\ s.file \notin FilesOf(FoundSkills)}
           startup == FoundSkills \ gated
           held == keeps \cup gated
           known == FilesOf(startup \cup held \cup m.found)
<1>0. /\ m.begun /\ SkillsTyped /\ TablesAgree
      /\ skillManager' = [m EXCEPT !.startup = startup, !.held = held, !.known = known]
      /\ listed' = listed \cup Shown(startup) /\ UNCHANGED <<text, named, namedTwice, summarized, writes>>
  BY DEF BundleUpdated, Lists, SkillsInv
<1>1. /\ m \in ManagerRecords /\ m.held \subseteq Skills /\ m.found \subseteq Skills
      /\ FoundSkills \subseteq Skills
  BY <1>0, FoundAreSkills, ManagerFields DEF SkillsTyped
<1>2. startup \subseteq Skills /\ held \subseteq Skills
  BY <1>1
<1>3. known \subseteq SkillFiles
  <2>1. startup \cup held \cup m.found \subseteq Skills
    BY <1>1, <1>2
  <2> HIDE DEF startup, held, m
  <2> QED BY <2>1, SkillSets
<1>4. FilesOf(startup) \cap FilesOf(held) = {}
  <2>1. FilesOf(startup) \cap FilesOf(keeps) = {}
    BY SkillSets DEF FilesOf
  <2>2. FilesOf(startup) \cap FilesOf(gated) = {}
    BY <1>0, FoundAreSkills DEF FilesOf
  <2>3. FilesOf(held) = FilesOf(keeps) \cup FilesOf(gated)
    BY DEF FilesOf
  <2> HIDE DEF held, keeps, gated, startup
  <2> QED BY <2>1, <2>2, <2>3
<1>5. /\ \A s \in startup : s.gated => s.file \in m.activated
      /\ \A s \in held : s.gated
  BY <1>0 DEF TablesAgree
<1>6. \A s \in m.found : s.gated => s.file \in m.activated
  BY <1>0 DEF TablesAgree
<1> HIDE DEF startup, held, known, gated, keeps
<1>7. /\ skillManager' \in ManagerRecords /\ skillManager'.startup = startup /\ skillManager'.held = held
      /\ skillManager'.found = m.found /\ skillManager'.known = known /\ skillManager'.announced = m.announced
      /\ skillManager'.begun = m.begun /\ skillManager'.activated = m.activated
  BY <1>0, <1>1, <1>2, <1>3 DEF ManagerRecords
<1>8. Shown(startup) \subseteq startup
  BY SkillSets
<1>9. SkillsTyped'
  <2>1. namedTwice' \in BOOLEAN /\ summarized' \in BOOLEAN /\ named' \subseteq SkillNames
    BY <1>0 DEF SkillsTyped, SkillTypeOK
  <2>2. listed' \subseteq Skills
    BY <1>0, <1>2, <1>8, ManagerFields
  <2> QED BY <1>0, <1>7, <2>1, <2>2, SkillsTypedNext
<1>10. TablesAgree'
  BY <1>4, <1>5, <1>6, <1>7 DEF TablesAgree, known, FilesOf
<1>11. ListsWhatIsNew'
  BY <1>0, <1>5, <1>7, <1>8 DEF SkillsInv, ListsWhatIsNew
<1>12. RemindersFit'
  BY <1>0, <1>7 DEF SkillsInv, RemindersFit
<1> QED BY <1>9, <1>10, <1>11, <1>12 DEF SkillsInv

\* A call activates what it touched and announces what is new, each name once (ToolCalled).
LEMMA ToolCalledStep ==
  ASSUME SkillsInv, skillManager.begun, NEW target \in {Page, Deep} \cup OnDisk, NEW scans \in BOOLEAN,
         ToolCalled(target, scans), UNCHANGED <<text, summarized, writes>>
  PROVE  SkillsInv'
<1> DEFINE m == skillManager
           ripe == {s \in m.held : PathsMatch(s, target) /\ s.file \notin m.activated}
           novel == IF scans THEN {s \in FoundAt(target) : s.file \notin m.known} ELSE {}
           gated == {s \in novel : s.gated}
           open == novel \ gated
           again == {s \in ripe : s.file \notin FilesOf(m.found)}
           found == m.found \cup again \cup open
           candidates == {s \in ripe \cup open : s.name \notin m.announced}
<1>1. PICK says \in SUBSET candidates :
        /\ skillManager' = [m EXCEPT !.activated = @ \cup FilesOf(ripe), !.found = found,
                             !.held = @ \cup gated, !.dynamic = @ \cup FilesOf(gated),
                             !.known = @ \cup FilesOf(novel),
                             !.announced = @ \cup NamesOf(says),
                             !.checked = @ \/ (scans /\ target = Deep)]
        /\ listed' = listed \cup Shown(says)
        /\ named' = named \cup NamesOf(Shown(says))
        /\ namedTwice' = (namedTwice \/ NamesOf(Shown(says)) \cap named # {})
  BY DEF ToolCalled, Lists
<1>2. /\ SkillsTyped /\ TablesAgree /\ ListsWhatIsNew /\ RemindersFit /\ m \in ManagerRecords
      /\ m.startup \subseteq Skills /\ m.held \subseteq Skills /\ m.found \subseteq Skills
  BY ManagerFields DEF SkillsInv, SkillsTyped
<1>3. /\ ripe \subseteq m.held /\ novel \subseteq Skills /\ gated \subseteq novel /\ open \subseteq novel
      /\ again \subseteq ripe /\ says \subseteq ripe \cup open /\ novel = gated \cup open
  BY <1>2, NearAreSkills
<1>4. /\ \A s \in says : s.name \notin m.announced
      /\ found = m.found \cup again \cup open
  BY DEF FilesOf
<1>5. \A s \in open : ~s.gated
  OBVIOUS
<1>5a. \A s \in gated : s.gated
  OBVIOUS
<1>5b. \A s \in novel : s.file \notin m.known
  OBVIOUS
<1> HIDE DEF ripe, novel, gated, open, again, found, candidates
<1>6. /\ FilesOf(ripe) \subseteq SkillFiles /\ found \subseteq Skills /\ gated \subseteq Skills
      /\ FilesOf(gated) \subseteq SkillFiles /\ FilesOf(novel) \subseteq SkillFiles
      /\ NamesOf(says) \subseteq SkillNames /\ says \subseteq Skills
  <2>1. ripe \subseteq Skills /\ open \subseteq Skills /\ gated \subseteq Skills /\ says \subseteq Skills
        /\ found \subseteq Skills
    BY <1>2, <1>3, <1>4
  <2> QED BY <1>3, <2>1, SkillSets
<1>7. /\ skillManager' \in ManagerRecords /\ skillManager'.startup = m.startup
      /\ skillManager'.held = m.held \cup gated /\ skillManager'.found = found
      /\ skillManager'.known = m.known \cup FilesOf(novel)
      /\ skillManager'.announced = m.announced \cup NamesOf(says)
      /\ skillManager'.begun = m.begun /\ skillManager'.activated = m.activated \cup FilesOf(ripe)
  <2> DEFINE activated == m.activated \cup FilesOf(ripe)
             held == m.held \cup gated
             dynamic == m.dynamic \cup FilesOf(gated)
             known == m.known \cup FilesOf(novel)
             told == m.announced \cup NamesOf(says)
             checked == m.checked \/ (scans /\ target = Deep)
  <2>1. skillManager' = [m EXCEPT !.activated = activated, !.found = found, !.held = held, !.dynamic = dynamic,
                                  !.known = known, !.announced = told, !.checked = checked]
    BY <1>1, <1>2 DEF ManagerRecords
  <2>2. /\ activated \subseteq SkillFiles /\ held \subseteq Skills /\ dynamic \subseteq SkillFiles
        /\ known \subseteq SkillFiles /\ told \subseteq SkillNames /\ found \subseteq Skills
    BY <1>2, <1>6, ManagerFields
  <2>3. checked \in BOOLEAN
    OBVIOUS
  <2> HIDE DEF activated, held, dynamic, known, told, checked, m
  <2>4. /\ skillManager' \in ManagerRecords /\ skillManager'.startup = m.startup
        /\ skillManager'.held = held /\ skillManager'.found = found /\ skillManager'.known = known
        /\ skillManager'.announced = told /\ skillManager'.begun = m.begun /\ skillManager'.activated = activated
    BY <1>2, <2>1, <2>2, <2>3 DEF ManagerRecords
  <2> QED BY <2>4 DEF activated, held, known, told
<1>8. Shown(says) \subseteq says /\ NamesOf(Shown(says)) \subseteq NamesOf(says)
  BY SkillSets
<1>9. NamesOf(says) \cap m.announced = {}
  BY <1>4 DEF NamesOf
<1>10. namedTwice' = namedTwice
  <2>1. NamesOf(Shown(says)) \cap named = {}
    BY <1>2, <1>8, <1>9 DEF RemindersFit
  <2>2. namedTwice = FALSE
    BY <1>2 DEF ListsWhatIsNew, SkillsTyped, SkillTypeOK
  <2> QED BY <1>1, <2>1, <2>2
<1>11. SkillsTyped'
  <2>1. namedTwice' \in BOOLEAN /\ summarized' \in BOOLEAN
    BY <1>2, <1>10 DEF SkillsTyped, SkillTypeOK
  <2>2. listed' \subseteq Skills
    BY <1>1, <1>2, <1>6, <1>8, ManagerFields
  <2>3. named' \subseteq SkillNames
    BY <1>1, <1>2, <1>6, <1>8, ManagerFields
  <2> QED BY <1>2, <1>7, <2>1, <2>2, <2>3, SkillsTypedNext
<1>12. TablesAgree'
  <2>1. FilesOf(ripe) \subseteq FilesOf(m.held) /\ FilesOf(again) \subseteq FilesOf(ripe)
    BY <1>3, SkillSets
  <2>2. FilesOf(novel) = FilesOf(gated) \cup FilesOf(open)
    BY <1>3, SkillSets
  <2>3. m.known = FilesOf(m.startup) \cup FilesOf(m.held) \cup FilesOf(m.found)
    <3>1. m.known = FilesOf((m.startup \cup m.held) \cup m.found)
      BY <1>2 DEF TablesAgree
    <3> QED BY <3>1, ThreeFiles
  <2>4. (FilesOf(skillManager.startup \cup skillManager.held \cup skillManager.found))'
        = m.known \cup FilesOf(novel)
    <3>0. /\ FilesOf(found) = FilesOf(m.found) \cup FilesOf(again) \cup FilesOf(open)
          /\ FilesOf(m.held \cup gated) = FilesOf(m.held) \cup FilesOf(gated)
          /\ FilesOf(m.startup \cup (m.held \cup gated) \cup found)
             = FilesOf(m.startup) \cup FilesOf(m.held \cup gated) \cup FilesOf(found)
      BY <1>4, ThreeFiles, SkillSets
    <3>1. FilesOf(m.startup \cup (m.held \cup gated) \cup found)
          = FilesOf(m.startup) \cup FilesOf(m.held) \cup FilesOf(gated)
            \cup FilesOf(m.found) \cup FilesOf(again) \cup FilesOf(open)
      BY <3>0
    <3>2. FilesOf(m.startup \cup (m.held \cup gated) \cup found) = m.known \cup FilesOf(novel)
      BY <2>1, <2>2, <2>3, <3>1
    <3> QED BY <1>7, <3>2 DEF FilesOf
  <2>5. FilesOf(m.startup) \cap FilesOf(m.held \cup gated) = {}
    <3>1. FilesOf(m.startup) \cap FilesOf(gated) = {}
      BY <1>3, <1>5b, <2>3 DEF FilesOf
    <3> QED BY <1>2, <3>1, SkillSets DEF TablesAgree
  <2>6. ASSUME NEW s \in m.startup \cup found, s.gated PROVE s.file \in m.activated \cup FilesOf(ripe)
    <3>1. CASE s \in m.startup \cup m.found
      BY <1>2, <2>6, <3>1 DEF TablesAgree
    <3>2. CASE s \in again
      BY <1>3, <3>2 DEF FilesOf
    <3> QED BY <1>4, <1>5, <2>6, <3>1, <3>2
  <2>7. \A s \in m.held \cup gated : s.gated
    BY <1>2, <1>5a DEF TablesAgree
  <2>8. skillManager'.known = (FilesOf(skillManager.startup \cup skillManager.held \cup skillManager.found))'
    BY <1>7, <2>4
  <2> QED BY <1>7, <2>5, <2>6, <2>7, <2>8 DEF TablesAgree, FilesOf
<1>13. ListsWhatIsNew'
  <2>1. ASSUME NEW s \in says, s.gated PROVE s.file \in m.activated \cup FilesOf(ripe)
    BY <1>3, <1>5, <2>1 DEF FilesOf
  <2> QED BY <1>1, <1>2, <1>7, <1>8, <1>10, <2>1 DEF ListsWhatIsNew
<1>14. RemindersFit'
  BY <1>1, <1>2, <1>7, <1>8 DEF RemindersFit
<1> QED BY <1>11, <1>12, <1>13, <1>14 DEF SkillsInv

\* A summary forgets the names that were announced.
LEMMA CompactsStep == ASSUME SkillsInv, CompactsContext PROVE SkillsInv'
<1>0. /\ SkillsTyped /\ TablesAgree /\ ListsWhatIsNew /\ skillManager \in ManagerRecords /\ skillManager.begun
      /\ listed' = Shown(FoundSkills) /\ skillManager' = [skillManager EXCEPT !.announced = {}, !.checked = FALSE]
      /\ named' = {} /\ summarized' = TRUE /\ UNCHANGED <<text, namedTwice, writes>>
  BY DEF CompactsContext, SkillsInv, SkillsTyped
<1>1. /\ skillManager' \in ManagerRecords /\ skillManager'.startup = skillManager.startup
      /\ skillManager'.held = skillManager.held /\ skillManager'.found = skillManager.found
      /\ skillManager'.known = skillManager.known /\ skillManager'.activated = skillManager.activated
      /\ skillManager'.announced = {} /\ skillManager'.begun = skillManager.begun
  BY <1>0 DEF ManagerRecords
<1>2. SkillsTyped'
  <2>1. listed' \subseteq Skills
    BY <1>0, FoundAreSkills, SkillSets
  <2>2. namedTwice' \in BOOLEAN /\ summarized' \in BOOLEAN /\ named' \subseteq SkillNames
    BY <1>0 DEF SkillsTyped, SkillTypeOK
  <2> QED BY <1>0, <1>1, <2>1, <2>2, SkillsTypedNext
<1>3. TablesAgree'
  BY <1>0, <1>1 DEF TablesAgree, FilesOf
<1>4. ListsWhatIsNew'
  BY <1>0 DEF ListsWhatIsNew
<1>5. RemindersFit'
  BY <1>0, <1>1 DEF RemindersFit
<1> QED BY <1>2, <1>3, <1>4, <1>5 DEF SkillsInv

\* A reset begins with no manager.
LEMMA ResetsStep == ASSUME SkillsInv, ResetsSkills PROVE SkillsInv'
<1>0. /\ SkillsTyped /\ ListsWhatIsNew /\ skillManager' = NoManager /\ listed' = {} /\ named' = {}
      /\ summarized' = FALSE /\ UNCHANGED <<text, namedTwice, writes>>
  BY DEF ResetsSkills, SkillsInv
<1>1. SkillsTyped'
  <2>1. namedTwice' \in BOOLEAN /\ summarized' \in BOOLEAN /\ named' \subseteq SkillNames /\ listed' \subseteq Skills
    BY <1>0 DEF SkillsTyped, SkillTypeOK
  <2> QED BY <1>0, <2>1, NoManagerTyped, SkillsTypedNext
<1>2. TablesAgree'
  BY <1>0, NoManagerTyped DEF TablesAgree, FilesOf
<1>3. ListsWhatIsNew' /\ RemindersFit'
  BY <1>0 DEF ListsWhatIsNew, RemindersFit
<1> QED BY <1>1, <1>2, <1>3 DEF SkillsInv

\* A skill file is written or removed under the manager.
LEMMA ChangesSkillStep == ASSUME SkillsInv, NEW f \in SkillFiles, ChangesSkill(f) PROVE SkillsInv'
<1>1. PICK t \in SkillTexts[f] \cup {NoText} : text' = [text EXCEPT ![f] = t]
  BY DEF ChangesSkill
<1>2. /\ writes < MaxSkillWrites /\ writes' = writes + 1 /\ SkillsTyped
      /\ UNCHANGED <<skillManager, listed, named, namedTwice, summarized>>
  BY DEF ChangesSkill, SkillsInv
<1>3. writes' \in 0..MaxSkillWrites
  BY <1>2, SkillAssumption DEF SkillsTyped, SkillTypeOK
<1>4. /\ DOMAIN text' = SkillFiles /\ text' = [g \in SkillFiles |-> text'[g]]
      /\ \A g \in SkillFiles : text'[g] \in SkillTexts[g] \cup {NoText}
  <2>1. DOMAIN text = SkillFiles /\ \A g \in SkillFiles : text[g] \in SkillTexts[g] \cup {NoText}
    BY <1>2 DEF SkillsTyped, SkillTypeOK
  <2>2. text' = [g \in SkillFiles |-> IF g = f THEN t ELSE text[g]]
    BY <1>1, <2>1
  <2> QED BY <2>1, <2>2
<1>5. SkillsTyped'
  <2>1. SkillTypeOK'
    BY <1>2, <1>3, <1>4 DEF SkillsTyped, SkillTypeOK
  <2> QED BY <1>2, <1>4, <2>1 DEF SkillsTyped
<1>6. TablesAgree' /\ ListsWhatIsNew' /\ RemindersFit'
  BY <1>2 DEF SkillsInv, TablesAgree, FilesOf, ListsWhatIsNew, RemindersFit
<1> QED BY <1>5, <1>6 DEF SkillsInv

\* There are no skills at first.
LEMMA SkillsInitInv == SkillInit => SkillsInv
<1> SUFFICES ASSUME SkillInit PROVE SkillsInv
  OBVIOUS
<1>0. /\ text = [f \in SkillFiles |-> NoText] /\ skillManager = NoManager /\ listed = {} /\ named = {}
      /\ namedTwice = FALSE /\ summarized = FALSE /\ writes = 0
  BY DEF SkillInit
<1>1. SkillTypeOK
  <2>1. 0 \in 0..MaxSkillWrites
    BY SkillAssumption
  <2>2. \A f \in SkillFiles : text[f] = NoText
    BY <1>0
  <2> QED BY <1>0, <2>1, <2>2, NoManagerTyped DEF SkillTypeOK
<1>2. SkillsTyped
  BY <1>0, <1>1, NoManagerTyped DEF SkillsTyped
<1>3. TablesAgree
  BY <1>0, NoManagerTyped DEF TablesAgree, FilesOf
<1>4. ListsWhatIsNew /\ RemindersFit
  BY <1>0 DEF ListsWhatIsNew, RemindersFit
<1> QED BY <1>2, <1>3, <1>4 DEF SkillsInv

\* Every step keeps the invariant of the skills.
LEMMA SkillsStepInv == SkillsInv /\ [SkillNext]_skillVars => SkillsInv'
<1> SUFFICES ASSUME SkillsInv, [SkillNext]_skillVars PROVE SkillsInv'
  OBVIOUS
<1>1. CASE BeginsSession
  BY <1>1, BeginsSessionStep
<1>2. CASE BundleUpdated
  BY <1>2, BundleUpdatedStep
<1>3. CASE CallSucceeds
  <2>1. skillManager.begun /\ UNCHANGED <<text, summarized, writes>>
    BY <1>3 DEF CallSucceeds
  <2>2. CASE \E target \in {Page, Deep} \cup OnDisk : ToolCalled(target, TRUE)
    BY <2>1, <2>2, ToolCalledStep
  <2>3. CASE ToolCalled(Deep, FALSE)
    BY <2>1, <2>3, ToolCalledStep
  <2> QED BY <1>3, <2>2, <2>3 DEF CallSucceeds
<1>4. CASE CompactsContext
  BY <1>4, CompactsStep
<1>5. CASE ResetsSkills
  BY <1>5, ResetsStep
<1>6. CASE \E f \in SkillFiles : ChangesSkill(f)
  BY <1>6, ChangesSkillStep
<1>7. CASE UNCHANGED skillVars
  BY <1>7 DEF SkillsInv, SkillsTyped, SkillTypeOK, TablesAgree, FilesOf, ListsWhatIsNew, RemindersFit, skillVars
<1> QED BY <1>1, <1>2, <1>3, <1>4, <1>5, <1>6, <1>7 DEF SkillNext

\* What a name suggests is the one file of it.
LEMMA OneSuggested == SkillsInv => OneIsSuggested
<1> SUFFICES ASSUME SkillsInv, NEW f \in OnDisk,
                    f \in FilesOf(skillManager.startup \cup skillManager.held \cup skillManager.found),
                    FilesOf({s \in skillManager.startup \cup skillManager.held \cup skillManager.found :
                               s.file.dir = f.dir \/ s.name = f.dir}) = {f}
             PROVE  Suggested(f.dir) = {f}
  BY DEF OneIsSuggested
<1> DEFINE all == skillManager.startup \cup skillManager.held \cup skillManager.found
           fits == {s \in all : s.file.dir = f.dir \/ s.name = f.dir}
           matches == {g \in FilesOf(all) : g.dir = f.dir \/ f.dir \in NamesOf(Entries(g))}
<1>1. f \in matches
  OBVIOUS
<1>2. ASSUME NEW g \in matches PROVE g = f
  <2>1. \A s \in Entries(g) : s \in all /\ s.file = g
    BY DEF Entries
  <2>2. \E s \in all : s.file = g /\ (s.file.dir = f.dir \/ s.name = f.dir)
    <3>1. CASE g.dir = f.dir
      BY <3>1 DEF FilesOf
    <3>2. CASE f.dir \in NamesOf(Entries(g))
      BY <2>1, <3>2 DEF NamesOf
    <3> QED BY <3>1, <3>2
  <2>3. g \in FilesOf(fits)
    BY <2>2 DEF FilesOf
  <2> QED BY <2>3
<1>3. matches = {f}
  BY <1>1, <1>2
<1>4. Cardinality(matches) = 1
  BY <1>3, FS_Singleton
<1>5. Suggested(f.dir) = IF Cardinality(matches) = 1 THEN matches \cap OnDisk ELSE {}
  BY DEF Suggested
<1> HIDE DEF matches
<1> QED BY <1>3, <1>4, <1>5

\* What is offered is what comes of typing it.
LEMMA OfferResolves ==
  ASSUME SkillsInv, NEW c \in AvailableCommands
  PROVE  TypedResolves(c.typed) = c
<1> DEFINE skills == {d \in SkillCommands : d.typed = c.typed}
           builtins == {b \in Builtins : c.typed = Bare(b)}
           flows == {w \in FreeFlows : c.typed = Bare(w)}
<1>1. /\ \A n, o : Bare(n) = Bare(o) => n = o
      /\ \A n : Bare(n)[2] = n
  BY DEF Bare
<1>2. ASSUME NEW s \in FoundSkills, NEW n PROVE Qualified(s) # Bare(n)
  <2>1. s.file.in # "bare"
    BY FoundAreSkills DEF SkillsInv
  <2> QED BY <2>1 DEF Qualified, Bare
<1>3. \A s, t : Qualified(s) = Qualified(t) => s.name = t.name
  BY DEF Qualified
<1>4. ASSUME NEW s \in FoundSkills, NEW b \in Builtins PROVE SkillCommand(s) # Bare(b)
  BY <1>1, <1>2 DEF SkillCommand, TakenNames
<1>5. ASSUME NEW s \in FoundSkills, NEW w \in FreeFlows PROVE SkillCommand(s) # Bare(w)
  BY <1>1, <1>2 DEF SkillCommand, FreeFlows, NamesOf
<1>6. ASSUME NEW s \in FoundSkills, NEW t \in FoundSkills, SkillCommand(s) = SkillCommand(t) PROVE s.name = t.name
  BY <1>1, <1>2, <1>3, <1>6 DEF SkillCommand
<1>7. TypedResolves(c.typed) =
        CASE builtins # {} -> [typed |-> c.typed, kind |-> "builtin", is |-> c.typed[2]]
          [] builtins = {} /\ skills # {} -> CHOOSE d \in skills : TRUE
          [] builtins = {} /\ skills = {} /\ flows # {} -> [typed |-> c.typed, kind |-> "workflow", is |-> c.typed[2]]
          [] OTHER -> [typed |-> c.typed, kind |-> "text", is |-> "none"]
  BY DEF TypedResolves
<1>8. CASE \E b \in Builtins : c = [typed |-> Bare(b), kind |-> "builtin", is |-> b]
  <2>1. PICK b \in Builtins : c = [typed |-> Bare(b), kind |-> "builtin", is |-> b]
    BY <1>8
  <2>2. builtins # {} /\ c.typed = Bare(b) /\ c.typed[2] = b
    BY <1>1, <2>1
  <2> HIDE DEF builtins, skills, flows
  <2>3. TypedResolves(c.typed) = [typed |-> c.typed, kind |-> "builtin", is |-> c.typed[2]]
    BY <1>7, <2>2
  <2> QED BY <2>1, <2>2, <2>3
<1>9. CASE c \in SkillCommands
  <2>1. PICK s \in FoundSkills : c = [typed |-> SkillCommand(s), kind |-> "skill", is |-> s.name]
    BY <1>9 DEF SkillCommands
  <2>2. builtins = {}
    BY <1>4, <2>1
  <2>3. c \in skills
    BY <1>9
  <2>4. ASSUME NEW d \in skills PROVE d = c
    <3>1. PICK t \in FoundSkills : d = [typed |-> SkillCommand(t), kind |-> "skill", is |-> t.name]
      BY DEF SkillCommands
    <3>2. SkillCommand(t) = SkillCommand(s)
      BY <2>1, <3>1
    <3>3. s.name = t.name
      BY <1>6, <3>2
    <3> QED BY <2>1, <3>1, <3>2, <3>3
  <2> HIDE DEF builtins, skills, flows
  <2>5. TypedResolves(c.typed) = CHOOSE d \in skills : TRUE
    BY <1>7, <2>2, <2>3
  <2> QED BY <2>3, <2>4, <2>5
<1>10. CASE \E w \in FreeFlows : c = [typed |-> Bare(w), kind |-> "workflow", is |-> w]
  <2>1. PICK w \in FreeFlows : c = [typed |-> Bare(w), kind |-> "workflow", is |-> w]
    BY <1>10
  <2>2. flows # {} /\ c.typed = Bare(w) /\ c.typed[2] = w
    BY <1>1, <2>1
  <2>3. builtins = {}
    BY <1>1, <2>1, <2>2 DEF FreeFlows, TakenNames
  <2>4. skills = {}
    BY <1>5, <2>2 DEF SkillCommands
  <2> HIDE DEF builtins, skills, flows
  <2>5. TypedResolves(c.typed) = [typed |-> c.typed, kind |-> "workflow", is |-> c.typed[2]]
    BY <1>7, <2>2, <2>3, <2>4
  <2> QED BY <2>1, <2>2, <2>5
<1> QED BY <1>8, <1>9, <1>10 DEF AvailableCommands

\* The invariant gives the types and the properties the run checks.
LEMMA SkillsInvHolds == SkillsInv => SkillTypeOK /\ SkillsStayTrue
<1> SUFFICES ASSUME SkillsInv PROVE SkillTypeOK /\ SkillsStayTrue
  OBVIOUS
<1>1. ASSUME NEW c \in AvailableCommands, NEW d \in AvailableCommands, d.typed = c.typed PROVE d = c
  <2>1. TypedResolves(c.typed) = c /\ TypedResolves(d.typed) = d
    BY OfferResolves
  <2> QED BY <1>1, <2>1
<1>2. OfferedIsResolved
  BY <1>1, OfferResolves DEF OfferedIsResolved
<1> QED BY <1>2, OneSuggested DEF SkillsInv, SkillsTyped, SkillsStayTrue

(***************************************************************************)
(* Whichever skill files appear, change or go, and whatever is called, the *)
(* manager's tables agree, no reminder repeats a name or lists a gated     *)
(* skill early, and what a list of commands offers is what typing it does. *)
(***************************************************************************)
THEOREM SkillsHold == SkillSpec => []SkillsStayTrue
<1>1. SkillInit => SkillsInv
  BY SkillsInitInv
<1>2. SkillsInv /\ [SkillNext]_skillVars => SkillsInv'
  BY SkillsStepInv
<1>3. SkillsInv => SkillsStayTrue
  BY SkillsInvHolds
<1> QED BY <1>1, <1>2, <1>3, PTL DEF SkillSpec

-----------------------------------------------------------------------------
(***************************************************************************)
(* Side by side                                                            *)
(***************************************************************************)

\* The invariant of a page's beginning in the sum: the one of the part that moves.
BeginsInv ==
  /\ part = "bundle" => BundleInv
  /\ part = "startup" => StartupInv
  /\ part = "skills" => SkillsInv

\* A step of the sum is one of the part that moves.
LEMMA BeginsStepInv ==
  ASSUME BeginsInv,
         [AgentsNext]_<<part, schedulerVars, registryVars, wfVars, loopVars, gateVars,
                        subagentVars, phoneVars, messengerVars, telemetryVars, devVars,
                        bundleVars, startupVars, skillVars>>
  PROVE  BeginsInv'
<1>0. \/ Schedules \/ Registers \/ Drives \/ Loops \/ Gates \/ Delegates \/ Phones \/ Bridges
      \/ Reports \/ Relays \/ Syncs \/ Starts \/ Learns
      \/ UNCHANGED <<part, bundleVars, startupVars, skillVars>>
  BY DEF AgentsNext
<1>1. part' = part
  BY <1>0 DEF Schedules, Registers, Drives, Loops, Gates, Delegates, Phones, Bridges, Reports,
              Relays, Syncs, Starts, Learns, OthersRest
<1>2. ASSUME part = "bundle" PROVE BundleInv'
  <2>1. [BundleNext]_bundleVars
    BY <1>0, <1>2 DEF Schedules, Registers, Drives, Loops, Gates, Delegates, Phones, Bridges,
                      Reports, Relays, Syncs, Starts, Learns
  <2> QED BY <1>2, <2>1, BundleStepInv DEF BeginsInv
<1>3. ASSUME part = "startup" PROVE StartupInv'
  <2>1. [StartupNext]_startupVars
    BY <1>0, <1>3 DEF Schedules, Registers, Drives, Loops, Gates, Delegates, Phones, Bridges,
                      Reports, Relays, Syncs, Starts, Learns
  <2> QED BY <1>3, <2>1, StartupStepInv DEF BeginsInv
<1>4. ASSUME part = "skills" PROVE SkillsInv'
  <2>1. [SkillNext]_skillVars
    BY <1>0, <1>4 DEF Schedules, Registers, Drives, Loops, Gates, Delegates, Phones, Bridges,
                      Reports, Relays, Syncs, Starts, Learns
  <2> QED BY <1>4, <2>1, SkillsStepInv DEF BeginsInv
<1> QED BY <1>1, <1>2, <1>3, <1>4 DEF BeginsInv

\* For every instance, a page begins well: what it syncs keeps the user's files, its sign-in comes
\* to rest with the settings of who is signed in, and its skills stay true (main.ts).
THEOREM PagesBeginWell == AgentsSpec => []PageBeginsWell
<1>1. AgentsInit => BeginsInv
  BY BundleInitInv, StartupInitInv, SkillsInitInv DEF AgentsInit, BeginsInv
<1>2. BeginsInv /\ [AgentsNext]_<<part, schedulerVars, registryVars, wfVars, loopVars, gateVars,
                                 subagentVars, phoneVars, messengerVars, telemetryVars, devVars,
                                 bundleVars, startupVars, skillVars>> => BeginsInv'
  BY BeginsStepInv
<1>3. BeginsInv => PageBeginsWell
  BY BundleInvHolds, StartupInvHolds, SkillsInvHolds DEF BeginsInv, PageBeginsWell
<1> QED BY <1>1, <1>2, <1>3, PTL DEF AgentsSpec

-----------------------------------------------------------------------------
(***************************************************************************)
(* The line of prompts                                                     *)
(***************************************************************************)

\* The inductive invariant of the gate's types: only the head of the line has its dialog
\* open, and no call is in the line before it was made, so that none is in it twice; only of
\* commands is something said for good.
LineInv ==
  /\ GateTypeOK
  /\ \A c \in GateCalls : at[c] = "asked" => line # <<>> /\ Head(line) = c
  /\ \A i \in 1 .. Len(line) : at[line[i]] # "new"

\* The keys that are remembered of a request are keys.
LEMMA RememberedKeys ==
  ASSUME NEW r \in Request
  PROVE  /\ KeysOf(r) \subseteq Keys
         /\ r.kind = "bash" => KeysOf(r) \subseteq Parts \cup {Unparsed}
<1>1. r.parts \subseteq Parts \cup {Unparsed}
  BY DEF Request, ShellCommands
<1> QED
  BY <1>1 DEF KeysOf, NeedsPrompt, ToolKey, Keys

\* What a grant remembers has its types.
LEMMA GrantTyped ==
  ASSUME LineInv, NEW r \in Request, NEW outcome \in Offered(r), Grant(outcome, r)
  PROVE  /\ allowed' \cup denied' \subseteq Keys /\ rejected' \subseteq Parts \cup {Unparsed}
         /\ stored' \in [allowed : SUBSET Keys, denied : SUBSET Keys]
         /\ {alwaysApprove', editsAllowed'} \subseteq BOOLEAN
<1>1. /\ allowed \subseteq Keys /\ denied \subseteq Keys /\ rejected \subseteq Parts \cup {Unparsed}
      /\ stored \in [allowed : SUBSET Keys, denied : SUBSET Keys]
      /\ alwaysApprove \in BOOLEAN /\ editsAllowed \in BOOLEAN
  BY DEF LineInv, GateTypeOK
<1>2. ASSUME Persist, allowed' \subseteq Keys, denied' \subseteq Keys
      PROVE  stored' \in [allowed : SUBSET Keys, denied : SUBSET Keys]
  BY <1>2 DEF Persist
<1>3. CASE outcome = "reject-always"
  <2>1. r.kind = "bash"
    BY <1>3 DEF Offered
  <2>2. /\ denied' = denied \cup KeysOf(r) /\ rejected' = rejected \cup KeysOf(r)
        /\ UNCHANGED <<alwaysApprove, editsAllowed, allowed>> /\ Persist
    BY <1>3 DEF Grant
  <2>3. KeysOf(r) \subseteq Keys /\ KeysOf(r) \subseteq Parts \cup {Unparsed}
    BY <2>1, RememberedKeys
  <2>4. allowed' \subseteq Keys /\ denied' \subseteq Keys /\ rejected' \subseteq Parts \cup {Unparsed}
    BY <1>1, <2>2, <2>3
  <2> QED
    BY <1>1, <1>2, <2>2, <2>4
<1>4. CASE outcome = "allow-always"
  <2>1. allowed' = allowed \cup KeysOf(r) /\ UNCHANGED <<alwaysApprove, editsAllowed, denied, rejected>> /\ Persist
    BY <1>4 DEF Grant
  <2>2. allowed' \subseteq Keys /\ denied' \subseteq Keys
    BY <1>1, <2>1, RememberedKeys
  <2> QED
    BY <1>1, <1>2, <2>1, <2>2
<1>5. CASE outcome = "enable-always-approve"
  BY <1>1, <1>5 DEF Grant
<1>6. CASE outcome = "allow-edits-session"
  BY <1>1, <1>6 DEF Grant
<1>7. CASE outcome \in {"allow-once", "reject-once"}
  BY <1>1, <1>7 DEF Grant, grants
<1> QED
  BY <1>3, <1>4, <1>5, <1>6, <1>7 DEF Offered

\* The line and the calls in it, of which only the head may be asked.
LineOK(stages, slots) ==
  /\ stages \in [GateCalls -> Stages]
  /\ slots \in Seq(GateCalls) /\ IsInjective(slots)
  /\ \A c \in GateCalls : stages[c] = "asked" => slots # <<>> /\ Head(slots) = c
  /\ \A i \in 1 .. Len(slots) : stages[slots[i]] # "new"

\* The turn of a prompt keeps the line.
LEMMA TurnsKeepLine ==
  ASSUME NEW stages, NEW slots, LineOK(stages, slots)
  PROVE  LineOK(Turns(stages, slots), slots)
<1>1. /\ Turns(stages, slots) \in [GateCalls -> Stages]
      /\ \A c \in GateCalls :
              \/ Turns(stages, slots)[c] = stages[c]
              \/ stages[c] = "waits" /\ Turns(stages, slots)[c] = "asked"
  BY TurnsAsk DEF LineOK
<1>2. ASSUME NEW c \in GateCalls, Turns(stages, slots)[c] = "asked"
      PROVE  slots # <<>> /\ Head(slots) = c
  <2>1. CASE stages[c] = "asked"
    BY <2>1 DEF LineOK
  <2>2. CASE stages[c] # "asked"
    <3>1. slots # <<>> /\ stages[Head(slots)] = "waits"
      BY <1>2, <2>2 DEF Turns
    <3>2. Head(slots) \in GateCalls
      BY <3>1 DEF LineOK
    <3>3. Turns(stages, slots) = [stages EXCEPT ![Head(slots)] = "asked"]
      BY <3>1 DEF Turns
    <3> QED
      BY <1>2, <2>2, <3>1, <3>2, <3>3 DEF LineOK
  <2> QED
    BY <2>1, <2>2
<1>3. ASSUME NEW i \in 1 .. Len(slots)
      PROVE  Turns(stages, slots)[slots[i]] # "new"
  <2>1. slots[i] \in GateCalls /\ stages[slots[i]] # "new"
    BY <1>3 DEF LineOK
  <2> QED
    BY <1>1, <2>1
<1> QED
  BY <1>1, <1>2, <1>3 DEF LineOK

\* A line without its head.
LEMMA TailKeepsLine ==
  ASSUME NEW stages, NEW slots, LineOK(stages, slots), slots # <<>>,
         stages[Head(slots)] # "asked"
  PROVE  LineOK(stages, Tail(slots))
<1>1. /\ Len(slots) \in Nat \ {0} /\ Tail(slots) \in Seq(GateCalls)
      /\ Len(Tail(slots)) = Len(slots) - 1
      /\ \A i \in 1 .. Len(Tail(slots)) : Tail(slots)[i] = slots[i + 1]
  BY HeadTailProperties, EmptySeq, LenProperties DEF LineOK
<1>2. \A i \in 1 .. Len(Tail(slots)) : i + 1 \in 1 .. Len(slots)
  BY <1>1
<1>3. ASSUME NEW a \in DOMAIN Tail(slots), NEW b \in DOMAIN Tail(slots), Tail(slots)[a] = Tail(slots)[b]
      PROVE  a = b
  <2>1. a \in 1 .. Len(Tail(slots)) /\ b \in 1 .. Len(Tail(slots))
    BY <1>1
  <2>2. a + 1 \in DOMAIN slots /\ b + 1 \in DOMAIN slots
    BY <1>2, <2>1 DEF LineOK
  <2>3. slots[a + 1] = slots[b + 1]
    BY <1>1, <1>3, <2>1
  <2>4. a + 1 = b + 1
    BY <2>2, <2>3 DEF LineOK, IsInjective
  <2> QED
    BY <1>1, <2>1, <2>4
<1>4. IsInjective(Tail(slots))
  BY <1>3 DEF IsInjective
<1>5. \A c \in GateCalls : stages[c] # "asked"
  BY DEF LineOK
<1>6. \A i \in 1 .. Len(Tail(slots)) : stages[Tail(slots)[i]] # "new"
  BY <1>1, <1>2 DEF LineOK
<1> QED
  BY <1>1, <1>4, <1>5, <1>6 DEF LineOK

\* A call joins the end of the line.
LEMMA JoinsLine ==
  ASSUME NEW stages, NEW slots, LineOK(stages, slots), NEW c \in GateCalls, stages[c] = "new"
  PROVE  LineOK([stages EXCEPT ![c] = "waits"], Append(slots, c))
<1> DEFINE longer == Append(slots, c)
           moved == [stages EXCEPT ![c] = "waits"]
<1>1. /\ slots \in Seq(GateCalls) /\ longer \in Seq(GateCalls) /\ Len(slots) \in Nat
      /\ Len(longer) = Len(slots) + 1 /\ longer[Len(slots) + 1] = c
      /\ \A i \in 1 .. Len(slots) : longer[i] = slots[i]
  BY AppendProperties, LenProperties DEF LineOK
<1>2. moved \in [GateCalls -> Stages] /\ moved[c] = "waits" /\ \A d \in GateCalls \ {c} : moved[d] = stages[d]
  BY DEF LineOK, Stages
<1> HIDE DEF longer, moved
<1>3. \A i \in 1 .. Len(slots) : slots[i] # c /\ slots[i] \in GateCalls /\ stages[slots[i]] # "new"
  BY <1>1 DEF LineOK
<1>4. ASSUME NEW a \in DOMAIN longer, NEW b \in DOMAIN longer, longer[a] = longer[b]
      PROVE  a = b
  <2>1. a \in 1 .. Len(slots) + 1 /\ b \in 1 .. Len(slots) + 1
    BY <1>1
  <2>2. CASE a = Len(slots) + 1 /\ b # Len(slots) + 1
    <3>1. b \in 1 .. Len(slots)
      BY <1>1, <2>1, <2>2
    <3> QED
      BY <1>1, <1>3, <1>4, <2>2, <3>1
  <2>3. CASE b = Len(slots) + 1 /\ a # Len(slots) + 1
    <3>1. a \in 1 .. Len(slots)
      BY <1>1, <2>1, <2>3
    <3> QED
      BY <1>1, <1>3, <1>4, <2>3, <3>1
  <2>4. CASE a # Len(slots) + 1 /\ b # Len(slots) + 1
    <3>1. a \in 1 .. Len(slots) /\ b \in 1 .. Len(slots)
      BY <1>1, <2>1, <2>4
    <3>2. a \in DOMAIN slots /\ b \in DOMAIN slots /\ slots[a] = slots[b]
      BY <1>1, <1>4, <3>1
    <3> QED
      BY <3>2 DEF LineOK, IsInjective
  <2> QED
    BY <2>2, <2>3, <2>4
<1>5. IsInjective(longer)
  BY <1>4 DEF IsInjective
<1>6. ASSUME NEW d \in GateCalls, moved[d] = "asked"
      PROVE  longer # <<>> /\ Head(longer) = d
  <2>1. stages[d] = "asked"
    BY <1>2, <1>6
  <2>2. slots # <<>> /\ Head(slots) = d
    BY <2>1 DEF LineOK
  <2>3. Len(slots) # 0
    BY <1>1, <2>2, EmptySeq
  <2>4. 1 \in 1 .. Len(slots) /\ Len(longer) # 0
    BY <1>1, <2>3
  <2>5. longer[1] = slots[1]
    BY <1>1, <2>4
  <2>6. Head(longer) = longer[1] /\ Head(slots) = slots[1]
    OBVIOUS
  <2> QED
    BY <1>1, <2>2, <2>4, <2>5, <2>6, EmptySeq
<1>7. ASSUME NEW i \in 1 .. Len(longer)
      PROVE  moved[longer[i]] # "new"
  <2>1. CASE i = Len(slots) + 1
    BY <1>1, <1>2, <2>1
  <2>2. CASE i # Len(slots) + 1
    <3>1. i \in 1 .. Len(slots)
      BY <1>1, <2>2
    <3> QED
      BY <1>1, <1>2, <1>3, <3>1
  <2> QED
    BY <2>1, <2>2
<1> QED
  BY <1>1, <1>2, <1>5, <1>6, <1>7 DEF LineOK, longer, moved

\* A call that was not asked, or stays so, moves on without the line.
LEMMA LeavesLineBe ==
  ASSUME NEW stages, NEW slots, LineOK(stages, slots), NEW moved \in [GateCalls -> Stages],
         \A c \in GateCalls :
           \/ moved[c] = stages[c]
           \/ moved[c] \notin {"new", "asked"}
  PROVE  LineOK(moved, slots)
<1>1. \A i \in 1 .. Len(slots) : slots[i] \in GateCalls
  BY DEF LineOK
<1> QED
  BY <1>1 DEF LineOK

\* The types of the rest of the gate.
GateRest ==
  /\ request \in [GateCalls -> Request]
  /\ allowed \cup denied \subseteq Keys /\ rejected \subseteq Parts \cup {Unparsed}
  /\ stored \in [allowed : SUBSET Keys, denied : SUBSET Keys]
  /\ policy \in Settings
  /\ {alwaysApprove, editsAllowed, planMode, awaiting, planWritten, freshPage, resuming}
       \subseteq BOOLEAN
  /\ planFile \in [active : BOOLEAN, awaiting : BOOLEAN]

\* The invariant in its two parts, of the line and of what is remembered.
LEMMA LineInvParts == LineInv <=> LineOK(at, line) /\ GateRest
  BY DEF LineInv, LineOK, GateRest, GateTypeOK

\* The same of the next state.
LEMMA LineInvPartsNext == LineInv' <=> LineOK(at, line)' /\ GateRest'
  BY DEF LineInv, LineOK, GateRest, GateTypeOK

\* What plan mode is, and what it becomes.
LEMMA PlanTyped ==
  ASSUME NEW active \in BOOLEAN, NEW waiting \in BOOLEAN, SetPlanState(active, waiting)
  PROVE  planMode' \in BOOLEAN /\ awaiting' \in BOOLEAN /\ planFile' \in [active : BOOLEAN, awaiting : BOOLEAN]
  BY DEF SetPlanState

\* An action that leaves plan mode alone keeps its type.
LEMMA PlanStays ==
  ASSUME GateRest, UNCHANGED plan
  PROVE  planMode' \in BOOLEAN /\ awaiting' \in BOOLEAN /\ planFile' \in [active : BOOLEAN, awaiting : BOOLEAN]
  BY DEF GateRest, plan

\* An action that remembers nothing keeps the grants.
LEMMA GrantsStay ==
  ASSUME GateRest, UNCHANGED grants
  PROVE  /\ allowed' \cup denied' \subseteq Keys /\ rejected' \subseteq Parts \cup {Unparsed}
         /\ stored' \in [allowed : SUBSET Keys, denied : SUBSET Keys]
         /\ {alwaysApprove', editsAllowed'} \subseteq BOOLEAN
  BY DEF GateRest, grants

\* A call that is made, or let through, keeps the line.
LEMMA ExecuteKeepsLine ==
  ASSUME LineInv, NEW c \in GateCalls, Execute(c)
  PROVE  LineInv'
<1>1. LineOK(at, line) /\ GateRest
  BY LineInvParts
<1>2. PICK r \in Request :
       /\ r.kind = "bash" <=> r.parts # {}
       /\ request' = [request EXCEPT ![c] = r]
       /\ Gated(c, r) \/ Entering(c, r) \/ Presents(c, r)
  BY DEF Execute
<1>3. request' \in [GateCalls -> Request]
  BY <1>1, <1>2 DEF GateRest
<1>4. UNCHANGED grants /\ UNCHANGED <<policy, freshPage, resuming>> /\ at[c] = "new"
  BY <1>2 DEF Execute, Gated, Entering, Presents, pageVars
<1>5. planMode' \in BOOLEAN /\ awaiting' \in BOOLEAN /\ planFile' \in [active : BOOLEAN, awaiting : BOOLEAN]
  BY <1>1, <1>2, PlanTyped, PlanStays DEF Gated, Entering, Presents
<1>6. planWritten' \in BOOLEAN
  <2>1. planWritten \in BOOLEAN
    BY <1>1 DEF GateRest
  <2>2. planWritten' \in {planWritten, planWritten \/ PlanEdit(r)}
    BY <1>2 DEF Gated, Entering, Presents, Runs
  <2> QED
    BY <2>1, <2>2 DEF PlanEdit
<1>7. ASSUME NEW stage \in {"ran", "refused", "entering", "presented"},
             at' = [at EXCEPT ![c] = stage], line' = line
      PROVE  LineOK(at, line)'
  <2>1. at' \in [GateCalls -> Stages] /\ \A d \in GateCalls : at'[d] = at[d] \/ at'[d] \notin {"new", "asked"}
    BY <1>1, <1>7 DEF LineOK, Stages
  <2>2. LineOK(at', line)
    BY <1>1, <2>1, LeavesLineBe
  <2> QED
    BY <1>7, <2>2
<1>8. LineOK(at, line)'
  <2>1. CASE Entering(c, r) \/ Presents(c, r)
    BY <1>7, <2>1 DEF Entering, Presents
  <2>2. CASE Gated(c, r)
    <3>1. CASE planMode /\ OtherEdit(r)
      BY <1>7, <2>2, <3>1 DEF Gated
    <3>2. CASE /\ ~(planMode /\ OtherEdit(r))
               /\ (planMode /\ PlanEdit(r)) \/ Decision(r) = "ran"
      BY <1>7, <2>2, <3>2 DEF Gated, Runs
    <3>3. CASE /\ ~(planMode /\ OtherEdit(r))
               /\ ~((planMode /\ PlanEdit(r)) \/ Decision(r) = "ran")
      <4>1. CASE Decision(r) = "prompt"
        <5>1. line' = Append(line, c) /\ at' = Turns([at EXCEPT ![c] = "waits"], line')
          BY <2>2, <3>3, <4>1 DEF Gated
        <5>2. LineOK([at EXCEPT ![c] = "waits"], Append(line, c))
          BY <1>1, <1>4, JoinsLine
        <5>3. LineOK(Turns([at EXCEPT ![c] = "waits"], Append(line, c)), Append(line, c))
          BY <5>2, TurnsKeepLine
        <5> QED
          BY <5>1, <5>3
      <4>2. CASE Decision(r) # "prompt"
        BY <1>7, <2>2, <3>3, <4>2 DEF Gated
      <4> QED
        BY <4>1, <4>2
    <3> QED
      BY <3>1, <3>2, <3>3
  <2> QED
    BY <1>2, <2>1, <2>2
<1>9. GateRest'
  BY <1>1, <1>3, <1>4, <1>5, <1>6, GrantsStay DEF GateRest
<1> QED
  BY <1>8, <1>9, LineInvPartsNext

\* An answer takes the head of the line away.
LEMMA AnswerKeepsLine ==
  ASSUME LineInv, NEW c \in GateCalls, AnswerPrompt(c)
  PROVE  LineInv'
<1>1. LineOK(at, line) /\ GateRest /\ request[c] \in Request
  BY LineInvParts DEF GateRest
<1>2. PICK outcome \in Offered(request[c]), stage \in {"ran", "refused"}, wrote \in BOOLEAN :
          /\ at' = Turns([at EXCEPT ![c] = stage], line')
          /\ planWritten' = (planWritten \/ wrote)
          /\ Grant(outcome, request[c])
  BY DEF AnswerPrompt, PlanEdit
<1>3. line' = Tail(line) /\ UNCHANGED <<request, plan, policy, freshPage, resuming>> /\ at[c] = "asked"
  BY DEF AnswerPrompt, pageVars
<1>4. GateRest'
  <2>1. planWritten' \in BOOLEAN
    BY <1>1, <1>2 DEF GateRest
  <2>2. planMode' \in BOOLEAN /\ awaiting' \in BOOLEAN /\ planFile' \in [active : BOOLEAN, awaiting : BOOLEAN]
    BY <1>1, <1>3, PlanStays
  <2>3. /\ allowed' \cup denied' \subseteq Keys /\ rejected' \subseteq Parts \cup {Unparsed}
        /\ stored' \in [allowed : SUBSET Keys, denied : SUBSET Keys]
        /\ {alwaysApprove', editsAllowed'} \subseteq BOOLEAN
    BY <1>1, <1>2, GrantTyped
  <2> QED
    BY <1>1, <1>3, <2>1, <2>2, <2>3 DEF GateRest
<1> DEFINE moved == [at EXCEPT ![c] = stage]
<1>5. line # <<>> /\ Head(line) = c
  BY <1>1, <1>3 DEF LineOK
<1>6. moved \in [GateCalls -> Stages] /\ moved[c] = stage /\ \A d \in GateCalls \ {c} : moved[d] = at[d]
  BY <1>1 DEF LineOK, Stages
<1>7. LineOK(moved, line)
  <2>1. \A d \in GateCalls : moved[d] = at[d] \/ moved[d] \notin {"new", "asked"}
    BY <1>6
  <2> QED
    BY <1>1, <1>6, <2>1, LeavesLineBe
<1>8. LineOK(moved, Tail(line))
  BY <1>5, <1>6, <1>7, TailKeepsLine
<1>9. LineOK(Turns(moved, Tail(line)), Tail(line))
  BY <1>8, TurnsKeepLine
<1>10. LineOK(at, line)'
  BY <1>2, <1>3, <1>9
<1> QED
  BY <1>4, <1>10, LineInvPartsNext

\* A run that is stopped takes its calls out of the line.
LEMMA AbortKeepsLine ==
  ASSUME LineInv, NEW s \in Signals, Abort(s)
  PROVE  LineInv'
<1>1. LineOK(at, line) /\ GateRest
  BY LineInvParts
<1> DEFINE leaving == {c \in GateCalls : at[c] \in Open /\ request[c].signal = s}
           rest == [c \in GateCalls |-> IF c \in leaving THEN "refused" ELSE at[c]]
<1>2. /\ line' = IF \E c \in leaving : at[c] = "asked" THEN Tail(line) ELSE line
      /\ at' = Turns(rest, line')
      /\ UNCHANGED <<request, grants, planWritten, policy, freshPage>>
  BY DEF Abort
<1>3. resuming' \in BOOLEAN
  BY <1>1 DEF Abort, GateRest
<1>4. planMode' \in BOOLEAN /\ awaiting' \in BOOLEAN /\ planFile' \in [active : BOOLEAN, awaiting : BOOLEAN]
  BY <1>1, PlanTyped, PlanStays DEF Abort
<1>5. rest \in [GateCalls -> Stages] /\ \A c \in GateCalls : rest[c] = at[c] \/ rest[c] \notin {"new", "asked"}
  BY <1>1 DEF LineOK, Stages
<1>6. \A c \in leaving : rest[c] = "refused"
  OBVIOUS
<1>7. leaving \subseteq GateCalls
  OBVIOUS
<1> HIDE DEF leaving, rest
<1>8. LineOK(rest, line)
  BY <1>1, <1>5, LeavesLineBe
<1>9. LineOK(rest, line')
  <2>1. CASE \E c \in leaving : at[c] = "asked"
    <3>1. PICK c \in leaving : at[c] = "asked"
      BY <2>1
    <3>2. line # <<>> /\ Head(line) = c
      BY <1>1, <1>7, <3>1 DEF LineOK
    <3>3. LineOK(rest, Tail(line))
      BY <1>6, <1>8, <3>2, TailKeepsLine
    <3> QED
      BY <1>2, <2>1, <3>3
  <2>2. CASE ~\E c \in leaving : at[c] = "asked"
    BY <1>2, <1>8, <2>2
  <2> QED
    BY <2>1, <2>2
<1>10. LineOK(Turns(rest, line'), line')
  BY <1>9, TurnsKeepLine
<1>11. LineOK(at, line)'
  BY <1>2, <1>10
<1>12. GateRest'
  BY <1>1, <1>2, <1>3, <1>4, GrantsStay DEF GateRest
<1> QED
  BY <1>11, <1>12, LineInvPartsNext

\* Nothing waits at first.
LEMMA LineInitInv == GateInit => LineInv
<1> SUFFICES ASSUME GateInit PROVE LineInv
  OBVIOUS
<1>1. NoRequest \in Request
  BY DEF NoRequest, Request, Paths
<1>2. request \in [GateCalls -> Request]
  BY <1>1 DEF GateInit
<1>3. <<>> \in Seq(GateCalls) /\ IsInjective(<<>>) /\ Len(<<>>) = 0
  BY EmptySeq DEF IsInjective
<1>4. LineOK(at, line)
  BY <1>3 DEF GateInit, LineOK, Stages
<1>5. GateRest
  BY <1>2 DEF GateInit, GateRest
<1> QED
  BY <1>4, <1>5, LineInvParts

\* Every step or stutter of the gate keeps the line.
LEMMA LineStepInv == LineInv /\ [GateNext]_gateVars => LineInv'
<1> SUFFICES ASSUME LineInv, [GateNext]_gateVars PROVE LineInv'
  OBVIOUS
<1>1. LineOK(at, line) /\ GateRest
  BY LineInvParts
<1>2. ASSUME UNCHANGED gateVars PROVE LineInv'
  BY <1>2 DEF gateVars, grants, plan, pageVars, LineInv, GateTypeOK
<1>3. ASSUME NEW c \in GateCalls, AnswerEntry(c) \/ AnswerExit(c) \/ ExitIsLost(c) PROVE LineInv'
  <2>1. PICK stage \in {"ran", "refused"} : at' = [at EXCEPT ![c] = stage]
    BY <1>3 DEF AnswerEntry, AnswerExit, ExitIsLost
  <2>2. UNCHANGED <<request, line, grants, planWritten, policy, freshPage, resuming>>
    BY <1>3 DEF AnswerEntry, AnswerExit, ExitIsLost, pageVars
  <2>3. planMode' \in BOOLEAN /\ awaiting' \in BOOLEAN /\ planFile' \in [active : BOOLEAN, awaiting : BOOLEAN]
    BY <1>1, <1>3, PlanTyped, PlanStays DEF AnswerEntry, AnswerExit, ExitIsLost, Decide
  <2>4. at' \in [GateCalls -> Stages] /\ \A d \in GateCalls : at'[d] = at[d] \/ at'[d] \notin {"new", "asked"}
    BY <1>1, <2>1 DEF LineOK, Stages
  <2>5. LineOK(at', line)
    BY <1>1, <2>4, LeavesLineBe
  <2>6. GateRest'
    BY <1>1, <2>2, <2>3, GrantsStay DEF GateRest
  <2> QED
    BY <2>2, <2>5, <2>6, LineInvPartsNext
<1>4. ASSUME ReloadPage PROVE LineInv'
  <2>1. at' \in [GateCalls -> Stages] /\ \A c \in GateCalls : at'[c] # "asked"
    BY <1>1, <1>4 DEF ReloadPage, LineOK, Stages, Open
  <2>2. <<>> \in Seq(GateCalls) /\ IsInjective(<<>>) /\ Len(<<>>) = 0
    BY EmptySeq DEF IsInjective
  <2>3. LineOK(at', <<>>)
    BY <2>1, <2>2 DEF LineOK
  <2>4. GateRest'
    BY <1>1, <1>4 DEF ReloadPage, GateRest
  <2>5. line' = <<>>
    BY <1>4 DEF ReloadPage
  <2> QED
    BY <2>3, <2>4, <2>5, LineInvPartsNext
<1>5. ASSUME FirstRun \/ ResumeAnswered PROVE LineInv'
  <2>1. planMode' \in BOOLEAN /\ awaiting' \in BOOLEAN /\ planFile' \in [active : BOOLEAN, awaiting : BOOLEAN]
    BY <1>1, <1>5, PlanTyped, PlanStays DEF FirstRun, ResumeAnswered, Decide
  <2>2. UNCHANGED <<at, request, line, grants, planWritten, policy>>
    BY <1>5 DEF FirstRun, ResumeAnswered
  <2>3. freshPage' \in BOOLEAN /\ resuming' \in BOOLEAN
    BY <1>1, <1>5 DEF FirstRun, ResumeAnswered, GateRest
  <2>4. GateRest'
    BY <1>1, <2>1, <2>2, <2>3, GrantsStay DEF GateRest
  <2> QED
    BY <1>1, <2>2, <2>4, LineInvPartsNext
<1>6. ASSUME ToggleApprove PROVE LineInv'
  <2>1. GateRest'
    BY <1>1, <1>6 DEF ToggleApprove, GateRest, plan
  <2>2. UNCHANGED <<at, line>>
    BY <1>6 DEF ToggleApprove
  <2> QED
    BY <1>1, <2>1, <2>2, LineInvPartsNext
<1> QED
  BY <1>2, <1>3, <1>4, <1>5, <1>6, ExecuteKeepsLine, AnswerKeepsLine, AbortKeepsLine DEF GateNext

\* The invariant of the line has the gate's types.
LEMMA LineInvTyped == LineInv => GateTypeOK
  BY DEF LineInv

-----------------------------------------------------------------------------
(***************************************************************************)
(* The types of a workflow                                                 *)
(***************************************************************************)

\* A driver asks the host only for what its journal lacks.
Short(d) == Len(d.journal) <= HostCalls /\ (d.pc = "calling" => Len(d.journal) < HostCalls)

\* The bounds of a workflow.
WorkflowBounds ==
  /\ wfRun.epoch <= MaxDrivers
  /\ Len(wfFile) <= HostCalls
  /\ \A g \in Drivers : Short(wfDriver[g])
  /\ wfRights \in BOOLEAN
  /\ wfFaults \in 0 .. MaxWfFaults /\ wfReloads \in 0 .. MaxWfReloads

\* The inductive invariant of a workflow's types: no journal is longer than the script.
ScriptInv == JournalInv /\ WorkflowBounds

\* A driver that has not begun has asked nothing.
LEMMA NoDriverIsShort == Short(NoDriver)
  BY WorkflowAssumption, EmptySeq DEF Short, NoDriver

\* A write that throws is counted.
LEMMA FaultsCounted ==
  ASSUME ScriptInv, Sound \/ Faulty
  PROVE  wfFaults' \in 0 .. MaxWfFaults
  BY WorkflowAssumption DEF ScriptInv, WorkflowBounds, Sound, Faulty

\* A run that is concluded keeps its epoch.
LEMMA ConcludedBounds ==
  ASSUME ScriptInv, NEW o, NEW again, Concluded(o, again)
  PROVE  wfRun'.epoch = wfRun.epoch /\ wfFaults' \in 0 .. MaxWfFaults
<1>1. wfRun \in RunRecord
  BY DEF ScriptInv, JournalInv, RunTyped
<1>2. wfRun'.epoch = wfRun.epoch
  BY <1>1 DEF Concluded, RunRecord
<1> QED
  BY <1>2, FaultsCounted DEF Concluded

\* The drivers when one leaves or moves.
LEMMA DriverMoves ==
  ASSUME ScriptInv, NEW g \in Drivers, NEW d, Short(d), wfDriver' = [wfDriver EXCEPT ![g] = d]
  PROVE  \A h \in Drivers : Short(wfDriver'[h])
  BY DEF ScriptInv, WorkflowBounds, JournalInv, RunTyped

\* A driver that is aborted keeps the bounds.
LEMMA AbortBounds ==
  ASSUME ScriptInv, NEW g \in Drivers, AbortEnds(g)
  PROVE  /\ wfRun'.epoch = wfRun.epoch /\ wfFaults' \in 0 .. MaxWfFaults
         /\ wfRights' \in BOOLEAN /\ \A h \in Drivers : Short(wfDriver'[h])
<1>1. wfRights' \in BOOLEAN /\ \A h \in Drivers : Short(wfDriver'[h])
  BY NoDriverIsShort, DriverMoves DEF AbortEnds, Leaves
<1>2. wfRun'.epoch = wfRun.epoch /\ wfFaults' \in 0 .. MaxWfFaults
  BY ConcludedBounds, FaultsCounted DEF AbortEnds
<1> QED
  BY <1>1, <1>2

\* A script that asks its host asks for what its journal lacks.
LEMMA EvaluateBounds ==
  ASSUME ScriptInv, NEW g \in Drivers, Evaluate(g)
  PROVE  WorkflowBounds'
<1> DEFINE d == wfDriver[g]
<1>0. UNCHANGED <<wfFile, wfReloads>> /\ wfDriver \in [Drivers -> DriverRecord] /\ wfRights \in BOOLEAN
  BY DEF Evaluate, ScriptInv, JournalInv, RunTyped, WorkflowBounds
<1>1. SUFFICES /\ wfRun'.epoch = wfRun.epoch /\ wfFaults' \in 0 .. MaxWfFaults
               /\ wfRights' \in BOOLEAN /\ \A h \in Drivers : Short(wfDriver'[h])
  BY <1>0 DEF ScriptInv, WorkflowBounds
<1>2. ASSUME NEW o \in Outcomes, DriveEnds(g, o)
      PROVE  /\ wfRun'.epoch = wfRun.epoch /\ wfFaults' \in 0 .. MaxWfFaults
             /\ wfRights' \in BOOLEAN /\ \A h \in Drivers : Short(wfDriver'[h])
  <2>1. wfRights' \in BOOLEAN /\ \A h \in Drivers : Short(wfDriver'[h])
    BY <1>2, NoDriverIsShort, DriverMoves DEF DriveEnds, Leaves
  <2>2. Concluded(o, o \in CanResume)
    BY <1>2 DEF DriveEnds
  <2> QED
    BY <2>1, <2>2, ConcludedBounds
<1>3. CASE /\ Len(d.journal) < HostCalls
           /\ wfDriver' = [wfDriver EXCEPT ![g].pc = "calling"] /\ Sound /\ UNCHANGED <<wfRun, wfManifest, wfRights>>
  <2>1. PICK e : e = [d EXCEPT !.pc = "calling"]
    OBVIOUS
  <2>2. d \in DriverRecord /\ e.journal = d.journal /\ wfDriver' = [wfDriver EXCEPT ![g] = e]
    BY <1>0, <1>3, <2>1 DEF DriverRecord
  <2>3. Len(d.journal) \in Nat /\ HostCalls \in Nat
    BY <2>2, WorkflowAssumption, LenProperties DEF DriverRecord, Journal
  <2>4. Short(e)
    BY <1>3, <2>2, <2>3 DEF Short
  <2> QED
    BY <1>0, <1>3, <2>2, <2>4, DriverMoves, FaultsCounted
<1>4. CASE AbortEnds(g)
  BY <1>4, AbortBounds
<1> QED
  BY <1>2, <1>3, <1>4 DEF Evaluate, Outcomes

\* An answer is journalled once.
LEMMA AnswerBounds ==
  ASSUME ScriptInv, NEW g \in Drivers, HostAnswers(g)
  PROVE  WorkflowBounds'
<1> DEFINE d == wfDriver[g]
<1>0. UNCHANGED wfReloads /\ wfDriver \in [Drivers -> DriverRecord] /\ wfRights \in BOOLEAN /\ wfRun \in RunRecord
  BY DEF HostAnswers, ScriptInv, JournalInv, RunTyped, WorkflowBounds
<1>1. CASE AbortEnds(g) /\ UNCHANGED <<wfMemory, wfFile, wfKept>>
  BY <1>0, <1>1, AbortBounds DEF ScriptInv, WorkflowBounds
<1>2. ASSUME d.pc = "calling", NEW answer \in AgentResults, NEW j, j = Append(d.journal, answer),
             wfDriver' = [wfDriver EXCEPT ![g] = [@ EXCEPT !.pc = "ready", !.journal = j]],
             wfFile' = j, Sound, UNCHANGED <<wfRun, wfManifest, wfRights>>
      PROVE  WorkflowBounds'
  <2>1. PICK e : e = [d EXCEPT !.pc = "ready", !.journal = j]
    OBVIOUS
  <2>2. d \in DriverRecord /\ e.journal = j /\ e.pc = "ready" /\ wfDriver' = [wfDriver EXCEPT ![g] = e]
    BY <1>0, <1>2, <2>1 DEF DriverRecord
  <2>3. Len(d.journal) \in Nat /\ HostCalls \in Nat /\ Len(j) = Len(d.journal) + 1
    BY <1>2, <2>2, WorkflowAssumption, LenProperties, AppendProperties DEF DriverRecord, Journal
  <2>4. Len(d.journal) < HostCalls
    BY <1>2 DEF ScriptInv, WorkflowBounds, Short
  <2>5. Len(j) <= HostCalls
    BY <2>3, <2>4
  <2>6. Short(e)
    BY <2>2, <2>5 DEF Short
  <2>7. \A h \in Drivers : Short(wfDriver'[h])
    BY <2>2, <2>6, DriverMoves
  <2>8. wfFaults' \in 0 .. MaxWfFaults
    BY <1>2, FaultsCounted
  <2> QED
    BY <1>0, <1>2, <2>5, <2>7, <2>8 DEF ScriptInv, WorkflowBounds
<1>3. CASE /\ Faulty /\ wfDriver' = [wfDriver EXCEPT ![g] = NoDriver] /\ wfRights' = FALSE
           /\ wfRun' = [wfRun EXCEPT !.outcome = "failed", !.resumable = TRUE]
           /\ UNCHANGED <<wfMemory, wfFile, wfKept>>
  <2>1. wfRun'.epoch = wfRun.epoch
    BY <1>0, <1>3 DEF RunRecord
  <2>2. \A h \in Drivers : Short(wfDriver'[h])
    BY <1>3, NoDriverIsShort, DriverMoves
  <2>3. wfFaults' \in 0 .. MaxWfFaults
    BY <1>3, FaultsCounted
  <2> QED
    BY <1>0, <1>3, <2>1, <2>2, <2>3 DEF ScriptInv, WorkflowBounds
<1> QED
  BY <1>1, <1>2, <1>3 DEF HostAnswers

\* A run that is launched has a journal that is not longer than the script.
LEMMA LaunchBounds ==
  ASSUME ScriptInv, NEW budget, NEW journal, Len(journal) <= HostCalls, LaunchRun(budget, journal)
  PROVE  /\ wfRun'.epoch <= MaxDrivers /\ wfFaults' \in 0 .. MaxWfFaults
         /\ wfRights' \in BOOLEAN /\ \A h \in Drivers : Short(wfDriver'[h])
<1> DEFINE g == wfRun.epoch + 1
           e == [pc |-> "ready", journal |-> journal, aborted |-> FALSE]
<1>0. /\ wfDriver \in [Drivers -> DriverRecord] /\ wfRights \in BOOLEAN /\ wfRun \in RunRecord
      /\ wfRun.epoch <= MaxDrivers /\ \A h \in Drivers : Short(wfDriver[h])
      /\ wfRun.epoch \in Nat
  BY DEF ScriptInv, JournalInv, RunTyped, WorkflowBounds, RunRecord
<1>1. wfFaults' \in 0 .. MaxWfFaults
  BY FaultsCounted DEF LaunchRun
<1>2. CASE /\ wfRun' = [known |-> TRUE, epoch |-> g, resumable |-> FALSE, budget |-> budget, outcome |-> "none"]
           /\ wfDriver' = [wfDriver EXCEPT ![g] = e]
           /\ wfRights' = TRUE
  <2>1. g <= MaxDrivers /\ g \in Drivers
    BY <1>0, WorkflowAssumption DEF LaunchRun, Drivers
  <2>2. Short(e)
    BY DEF Short
  <2>3. wfRun'.epoch = g
    BY <1>2
  <2> HIDE DEF e, g
  <2>4. \A h \in Drivers : Short(wfDriver'[h])
    BY <1>2, <2>1, <2>2, DriverMoves
  <2> QED
    BY <1>1, <1>2, <2>1, <2>3, <2>4
<1>3. CASE wfRun' = [wfRun EXCEPT !.known = FALSE] /\ UNCHANGED <<wfManifest, wfDriver, wfRights>>
  BY <1>0, <1>1, <1>3 DEF RunRecord
<1> QED
  BY <1>2, <1>3 DEF LaunchRun

\* Pruning makes no journal longer.
LEMMA PrunedIsShorter ==
  ASSUME NEW j \in Journal
  PROVE  Len(Pruned(j)) \in Nat /\ Len(Pruned(j)) <= Len(j)
<1>1. CASE j # <<>> /\ j[Len(j)] = "error"
  <2> DEFINE n == Len(j) - 1
  <2>1. n \in Nat /\ Len(j) \in Nat /\ n + 1 = Len(j)
    BY <1>1, EmptySeq, LenProperties DEF Journal
  <2>2. Pruned(j) = SubSeq(j, 1, n)
    BY <1>1 DEF Pruned
  <2>3. Len(SubSeq(j, 1, n)) = n
    BY <2>1, SubSeqProperties DEF Journal
  <2> QED
    BY <2>1, <2>2, <2>3
<1>2. CASE ~(j # <<>> /\ j[Len(j)] = "error")
  BY <1>2, LenProperties DEF Pruned, Journal
<1> QED
  BY <1>1, <1>2

\* Launching, resuming and reloading a workflow keep the bounds.
LEMMA LaunchesBounds ==
  ASSUME ScriptInv, Start \/ Resume
  PROVE  WorkflowBounds'
<1>0. UNCHANGED wfReloads /\ wfFile \in Journal /\ Len(wfFile) \in Nat /\ Len(wfFile) <= HostCalls
      /\ wfReloads \in 0 .. MaxWfReloads
  BY LenProperties DEF Start, Resume, ScriptInv, JournalInv, RunTyped, WorkflowBounds, Journal
<1>1. CASE Start
  <2>1. PICK b \in Budgets : LaunchRun(b, <<>>)
    BY <1>1 DEF Start
  <2>2. Len(<<>>) <= HostCalls /\ UNCHANGED wfFile
    BY <1>1, WorkflowAssumption, EmptySeq DEF Start
  <2> QED
    BY <1>0, <2>1, <2>2, LaunchBounds DEF WorkflowBounds
<1>2. CASE Resume
  <2>1. Resumed = wfFile
    BY <1>2 DEF Resume, Resumed, ScriptInv, JournalInv, OneJournal
  <2>2. PICK b \in Budgets :
          \/ UNCHANGED wfFile /\ LaunchRun(ResumeBudget(b), wfFile)
          \/ wfFile' = Pruned(wfFile) /\ LaunchRun(ResumeBudget(b), Pruned(wfFile))
    BY <1>2, <2>1 DEF Resume
  <2>3. LaunchRun(ResumeBudget(b), wfFile') /\ wfFile' \in {wfFile, Pruned(wfFile)}
    BY <2>2
  <2>4. Len(Pruned(wfFile)) <= HostCalls
    BY <1>0, PrunedIsShorter, WorkflowAssumption
  <2>5. Len(wfFile') <= HostCalls
    BY <1>0, <2>3, <2>4
  <2> QED
    BY <1>0, <2>3, <2>5, LaunchBounds DEF WorkflowBounds
<1> QED
  BY <1>1, <1>2

\* So do pausing and stopping one.
LEMMA StopsBounds ==
  ASSUME ScriptInv, StopWorkflow \/ StopTurn \/ ReloadRuns
  PROVE  WorkflowBounds'
<1>0. /\ wfDriver \in [Drivers -> DriverRecord] /\ WorkflowBounds /\ Drivers = 1 .. MaxDrivers
  BY DEF ScriptInv, JournalInv, RunTyped, Drivers
<1>1. \A g \in Drivers : [wfDriver[g] EXCEPT !.aborted = TRUE].journal = wfDriver[g].journal
                      /\ [wfDriver[g] EXCEPT !.aborted = TRUE].pc = wfDriver[g].pc
  BY <1>0 DEF DriverRecord
<1>2. \A g \in Drivers : Short([wfDriver[g] EXCEPT !.aborted = TRUE])
  BY <1>0, <1>1 DEF Short, WorkflowBounds
<1>3. CASE StopWorkflow
  <2>1. \A h \in Drivers : Short(wfDriver'[h])
    BY <1>0, <1>2, <1>3 DEF StopWorkflow, WorkflowBounds
  <2>2. wfRun'.epoch = wfRun.epoch /\ wfFaults' \in 0 .. MaxWfFaults
    BY <1>3, ConcludedBounds DEF StopWorkflow
  <2> QED
    BY <1>0, <1>3, <2>1, <2>2 DEF StopWorkflow, WorkflowBounds
<1>4. CASE StopTurn
  <2>1. PICK g \in Drivers : wfDriver' = [wfDriver EXCEPT ![g].aborted = TRUE]
    BY <1>0, <1>4 DEF StopTurn
  <2>2. \A h \in Drivers : Short(wfDriver'[h])
    BY <1>0, <1>2, <2>1 DEF WorkflowBounds
  <2> QED
    BY <1>0, <1>4, <2>2 DEF StopTurn, WorkflowBounds
<1>5. CASE ReloadRuns
  <2>1. wfReloads' \in 0 .. MaxWfReloads
    BY <1>0, <1>5, WorkflowAssumption DEF ReloadRuns, WorkflowBounds
  <2>2. wfRun'.epoch <= MaxDrivers
    BY <1>5, WorkflowAssumption DEF ReloadRuns
  <2>3. \A h \in Drivers : Short(wfDriver'[h])
    BY <1>0, <1>5, NoDriverIsShort DEF ReloadRuns
  <2>4. wfRights' \in BOOLEAN /\ UNCHANGED <<wfFile, wfFaults>>
    BY <1>5 DEF ReloadRuns
  <2> QED
    BY <1>0, <2>1, <2>2, <2>3, <2>4 DEF WorkflowBounds
<1> QED
  BY <1>3, <1>4, <1>5

\* A journal of at most so many answers.
LEMMA ShortJournals ==
  ASSUME NEW j \in Journal, Len(j) <= HostCalls
  PROVE  j \in Journals
<1>1. Len(j) \in 0 .. HostCalls /\ j \in [1 .. Len(j) -> AgentResults]
  BY WorkflowAssumption, LenProperties DEF Journal
<1> QED
  BY <1>1 DEF Journals

\* No workflow runs at first.
LEMMA ScriptInitInv == WorkflowInit => ScriptInv
<1> SUFFICES ASSUME WorkflowInit PROVE ScriptInv
  OBVIOUS
<1>1. <<>> \in Journal
  BY DEF Journal
<1>2. NoDriver \in DriverRecord /\ NoDriver.pc = "off"
  BY <1>1 DEF NoDriver, DriverRecord
<1>3. wfRun \in RunRecord /\ wfManifest \in ManifestRecord
  BY DEF WorkflowInit, RunRecord, ManifestRecord
<1>4. wfDriver = [g \in Drivers |-> NoDriver]
  BY DEF WorkflowInit, Drivers
<1>5. JournalInv
  BY <1>1, <1>2, <1>3, <1>4
     DEF WorkflowInit, JournalInv, RunTyped, OneDrives, Driving, OneJournal, KeptInJournal, FirstStart
<1>6. wfRun.epoch = 0 /\ Len(wfFile) = 0
  BY EmptySeq DEF WorkflowInit
<1>7. WorkflowBounds
  <2>1. \A g \in Drivers : Short(wfDriver[g])
    BY <1>4, NoDriverIsShort
  <2>2. wfRights = FALSE /\ wfFaults = 0 /\ wfReloads = 0
    BY DEF WorkflowInit
  <2>3. 0 <= MaxDrivers /\ 0 <= HostCalls /\ 0 \in 0 .. MaxWfFaults /\ 0 \in 0 .. MaxWfReloads
    BY WorkflowAssumption
  <2> QED
    BY <1>6, <2>1, <2>2, <2>3 DEF WorkflowBounds
<1> QED
  BY <1>5, <1>7 DEF ScriptInv

\* Every step or stutter keeps the journal and its bounds.
LEMMA ScriptStepInv == ScriptInv /\ [WorkflowNext]_wfVars => ScriptInv'
<1> SUFFICES ASSUME ScriptInv, [WorkflowNext]_wfVars PROVE ScriptInv'
  OBVIOUS
<1>1. CASE UNCHANGED wfVars
  BY <1>1 DEF wfVars, ScriptInv, WorkflowBounds, JournalInv, RunTyped, OneDrives, Driving, OneJournal,
              KeptInJournal, FirstStart
<1>2. ASSUME WorkflowNext PROVE JournalInv'
  BY <1>2, EvaluateKeepsInv, AnswersKeepInv, LaunchesKeepInv, StopsKeepInv DEF WorkflowNext, Drivers, ScriptInv
<1>3. ASSUME WorkflowNext PROVE WorkflowBounds'
  BY <1>3, EvaluateBounds, AnswerBounds, LaunchesBounds, StopsBounds DEF WorkflowNext, Drivers
<1> QED
  BY <1>1, <1>2, <1>3 DEF ScriptInv

\* The invariant of a workflow has its types.
LEMMA ScriptInvTyped == ScriptInv => WorkflowTypeOK
<1> SUFFICES ASSUME ScriptInv PROVE WorkflowTypeOK
  OBVIOUS
<1>0. JournalInv /\ WorkflowBounds /\ HostCalls \in Nat /\ MaxDrivers \in Nat
  BY WorkflowAssumption DEF ScriptInv
<1>1. wfRun \in [known: BOOLEAN, epoch: 0 .. MaxDrivers, resumable: BOOLEAN, budget: Nat,
                outcome: {"none", "interrupted"} \cup Outcomes]
  <2>1. wfRun \in RunRecord /\ wfRun.epoch <= MaxDrivers
    BY <1>0 DEF JournalInv, RunTyped, WorkflowBounds
  <2>2. wfRun.epoch \in 0 .. MaxDrivers
    BY <1>0, <2>1 DEF RunRecord
  <2> QED
    BY <2>1, <2>2 DEF RunRecord
<1>2. wfManifest \in [status: {"absent", "active", "interrupted"} \cup Outcomes, budget: Nat]
  BY <1>0 DEF JournalInv, RunTyped, ManifestRecord
<1>3. wfFile \in Journals
  BY <1>0, ShortJournals DEF JournalInv, RunTyped, WorkflowBounds
<1>4. wfMemory \in {<<>>} \cup {<<j>> : j \in Journals}
  BY <1>0, <1>3 DEF JournalInv, OneJournal
<1>5. ASSUME NEW g \in Drivers
      PROVE  wfDriver[g] \in [pc: {"off", "ready", "calling"}, journal: Journals, aborted: BOOLEAN]
  <2>1. wfDriver[g] \in DriverRecord /\ Short(wfDriver[g])
    BY <1>0 DEF JournalInv, RunTyped, WorkflowBounds
  <2>2. wfDriver[g].journal \in Journals
    BY <2>1, ShortJournals DEF DriverRecord, Short
  <2> QED
    BY <2>1, <2>2 DEF DriverRecord
<1>6. wfDriver \in [1 .. MaxDrivers -> [pc: {"off", "ready", "calling"}, journal: Journals, aborted: BOOLEAN]]
  BY <1>0, <1>5 DEF JournalInv, RunTyped, Drivers
<1>7. wfKept \subseteq 1 .. HostCalls
  <2>1. Len(wfFile) \in Nat /\ Len(wfFile) <= HostCalls
    BY <1>0, LenProperties DEF JournalInv, RunTyped, WorkflowBounds, Journal
  <2>2. \A k \in wfKept : k \in 1 .. Len(wfFile)
    BY <1>0 DEF JournalInv, KeptInJournal
  <2> QED
    BY <1>0, <2>1, <2>2
<1> QED
  BY <1>0, <1>1, <1>2, <1>3, <1>4, <1>6, <1>7 DEF WorkflowTypeOK, WorkflowBounds

-----------------------------------------------------------------------------
(***************************************************************************)
(* The types of subagents' runs                                            *)
(***************************************************************************)

\* A run has tried no more often than it may.
Tried(rec) == rec.retries <= MaxRetries /\ rec.rounds <= MaxRounds
KeptOf == [status : {"none", "running", "completed"}, type : Types \cup {"none"},
           persona : Personas]

\* The inductive invariant of subagents' types.
TriesInv ==
  /\ CeilingInv
  /\ \A r \in SubRuns : Tried(subRun[r])
  /\ kept \in [SubRuns -> KeptOf]
  /\ startsOwed \subseteq SubRuns /\ stoppedRuns \subseteq SubRuns

\* A run that has just begun has tried nothing.
LEMMA FreshIsTried == Tried(Fresh) /\ Tried([Fresh EXCEPT !.at = "over"])
  BY SubagentAssumption DEF Fresh, Tried

\* A step that replaces the record of one run.
LEMMA RunStaysTried ==
  ASSUME TriesInv, NEW r \in SubRuns, NEW rec, Tried(rec), subRun' = [subRun EXCEPT ![r] = rec]
  PROVE  \A s \in SubRuns : Tried(subRun'[s])
  BY DEF TriesInv, CeilingInv

\* A step that changes how far one run is.
LEMMA StagesStayTried ==
  ASSUME TriesInv, NEW r \in SubRuns, NEW stage, MovesOn(r, stage)
  PROVE  \A s \in SubRuns : Tried(subRun'[s])
<1>1. PICK rec : rec = [subRun[r] EXCEPT !.at = stage]
  OBVIOUS
<1>2. subRun[r] \in RunOf /\ Tried(subRun[r]) /\ subRun \in [SubRuns -> RunOf]
  BY DEF TriesInv, CeilingInv
<1>3. Tried(rec)
  BY <1>1, <1>2 DEF Tried, RunOf
<1>4. subRun' = [subRun EXCEPT ![r] = rec]
  BY <1>1, <1>2 DEF MovesOn
<1> QED
  BY <1>3, <1>4, RunStaysTried

\* A session's status changes.
LEMMA KeepsTyped ==
  ASSUME TriesInv, NEW r \in SubRuns, UNCHANGED kept \/ Keep(r, "completed")
  PROVE  kept' \in [SubRuns -> KeptOf]
<1>1. kept \in [SubRuns -> KeptOf]
  BY DEF TriesInv
<1>2. CASE UNCHANGED kept
  BY <1>1, <1>2
<1>3. CASE Keep(r, "completed")
  <2>1. PICK k : k = [kept[r] EXCEPT !.status = "completed"]
    OBVIOUS
  <2>2. k \in KeptOf
    BY <1>1, <2>1 DEF KeptOf
  <2>3. kept' = [kept EXCEPT ![r] = k]
    BY <1>1, <1>3, <2>1 DEF Keep
  <2> QED
    BY <1>1, <2>2, <2>3
<1> QED
  BY <1>2, <1>3

\* Every step or stutter keeps the tries within their limits.
LEMMA TriesStep ==
  ASSUME TriesInv, SubagentNext \/ UNCHANGED subagentVars
  PROVE  TriesInv'
<1>0. CeilingInv'
  BY CeilingStep DEF TriesInv
<1> DEFINE Typed == kept' \in [SubRuns -> KeptOf] /\ startsOwed' \subseteq SubRuns /\ stoppedRuns' \subseteq SubRuns
           Trying == \A s \in SubRuns : Tried(subRun'[s])
<1>a. /\ kept \in [SubRuns -> KeptOf] /\ startsOwed \subseteq SubRuns /\ stoppedRuns \subseteq SubRuns
      /\ \A s \in SubRuns : Tried(subRun[s])
  BY DEF TriesInv
<1>b. ASSUME NEW r \in SubRuns, SubRunEnds(r) PROVE Trying
  BY <1>b, FreshIsTried, RunStaysTried DEF SubRunEnds
<1>2. ASSUME NEW r \in SubRuns, Reserve(r) PROVE Typed /\ Trying
  <2>1. Trying
    BY <1>2, StagesStayTried DEF Reserve
  <2>2. Typed
    BY <1>a, <1>2 DEF Reserve
  <2> QED
    BY <2>1, <2>2
<1>3. ASSUME NEW r \in SubRuns, StopsRun(r) PROVE Typed /\ Trying
  BY <1>a, <1>3 DEF StopsRun
<1>4. ASSUME NEW r \in SubRuns, Admitted(r) PROVE Typed /\ Trying
  <2>1. Trying
    BY <1>4, <1>b, StagesStayTried DEF Admitted
  <2>2. Typed
    BY <1>a, <1>4 DEF Admitted
  <2> QED
    BY <2>1, <2>2
<1>5. ASSUME NEW r \in SubRuns, NEW q \in SubRequests, NEW roleMode \in RoleModes, NEW d,
             Resolves(r, q, d, roleMode)
      PROVE  Typed /\ Trying
  <2>1. CASE Refused(r)
    <3>1. Trying
      BY <1>b, <2>1 DEF Refused
    <3>2. Typed
      BY <1>a, <2>1 DEF Refused, MarkStarted
    <3> QED
      BY <3>1, <3>2
  <2>2. CASE ~Refused(r)
    <3>1. PICK given, rec :
            /\ rec = [Fresh EXCEPT !.at = "hooks", !.requires = d.requires, !.given = given]
            /\ subRun' = [subRun EXCEPT ![r] = rec]
      BY <1>5, <2>2 DEF Resolves
    <3>2. Tried(rec)
      BY <3>1, SubagentAssumption DEF Fresh, Tried
    <3>3. Trying
      BY <3>1, <3>2, RunStaysTried
    <3>4. [status |-> "running", type |-> q.type, persona |-> q.persona] \in KeptOf
      BY DEF SubRequests, KeptOf
    <3>5. Typed
      BY <1>a, <1>5, <2>2, <3>4 DEF Resolves
    <3> QED
      BY <3>3, <3>5
  <2> QED
    BY <2>1, <2>2
<1>6. ASSUME NEW r \in SubRuns, NEW rec, UNCHANGED <<kept, startsOwed, stoppedRuns>>,
             subRun' = [subRun EXCEPT ![r] = rec],
             rec.retries = subRun[r].retries, rec.rounds = subRun[r].rounds
      PROVE  Typed /\ Trying
  <2>1. Tried(rec)
    BY <1>a, <1>6 DEF Tried
  <2> QED
    BY <1>a, <1>6, <2>1, RunStaysTried
<1>7. ASSUME NEW r \in SubRuns
      PROVE  subRun[r] \in RunOf /\ subRun \in [SubRuns -> RunOf]
  BY DEF TriesInv, CeilingInv
<1>8. ASSUME NEW r \in SubRuns, SessionStarts(r) PROVE Typed /\ Trying
  <2>1. PICK rec : rec = [subRun[r] EXCEPT !.at = "prompt", !.given = NothingGiven]
    OBVIOUS
  <2>2. rec.retries = subRun[r].retries /\ rec.rounds = subRun[r].rounds
    BY <1>7, <2>1 DEF RunOf
  <2>3. subRun' = [subRun EXCEPT ![r] = rec]
    BY <1>7, <1>8, <2>1 DEF SessionStarts
  <2> QED
    BY <1>6, <1>8, <2>2, <2>3 DEF SessionStarts
<1>9. ASSUME NEW r \in SubRuns, NEW refuses \in BOOLEAN, PromptGate(r, refuses) PROVE Typed /\ Trying
  <2>1. PICK rec : rec = [subRun[r] EXCEPT !.at = IF refuses THEN "judged" ELSE "sampling",
                                           !.result = IF refuses THEN "failed" ELSE "none"]
    OBVIOUS
  <2>2. rec.retries = subRun[r].retries /\ rec.rounds = subRun[r].rounds
    BY <1>7, <2>1 DEF RunOf
  <2>3. subRun' = [subRun EXCEPT ![r] = rec]
    BY <1>7, <1>9, <2>1 DEF PromptGate
  <2> QED
    BY <1>6, <1>9, <2>2, <2>3 DEF PromptGate
<1>10. ASSUME NEW r \in SubRuns, NEW result, Samples(r, result) PROVE Typed /\ Trying
  <2>1. PICK rec : rec = [subRun[r] EXCEPT !.at = "judged", !.result = result]
    OBVIOUS
  <2>2. Tried(rec)
    BY <1>a, <1>7, <2>1 DEF RunOf, Tried
  <2>3. subRun' = [subRun EXCEPT ![r] = rec]
    BY <1>7, <1>10, <2>1 DEF Samples
  <2>4. Trying
    BY <2>2, <2>3, RunStaysTried
  <2>5. Typed
    BY <1>a, <1>10 DEF Samples, MarkStarted
  <2> QED
    BY <2>4, <2>5
<1>11. ASSUME NEW r \in SubRuns, Judged(r) PROVE Typed /\ Trying
  <2>1. CASE Fails(r)
    <3>1. Trying
      BY <1>b, <2>1 DEF Fails
    <3>2. kept' \in [SubRuns -> KeptOf]
      BY <2>1, KeepsTyped DEF Fails
    <3>3. startsOwed' \subseteq SubRuns /\ stoppedRuns' \subseteq SubRuns
      BY <1>a, <1>11, <2>1 DEF Fails, MarkStarted, Judged
    <3> QED
      BY <3>1, <3>2, <3>3
  <2>2. CASE /\ TriesAgain(r)
             /\ subRun' = [subRun EXCEPT ![r].at = "prompt", ![r].retries = @ + 1, ![r].result = "none"]
             /\ UNCHANGED <<kept, startsOwed, stoppedRuns>>
    <3>1. PICK n \in Nat : n = subRun[r].retries + 1
      BY <1>7 DEF RunOf
    <3>2. PICK rec : rec = [subRun[r] EXCEPT !.at = "prompt", !.retries = n, !.result = "none"]
      OBVIOUS
    <3>3. rec.retries = n /\ rec.rounds = subRun[r].rounds
      BY <1>7, <3>2 DEF RunOf
    <3>4. n <= MaxRetries
      <4>1. subRun[r].retries \in Nat
        BY <1>7 DEF RunOf
      <4> QED
        BY <2>2, <3>1, <4>1, SubagentAssumption DEF TriesAgain
    <3>5. Tried(rec)
      BY <1>a, <3>3, <3>4 DEF Tried
    <3>6. subRun' = [subRun EXCEPT ![r] = rec]
      BY <1>7, <2>2, <3>1, <3>2
    <3> QED
      BY <1>a, <2>2, <3>5, <3>6, RunStaysTried
  <2>3. CASE /\ subRun' = [subRun EXCEPT ![r].at = IF subRun[r].result = "limit" THEN "done" ELSE "stopping",
                                      ![r].result = "none"]
             /\ UNCHANGED <<kept, startsOwed, stoppedRuns>>
    <3>1. PICK rec : rec = [subRun[r] EXCEPT !.at = IF subRun[r].result = "limit" THEN "done" ELSE "stopping",
                                             !.result = "none"]
      OBVIOUS
    <3>2. rec.retries = subRun[r].retries /\ rec.rounds = subRun[r].rounds
      BY <1>7, <3>1 DEF RunOf
    <3>3. subRun' = [subRun EXCEPT ![r] = rec]
      BY <1>7, <2>3, <3>1
    <3> QED
      BY <1>6, <2>3, <3>2, <3>3
  <2> QED
    BY <1>11, <2>1, <2>2, <2>3 DEF Judged
<1>12. ASSUME NEW r \in SubRuns, NEW sentBack \in BOOLEAN, StopGate(r, sentBack) PROVE Typed /\ Trying
  <2>1. PICK rec : rec = [subRun[r] EXCEPT !.at = IF sentBack THEN "prompt" ELSE "done",
                                           !.rounds = IF sentBack THEN @ + 1 ELSE @,
                                           !.retries = IF sentBack THEN 0 ELSE @]
    OBVIOUS
  <2>2. subRun[r].rounds \in Nat /\ subRun[r].retries \in Nat /\ Tried(subRun[r])
    BY <1>a, <1>7 DEF RunOf
  <2>3. CASE sentBack
    <3>1. rec.retries = 0 /\ rec.rounds = subRun[r].rounds + 1
      BY <1>7, <2>1, <2>3 DEF RunOf
    <3>2. subRun[r].rounds < MaxRounds
      BY <1>12, <2>3 DEF StopGate
    <3>3. rec.rounds <= MaxRounds /\ rec.retries <= MaxRetries
      BY <2>2, <3>1, <3>2, SubagentAssumption
    <3> QED
      BY <1>a, <1>7, <1>12, <2>1, <3>3, RunStaysTried DEF StopGate, Tried
  <2>4. CASE ~sentBack
    <3>1. rec.retries = subRun[r].retries /\ rec.rounds = subRun[r].rounds
      BY <1>7, <2>1, <2>4 DEF RunOf
    <3>2. subRun' = [subRun EXCEPT ![r] = rec]
      BY <1>7, <1>12, <2>1 DEF StopGate
    <3>3. UNCHANGED <<kept, startsOwed, stoppedRuns>>
      BY <1>12 DEF StopGate
    <3> QED
      BY <1>6, <3>1, <3>2, <3>3
  <2> QED
    BY <2>3, <2>4
<1>13. ASSUME NEW r \in SubRuns, Completes(r) PROVE Typed /\ Trying
  <2>1. Trying
    BY <1>b, <1>13 DEF Completes
  <2>2. kept' \in [SubRuns -> KeptOf]
    BY <1>13, KeepsTyped DEF Completes
  <2>3. startsOwed' \subseteq SubRuns /\ stoppedRuns' \subseteq SubRuns
    BY <1>a, <1>13 DEF Completes, MarkStarted
  <2> QED
    BY <2>1, <2>2, <2>3
<1>14. Typed /\ Trying
  <2> HIDE DEF Typed, Trying
  <2>1. CASE UNCHANGED subagentVars
    BY <1>a, <2>1 DEF Typed, Trying, subagentVars
  <2>2. CASE SubagentNext
    <3>1. PICK r \in SubRuns :
            \/ Reserve(r) \/ StopsRun(r) \/ Admitted(r)
            \/ \E q \in SubRequests, roleMode \in RoleModes :
                    \E d \in {Discovered(q.type, p, u) : p, u \in FileDefinitions} : Resolves(r, q, d, roleMode)
            \/ SessionStarts(r)
            \/ \E refuses \in BOOLEAN : PromptGate(r, refuses)
            \/ \E result \in {"called", "uncalled", "limit", "failed", "broken"} : Samples(r, result)
            \/ Judged(r)
            \/ \E sentBack \in BOOLEAN : StopGate(r, sentBack)
            \/ Completes(r)
      BY <2>2 DEF SubagentNext
    <3> QED
      BY <3>1, <1>2, <1>3, <1>4, <1>5, <1>8, <1>9, <1>10, <1>11, <1>12, <1>13
  <2> QED
    BY <2>1, <2>2
<1> QED
  BY <1>0, <1>14 DEF TriesInv

\* No subagent runs at first.
LEMMA TriesInitInv == SubagentInit => TriesInv
<1> SUFFICES ASSUME SubagentInit PROVE TriesInv
  OBVIOUS
<1>1. CeilingInv
  BY FreshIsCeiled, NothingIsCeiled DEF SubagentInit, CeilingInv
<1>2. NotKept \in KeptOf
  BY DEF NotKept, KeptOf, Personas
<1> QED
  BY <1>1, <1>2, FreshIsTried DEF SubagentInit, TriesInv

\* The invariant of the tries has the subagents' types.
LEMMA TriesInvTyped == TriesInv => SubagentTypeOK
<1> SUFFICES ASSUME TriesInv PROVE SubagentTypeOK
  OBVIOUS
<1>1. ASSUME NEW r \in SubRuns
      PROVE  /\ subRun[r].at \in {"none", "reserved", "admitted", "hooks", "prompt", "sampling",
                                             "judged", "stopping", "done", "over"}
             /\ subRun[r].given.tools \subseteq AllTools
             /\ subRun[r].retries <= MaxRetries /\ subRun[r].rounds <= MaxRounds
             /\ kept[r].status \in {"none", "running", "completed"}
  <2>1. subRun[r] \in RunOf /\ Tried(subRun[r]) /\ kept[r] \in KeptOf
    BY DEF TriesInv, CeilingInv
  <2> QED
    BY <2>1 DEF RunOf, RunStages, Giving, Tried, KeptOf
<1> QED
  BY <1>1 DEF SubagentTypeOK, TriesInv

-----------------------------------------------------------------------------
(***************************************************************************)
(* The development relay                                                   *)
(***************************************************************************)

\* Who a handler's credential may be of, and what the settings may say.
Holders  == {"none", "mine", "theirs"}
Fetchers == {"default", "listed", "proxied"}

\* Headers are out all the while a body is copied, and only web_fetch is given settings.
JobTyped(j) ==
  /\ j.hops \in 0..MaxHops
  /\ j.at \in Streaming => j.reply = "headers"
  /\ j.route # "fetch" => j.given \in Holders

SharedHeld == fetching \in Fetchers /\ issued \in Holders /\ account \in Holders

\* The relay's types, with what its answers are true by; a server that is down has no
\* handler left.
RelayTyped ==
  /\ RelayTrue
  /\ \A h \in Handlers : JobTyped(job[h])
  /\ SharedHeld
  /\ \A h \in Handlers : relayDown => job[h] = NoJob

\* A handler that has nothing to do
LEMMA NoJobIsTyped == JobTyped(NoJob)
<1>1. MaxHops \in Nat
  BY DevRelayAssumption
<1>2. 0 \in 0..MaxHops
  BY <1>1
<1>3. NoJob.hops = 0 /\ NoJob.at = "idle" /\ NoJob.given = "none"
  BY DEF NoJob
<1> QED BY <1>2, <1>3 DEF JobTyped, Streaming, Holders

\* A handler that is busy is one of a server that is up.
LEMMA BusyIsUp == ASSUME RelayTyped, NEW h \in Handlers, job[h].at # "idle" PROVE ~relayDown
  BY DEF RelayTyped, NoJob

\* A step of one handler of a server that is up.
LEMMA JobKeepsTyped ==
  ASSUME RelayTyped, RelayTrue', SharedHeld', NEW h \in Handlers, NEW j, JobTyped(j),
         job' = [job EXCEPT ![h] = j], ~relayDown, UNCHANGED relayDown
  PROVE  RelayTyped'
<1>1. \A g \in Handlers : job'[g] = IF g = h THEN j ELSE job[g]
  BY DEF RelayTyped, RelayTrue
<1>2. \A g \in Handlers : JobTyped(job'[g])
  BY <1>1 DEF RelayTyped
<1>3. \A g \in Handlers : relayDown' => job'[g] = NoJob
  OBVIOUS
<1> QED BY <1>2, <1>3 DEF RelayTyped, JobTyped

\* An answer, or the end of a response.
LEMMA EndsKeepTyped ==
  ASSUME RelayTyped, RelayTrue', SharedHeld', NEW h \in Handlers, job[h].at # "idle",
         RelayReplies(h) \/ Destroys(h), UNCHANGED relayDown
  PROVE  RelayTyped'
<1>1. job' = [job EXCEPT ![h] = NoJob]
  BY DEF RelayReplies, Destroys
<1>2. ~relayDown
  BY BusyIsUp
<1> QED BY <1>1, <1>2, NoJobIsTyped, JobKeepsTyped

\* A handler that is busy moves on.
LEMMA MovesKeepTyped ==
  ASSUME RelayTyped, RelayTrue', SharedHeld', NEW h \in Handlers, job[h].at # "idle",
         NEW stage \in JobStages, stage \in Streaming => job[h].at \in Streaming,
         MovesTo(h, stage), UNCHANGED relayDown
  PROVE  RelayTyped'
<1>1. job[h] \in JobOf /\ JobTyped(job[h])
  BY DEF RelayTyped, RelayTrue
<1>2. PICK j : j = [job[h] EXCEPT !.at = stage]
  OBVIOUS
<1>3. /\ j.at = stage /\ j.reply = job[h].reply /\ j.route = job[h].route
      /\ j.hops = job[h].hops /\ j.given = job[h].given
  BY <1>1, <1>2 DEF JobOf
<1>4. JobTyped(j)
  BY <1>1, <1>3 DEF JobTyped
<1>5. job' = [job EXCEPT ![h] = j]
  BY <1>2 DEF MovesTo, RelayTyped, RelayTrue
<1>6. ~relayDown
  BY BusyIsUp
<1> QED BY <1>4, <1>5, <1>6, JobKeepsTyped

\* A request comes in, and its credential and body are read.
LEMMA RequestsKeepTyped ==
  ASSUME RelayTyped, RelayTrue', NEW h \in Handlers,
         \/ \E route \in ServedRoutes : Arrives(h, route)
         \/ ReadsFile(h) \/ BodyRefused(h) \/ BodyRead(h) \/ LooksUp(h)
  PROVE  RelayTyped'
<1>1. job[h] \in JobOf /\ JobTyped(job[h]) /\ SharedHeld
  BY DEF RelayTyped, RelayTrue
<1>2. UNCHANGED <<sharedVars, relayDown>>
  BY DEF Arrives, ReadsFile, BodyRefused, BodyRead, LooksUp
<1>3. SharedHeld' /\ UNCHANGED relayDown
  BY <1>1, <1>2 DEF SharedHeld, sharedVars
<1>4. ASSUME NEW route \in ServedRoutes, Arrives(h, route)
      PROVE  RelayTyped'
  <2>1. PICK j : j = [NoJob EXCEPT !.route = route, !.given = IF route = "fetch" THEN fetching ELSE "none",
                             !.at = IF route \in CredRoutes THEN "credential" ELSE "body"]
    OBVIOUS
  <2>2. /\ j.hops = 0 /\ j.route = route /\ j.at \notin Streaming
        /\ route # "fetch" => j.given = "none"
    BY <2>1 DEF NoJob, Streaming
  <2>3. JobTyped(j)
    BY <2>2, DevRelayAssumption DEF JobTyped, Holders
  <2>4. job' = [job EXCEPT ![h] = j] /\ ~relayDown
    BY <1>4, <2>1 DEF Arrives
  <2> QED BY <1>3, <2>3, <2>4, JobKeepsTyped
<1>5. ASSUME ReadsFile(h)
      PROVE  RelayTyped'
  <2>0. job[h].at = "credential"
    BY <1>5 DEF ReadsFile
  <2>1. CASE RelayReplies(h)
    BY <1>3, <2>0, <2>1, EndsKeepTyped
  <2>2. CASE ~RelayReplies(h)
    <3>1. PICK asks, stage : 
            /\ stage \in {"body", "upstream"}
            /\ job' = [job EXCEPT ![h].given = account, ![h].asked = asks, ![h].at = stage]
      BY <1>5, <2>2 DEF ReadsFile
    <3>2. PICK j : j = [job[h] EXCEPT !.given = account, !.asked = asks, !.at = stage]
      OBVIOUS
    <3>3. /\ j.at = stage /\ j.given = account /\ j.hops = job[h].hops
          /\ j.route = job[h].route
      BY <1>1, <3>2 DEF JobOf
    <3>4. JobTyped(j)
      BY <1>1, <3>1, <3>3 DEF JobTyped, SharedHeld, Streaming
    <3>5. job' = [job EXCEPT ![h] = j]
      BY <3>1, <3>2 DEF RelayTyped, RelayTrue
    <3>6. ~relayDown
      BY <2>0, BusyIsUp
    <3> QED BY <1>3, <3>4, <3>5, <3>6, JobKeepsTyped
  <2> QED BY <2>1, <2>2
<1>6. ASSUME BodyRefused(h)
      PROVE  RelayTyped'
  BY <1>3, <1>6, EndsKeepTyped DEF BodyRefused
<1>7. ASSUME BodyRead(h)
      PROVE  RelayTyped'
  <2>0. job[h].at = "body"
    BY <1>7 DEF BodyRead
  <2>1. CASE \E stage \in {"upstream", "lookup"} : MovesTo(h, stage)
    BY <1>3, <2>0, <2>1, MovesKeepTyped DEF JobStages, Streaming
  <2>2. CASE ~\E stage \in {"upstream", "lookup"} : MovesTo(h, stage)
    <3>1. PICK host : job' = [job EXCEPT ![h].asked = host, ![h].here = host, ![h].at = "upstream"]
      BY <1>7, <2>2 DEF BodyRead
    <3>2. PICK j : j = [job[h] EXCEPT !.asked = host, !.here = host, !.at = "upstream"]
      OBVIOUS
    <3>3. /\ j.at = "upstream" /\ j.given = job[h].given /\ j.hops = job[h].hops
          /\ j.route = job[h].route
      BY <1>1, <3>2 DEF JobOf
    <3>4. JobTyped(j)
      BY <1>1, <3>3 DEF JobTyped, Streaming
    <3>5. job' = [job EXCEPT ![h] = j]
      BY <3>1, <3>2 DEF RelayTyped, RelayTrue
    <3>6. ~relayDown
      BY <2>0, BusyIsUp
    <3> QED BY <1>3, <3>4, <3>5, <3>6, JobKeepsTyped
  <2> QED BY <2>1, <2>2
<1>8. ASSUME LooksUp(h)
      PROVE  RelayTyped'
  <2>0. job[h].at = "lookup"
    BY <1>8 DEF LooksUp
  <2>1. CASE RelayReplies(h)
    BY <1>3, <2>0, <2>1, EndsKeepTyped
  <2>2. CASE MovesTo(h, "upstream")
    BY <1>3, <2>0, <2>2, MovesKeepTyped DEF JobStages, Streaming
  <2> QED BY <1>8, <2>1, <2>2 DEF LooksUp
<1> QED BY <1>4, <1>5, <1>6, <1>7, <1>8

\* What the upstream answers, and a redirect that is followed.
LEMMA AnswersKeepTyped ==
  ASSUME RelayTyped, RelayTrue', NEW h \in Handlers,
         \/ UpstreamFails(h) \/ PlainAnswer(h)
         \/ \E told \in {"default", "listed", "proxied", "unreadable"} : SettingsAnswer(h, told)
         \/ \E told \in {"refused", "tools", "unreadable"} : ListingAnswer(h, told)
         \/ \E host \in SiteHosts : FetchRedirected(h, host)
         \/ FetchAnswer(h) \/ PollAnswer(h) \/ DownloadAnswer(h) \/ LocalAnswer(h) \/ ChatAnswer(h)
  PROVE  RelayTyped'
<1>1. job[h] \in JobOf /\ JobTyped(job[h]) /\ SharedHeld
  BY DEF RelayTyped, RelayTrue
<1>2. job[h].at \in {"upstream", "download"} /\ ~relayDown
  <2>1. job[h].at \in {"upstream", "download"}
    BY DEF UpstreamFails, PlainAnswer, StartupAnswer, BundleAnswer, TelemetryAnswer,
           ImageAnswer, VideoAnswer, ManagedAnswer, PassesOn, SettingsAnswer, ListingAnswer,
           FetchRedirected, FetchAnswer, PollAnswer, DownloadAnswer, LocalAnswer, ChatAnswer, Handles
  <2> QED BY <2>1, BusyIsUp
<1>3. UNCHANGED relayDown
  BY DEF UpstreamFails, PlainAnswer, SettingsAnswer, ListingAnswer,
           FetchRedirected, FetchAnswer, PollAnswer, DownloadAnswer, LocalAnswer, ChatAnswer
<1>4. SharedHeld'
  <2>1. ASSUME NEW told \in {"default", "listed", "proxied", "unreadable"}, SettingsAnswer(h, told)
        PROVE  SharedHeld'
    BY <1>1, <2>1 DEF SettingsAnswer, SharedHeld, Fetchers
  <2>2. ASSUME NEW told \in {"refused", "tools", "unreadable"}, ListingAnswer(h, told)
        PROVE  SharedHeld'
    <3>1. job[h].given \in Holders
      BY <1>1, <2>2 DEF ListingAnswer, Handles, JobTyped
    <3>2. issued' \in Holders
      BY <1>1, <2>2, <3>1 DEF ListingAnswer, SharedHeld, Holders
    <3> QED BY <1>1, <2>2, <3>2 DEF ListingAnswer, SharedHeld
  <2>3. CASE UNCHANGED sharedVars
    BY <1>1, <2>3 DEF sharedVars, SharedHeld
  <2> QED BY <2>1, <2>2, <2>3 DEF UpstreamFails, PlainAnswer, FetchRedirected, FetchAnswer,
             PollAnswer, DownloadAnswer, LocalAnswer, ChatAnswer
<1>5. CASE RelayReplies(h)
  BY <1>2, <1>3, <1>4, <1>5, EndsKeepTyped
<1>6. CASE MovesTo(h, "download")
  BY <1>2, <1>3, <1>4, <1>6, MovesKeepTyped DEF JobStages, Streaming
<1>7. ASSUME NEW stage \in {"stream", "pipe"},
             job' = [job EXCEPT ![h].at = stage, ![h].reply = "headers"]
      PROVE  RelayTyped'
  <2>1. PICK j : j = [job[h] EXCEPT !.at = stage, !.reply = "headers"]
    OBVIOUS
  <2>2. /\ j.given = job[h].given /\ j.hops = job[h].hops
        /\ j.route = job[h].route /\ j.reply = "headers"
    BY <1>1, <2>1 DEF JobOf
  <2>3. JobTyped(j)
    BY <1>1, <2>2 DEF JobTyped
  <2>4. job' = [job EXCEPT ![h] = j]
    BY <1>7, <2>1 DEF RelayTyped, RelayTrue
  <2> QED BY <1>2, <1>3, <1>4, <2>3, <2>4, JobKeepsTyped
<1>8. ASSUME NEW host, job[h].hops # MaxHops, job[h].at = "upstream",
             job' = [job EXCEPT ![h].hops = @ + 1, ![h].here = host]
      PROVE  RelayTyped'
  <2>1. PICK j : j = [job[h] EXCEPT !.hops = @ + 1, !.here = host]
    OBVIOUS
  <2>2. /\ j.given = job[h].given /\ j.hops = job[h].hops + 1
        /\ j.route = job[h].route /\ j.reply = job[h].reply /\ j.at = job[h].at
    BY <1>1, <2>1 DEF JobOf
  <2>3. j.hops \in 0..MaxHops
    <3>1. MaxHops \in Nat
      BY DevRelayAssumption
    <3>2. job[h].hops \in 0..MaxHops
      BY <1>1 DEF JobTyped
    <3> QED BY <1>8, <2>2, <3>1, <3>2
  <2>4. JobTyped(j)
    BY <1>1, <1>8, <2>2, <2>3 DEF JobTyped, Streaming
  <2>5. job' = [job EXCEPT ![h] = j]
    BY <1>8, <2>1 DEF RelayTyped, RelayTrue
  <2> QED BY <1>2, <1>3, <1>4, <2>4, <2>5, JobKeepsTyped
<1>9. ASSUME NEW host \in SiteHosts, FetchRedirected(h, host)
      PROVE  RelayTyped'
  BY <1>5, <1>8, <1>9 DEF FetchRedirected, Handles
<1>10. CASE PlainAnswer(h)
  BY <1>5, <1>10 DEF PlainAnswer, StartupAnswer, BundleAnswer, TelemetryAnswer,
           ImageAnswer, VideoAnswer, ManagedAnswer, PassesOn
<1>11. CASE LocalAnswer(h) \/ ChatAnswer(h)
  BY <1>5, <1>7, <1>11 DEF LocalAnswer, ChatAnswer
<1>12. CASE PollAnswer(h)
  BY <1>5, <1>6, <1>12 DEF PollAnswer
<1>13. CASE \/ UpstreamFails(h) \/ FetchAnswer(h) \/ DownloadAnswer(h)
            \/ \E told \in {"default", "listed", "proxied", "unreadable"} : SettingsAnswer(h, told)
            \/ \E told \in {"refused", "tools", "unreadable"} : ListingAnswer(h, told)
  BY <1>5, <1>13 DEF UpstreamFails, FetchAnswer, DownloadAnswer, SettingsAnswer, ListingAnswer
<1> QED BY <1>9, <1>10, <1>11, <1>12, <1>13

\* Bodies that are copied, and clients that go away.
LEMMA StreamsKeepTyped ==
  ASSUME RelayTyped, RelayTrue', NEW h \in Handlers,
         \/ StreamWaits(h) \/ StreamDrains(h) \/ StreamEnds(h) \/ StreamBreaks(h)
         \/ PipeBreaks(h) \/ ClientGoes(h)
  PROVE  RelayTyped'
<1>1. job[h] \in JobOf /\ JobTyped(job[h]) /\ SharedHeld
  BY DEF RelayTyped, RelayTrue
<1>2. SharedHeld'
  BY <1>1 DEF StreamWaits, StreamDrains, StreamEnds, StreamBreaks, PipeBreaks, ClientGoes,
              sharedVars, SharedHeld
<1>3. CASE PipeBreaks(h)
  <2>1. \A g \in Handlers : job'[g] = NoJob
    BY <1>3 DEF PipeBreaks
  <2>2. \A g \in Handlers : JobTyped(job'[g])
    BY <2>1, NoJobIsTyped
  <2> QED BY <1>2, <2>1, <2>2 DEF RelayTyped, JobTyped
<1>4. CASE StreamWaits(h)
  BY <1>2, <1>4, MovesKeepTyped DEF StreamWaits, JobStages, Streaming
<1>5. CASE StreamDrains(h)
  BY <1>2, <1>5, MovesKeepTyped DEF StreamDrains, JobStages, Streaming
<1>6. CASE StreamEnds(h) \/ StreamBreaks(h)
  BY <1>2, <1>6, EndsKeepTyped DEF StreamEnds, StreamBreaks
<1>7. CASE ClientGoes(h)
  <2>1. UNCHANGED relayDown
    BY <1>7 DEF ClientGoes
  <2>2. ~relayDown
    BY <1>7 DEF ClientGoes, RelayTyped
  <2>3. CASE RelayReplies(h) \/ Destroys(h)
    <3>1. job' = [job EXCEPT ![h] = NoJob]
      BY <2>3 DEF RelayReplies, Destroys
    <3> QED BY <1>2, <2>1, <2>2, <3>1, NoJobIsTyped, JobKeepsTyped
  <2>4. CASE job' = [job EXCEPT ![h].gone = TRUE]
    <3>1. PICK j : j = [job[h] EXCEPT !.gone = TRUE]
      OBVIOUS
    <3>2. /\ j.given = job[h].given /\ j.hops = job[h].hops
          /\ j.route = job[h].route /\ j.reply = job[h].reply /\ j.at = job[h].at
      BY <1>1, <3>1 DEF JobOf
    <3>3. JobTyped(j)
      BY <1>1, <3>2 DEF JobTyped
    <3>4. job' = [job EXCEPT ![h] = j]
      BY <2>4, <3>1 DEF RelayTyped, RelayTrue
    <3> QED BY <1>2, <2>1, <2>2, <3>3, <3>4, JobKeepsTyped
  <2> QED BY <1>7, <2>3, <2>4 DEF ClientGoes
<1> QED BY <1>3, <1>4, <1>5, <1>6, <1>7

\* The relay begins with its types.
LEMMA RelayInitTyped == DevRelayInit => RelayTyped
<1> SUFFICES ASSUME DevRelayInit PROVE RelayTyped
  OBVIOUS
<1>1. RelayTrue
  BY NoJobIsTrue DEF DevRelayInit, RelayTrue, SharedTyped, Givens
<1>2. \A h \in Handlers : job[h] = NoJob
  BY DEF DevRelayInit
<1>3. \A h \in Handlers : JobTyped(job[h])
  BY <1>2, NoJobIsTyped
<1>4. SharedHeld /\ ~relayDown
  BY DEF DevRelayInit, SharedHeld, Fetchers, Holders
<1> QED BY <1>1, <1>2, <1>3, <1>4 DEF RelayTyped

\* Every step keeps the answers true.
LEMMA RelayStep == ASSUME RelayTrue, [DevRelayNext]_devVars PROVE RelayTrue'
<1>1. ASSUME RelayTrue, UNCHANGED <<job, ends>>, SharedTyped'
      PROVE  RelayTrue'
  BY <1>1 DEF RelayTrue, JobTrue, ends
<1>2. CASE UNCHANGED devVars
  BY <1>1, <1>2 DEF RelayTrue, SharedTyped, devVars, sharedVars
<1>3. ASSUME NEW a \in {"mine", "theirs", "none"}, FileChanges(a)
      PROVE  RelayTrue'
  BY <1>1, <1>3 DEF FileChanges, RelayTrue, SharedTyped, Givens
<1>4. CASE RelayRestarts
  BY <1>1, <1>4 DEF RelayRestarts, RelayTrue, SharedTyped, Givens
<1>5. CASE DevRelayNext
  BY <1>3, <1>4, <1>5, RequestsKeepRelay, AnswersKeepRelay, StreamsKeepRelay DEF DevRelayNext
<1> QED BY <1>2, <1>5

\* Every step or stutter of the relay keeps its types.
LEMMA RelayStepTyped == RelayTyped /\ [DevRelayNext]_devVars => RelayTyped'
<1> SUFFICES ASSUME RelayTyped, [DevRelayNext]_devVars PROVE RelayTyped'
  OBVIOUS
<1>1. RelayTrue'
  BY RelayStep DEF RelayTyped
<1>2. CASE UNCHANGED devVars
  <2>1. SharedHeld'
    BY <1>2 DEF devVars, sharedVars, SharedHeld, RelayTyped
  <2>2. UNCHANGED <<job, relayDown>>
    BY <1>2 DEF devVars
  <2> QED BY <1>1, <2>1, <2>2 DEF RelayTyped, JobTyped
<1>3. ASSUME NEW a \in {"mine", "theirs", "none"}, FileChanges(a)
      PROVE  RelayTyped'
  <2>1. SharedHeld'
    BY <1>3 DEF FileChanges, SharedHeld, RelayTyped, Holders
  <2>2. UNCHANGED <<job, relayDown>>
    BY <1>3 DEF FileChanges
  <2> QED BY <1>1, <2>1, <2>2 DEF RelayTyped, JobTyped
<1>4. CASE RelayRestarts
  <2>1. SharedHeld'
    BY <1>4 DEF RelayRestarts, SharedHeld, RelayTyped, Fetchers, Holders
  <2>2. UNCHANGED job /\ ~relayDown'
    BY <1>4 DEF RelayRestarts
  <2> QED BY <1>1, <2>1, <2>2 DEF RelayTyped, JobTyped
<1>5. CASE DevRelayNext
  BY <1>1, <1>3, <1>4, <1>5, RequestsKeepTyped, AnswersKeepTyped, StreamsKeepTyped DEF DevRelayNext
<1> QED BY <1>2, <1>5

\* The relay's invariant has its types.
LEMMA RelayTypedHolds == RelayTyped => DevRelayTypeOK
<1> SUFFICES ASSUME RelayTyped PROVE DevRelayTypeOK
  OBVIOUS
<1>1. ASSUME NEW h \in Handlers
      PROVE  /\ job[h].route \in ServedRoutes \cup {"none"}
             /\ job[h].at \in {"idle", "credential", "body", "lookup", "upstream", "download", "stream", "drain", "pipe"}
             /\ job[h].reply = "headers" <=> job[h].at \in {"stream", "drain", "pipe"}
             /\ job[h].hops \in 0..MaxHops
  <2>1. job[h] \in JobOf /\ JobTrue(job[h]) /\ JobTyped(job[h])
    BY DEF RelayTyped, RelayTrue
  <2>2. /\ job[h].route \in ServedRoutes \cup {"none"}
        /\ job[h].at \in JobStages
    BY <2>1 DEF JobOf
  <2> QED BY <2>1, <2>2 DEF JobTrue, JobTyped, JobStages, Streaming
<1>2. fetching \in {"default", "listed", "proxied"} /\ {issued, account} \subseteq {"mine", "theirs", "none"}
  BY DEF RelayTyped, SharedHeld, Fetchers, Holders
<1>3. relayDown => \A h \in Handlers : job[h] = NoJob
  BY DEF RelayTyped
<1> QED BY <1>1, <1>2, <1>3 DEF DevRelayTypeOK

-----------------------------------------------------------------------------
(***************************************************************************)
(* Telemetry                                                               *)
(***************************************************************************)

\* What was counted when the last delta was told is not more than what has been counted:
\* no delta is negative.
Amounts == [Counters -> Nat]
NothingUncounted ==
  /\ \A k \in Counters \ {"pauses"} : baseline[k] <= counted[k]
  /\ counted["compactions"] <= 2 * compacted

CountsTyped ==
  /\ counted \in Amounts /\ baseline \in Amounts /\ deltas \in Amounts
  /\ compacted \in Nat /\ turns \in Nat
  /\ NothingUncounted

PhasesTyped ==
  /\ boot \in {"config", "signals", "done"} /\ ticking \in BOOLEAN
  /\ closing \in {"no", "boot", "sync", "flush", "done"} /\ resetting \in {"no", "waits", "gone"}
  /\ summary \in BOOLEAN
  /\ traced.samples \in 0 .. MaxSamples

\* The types of the telemetry, with what its spans and runs have in common.
TelemetryTyped == TracesInv /\ CountsTyped /\ PhasesTyped

\* The telemetry's bounds are numbers.
LEMMA TelemetryNumbers ==
  /\ MaxTraced \in Nat /\ MaxSamples \in Nat /\ MaxSamples # 0
  /\ MaxMishaps \in Nat /\ RestoredCount \in Nat /\ MaxCompacted \in Nat
  BY TelemetryAssumption

\* Counting one more of some
LEMMA PlusIsMore ==
  ASSUME NEW f \in Amounts, NEW ks
  PROVE  /\ Plus(f, ks) \in Amounts
         /\ \A k \in Counters : f[k] <= Plus(f, ks)[k]
         /\ "compactions" \notin ks => Plus(f, ks)["compactions"] = f["compactions"]
<1>1. \A k \in Counters : /\ Plus(f, ks)[k] = IF k \in ks THEN f[k] + 1 ELSE f[k]
                          /\ f[k] \in Nat
  BY DEF Plus, Amounts
<1>2. \A k \in Counters : Plus(f, ks)[k] \in Nat /\ f[k] <= Plus(f, ks)[k]
  BY <1>1
<1>3. Plus(f, ks) = [k \in Counters |-> Plus(f, ks)[k]]
  BY DEF Plus
<1>4. Plus(f, ks) \in Amounts
  BY <1>2, <1>3 DEF Amounts
<1>5. "compactions" \in Counters
  BY DEF Counters
<1> QED BY <1>1, <1>2, <1>4, <1>5

\* More is counted, and no delta told.
LEMMA CountingKeepsTyped ==
  ASSUME CountsTyped, counted' \in Amounts, \A k \in Counters : counted[k] <= counted'[k],
         compacted' \in Nat, counted'["compactions"] <= 2 * compacted', turns' \in Nat,
         UNCHANGED <<baseline, deltas>>
  PROVE  CountsTyped'
<1>1. ASSUME NEW k \in Counters \ {"pauses"} PROVE baseline'[k] <= counted'[k]
  <2>1. baseline[k] <= counted[k] /\ counted[k] <= counted'[k] /\ baseline'[k] = baseline[k]
    BY DEF CountsTyped, NothingUncounted
  <2>2. baseline[k] \in Nat /\ counted[k] \in Nat /\ counted'[k] \in Nat
    BY DEF CountsTyped, Amounts
  <2> QED BY <2>1, <2>2
<1> QED BY <1>1 DEF CountsTyped, NothingUncounted

\* A delta is told of counts that are no less than the last one's.
LEMMA TellingKeepsTyped ==
  ASSUME CountsTyped, NEW counts \in Amounts, \A k \in Counters : counted[k] <= counts[k],
         counts["compactions"] = counted["compactions"],
         NEW outcome \in {"completed", "cancelled", "error"}, TakeTurnDelta(counts, outcome),
         UNCHANGED <<compacted, turns>>
  PROVE  CountsTyped'
<1>1. PICK ks \in SUBSET {"cancels", "errors"} :
        /\ counted' = Plus(counts, ks)
        /\ deltas' = [k \in Counters |-> deltas[k] + Delta(Plus(counts, ks), k)]
        /\ baseline' = [Plus(counts, ks) EXCEPT !["pauses"] = 0]
  BY DEF TakeTurnDelta
<1>2. PICK now : now = Plus(counts, ks)
  OBVIOUS
<1>3. /\ now \in Amounts
      /\ \A k \in Counters : counts[k] <= now[k]
      /\ now["compactions"] = counts["compactions"]
  BY <1>1, <1>2, PlusIsMore
<1>4. ASSUME NEW k \in Counters
      PROVE  deltas[k] + Delta(now, k) \in Nat
  <2>1. now[k] \in Nat /\ baseline[k] \in Nat /\ deltas[k] \in Nat /\ counted[k] \in Nat /\ counts[k] \in Nat
    BY <1>3 DEF CountsTyped, Amounts
  <2>2. CASE k = "pauses"
    BY <2>1, <2>2 DEF Delta
  <2>3. CASE k # "pauses"
    <3>1. baseline[k] <= counted[k] /\ counted[k] <= counts[k] /\ counts[k] <= now[k]
      BY <1>3, <2>3 DEF CountsTyped, NothingUncounted
    <3>2. Delta(now, k) = now[k] - baseline[k]
      BY <2>3 DEF Delta
    <3> QED BY <2>1, <3>1, <3>2
  <2> QED BY <2>2, <2>3
<1>5. deltas' \in Amounts
  <2>1. deltas' = [k \in Counters |-> deltas[k] + Delta(now, k)]
    BY <1>1, <1>2
  <2> QED BY <1>4, <2>1 DEF Amounts
<1>6. /\ baseline' \in Amounts
      /\ \A k \in Counters \ {"pauses"} : baseline'[k] = now[k]
  <2>1. baseline' = [now EXCEPT !["pauses"] = 0]
    BY <1>1, <1>2
  <2>2. ASSUME NEW f \in [Counters -> Nat], NEW n \in Nat
        PROVE  /\ [f EXCEPT !["pauses"] = n] \in [Counters -> Nat]
               /\ \A k \in Counters \ {"pauses"} : [f EXCEPT !["pauses"] = n][k] = f[k]
    OBVIOUS
  <2> QED BY <1>3, <2>1, <2>2 DEF Amounts
<1>7. ASSUME NEW k \in Counters \ {"pauses"} PROVE baseline'[k] <= counted'[k]
  <2>1. baseline'[k] = now[k] /\ counted'[k] = now[k] /\ now[k] \in Nat
    BY <1>1, <1>2, <1>3, <1>6 DEF Amounts
  <2> QED BY <2>1
<1>8. counted'["compactions"] <= 2 * compacted'
  <2>1. counted'["compactions"] = counted["compactions"] /\ compacted' = compacted
    BY <1>1, <1>2, <1>3
  <2> QED BY <2>1 DEF CountsTyped, NothingUncounted
<1>9. counted' \in Amounts
  BY <1>1, <1>2, <1>3
<1> QED BY <1>5, <1>6, <1>7, <1>8, <1>9 DEF CountsTyped, NothingUncounted

\* Every step keeps the counts' types.
LEMMA CountsStepTyped ==
  ASSUME CountsTyped, TelemetryNext \/ UNCHANGED telemetryVars
  PROVE  CountsTyped'
<1>0. /\ \A k \in Counters : counted[k] \in Nat
      /\ counted["compactions"] \in Nat /\ counted["compactions"] <= 2 * compacted
      /\ compacted \in Nat /\ turns \in Nat
  BY DEF CountsTyped, NothingUncounted, Amounts, Counters
<1>1. ASSUME UNCHANGED <<counted, baseline, deltas, compacted, turns>>
      PROVE  CountsTyped'
  BY <1>1 DEF CountsTyped, NothingUncounted
<1>2. ASSUME NEW ks, "compactions" \notin ks, Counts(ks), UNCHANGED <<baseline, deltas, compacted, turns>>
      PROVE  CountsTyped'
  <2>1. CASE resetting = "gone"
    BY <1>1, <1>2, <2>1 DEF Counts
  <2>2. CASE resetting # "gone"
    <3>1. counted' = Plus(counted, ks)
      BY <1>2, <2>2 DEF Counts
    <3>2. /\ counted' \in Amounts
          /\ \A k \in Counters : counted[k] <= counted'[k]
          /\ counted'["compactions"] = counted["compactions"]
      BY <1>2, <3>1, PlusIsMore DEF CountsTyped
    <3>3. counted'["compactions"] <= 2 * compacted' /\ compacted' \in Nat /\ turns' \in Nat
      BY <1>0, <1>2, <3>2
    <3> QED BY <1>2, <3>2, <3>3, CountingKeepsTyped
  <2> QED BY <2>1, <2>2
<1>3. ASSUME NEW outcome \in {"completed", "cancelled", "error"},
             TakeTurnDelta(counted, outcome), UNCHANGED <<compacted, turns>>
      PROVE  CountsTyped'
  <2>1. \A k \in Counters : counted[k] <= counted[k]
    BY <1>0
  <2>2. counted \in Amounts
    BY DEF CountsTyped
  <2> QED BY <1>3, <2>1, <2>2, TellingKeepsTyped
<1>4. ASSUME NEW for \in {"person", "wake"}, NEW paused \in BOOLEAN, RunIsTraced(for, paused)
      PROVE  CountsTyped'
  <2>1. UNCHANGED <<deltas, compacted>> /\ turns' \in Nat
    BY <1>0, <1>4 DEF RunIsTraced, StartCounts
  <2>2. CASE ~paused
    BY <1>4, <2>1, <2>2 DEF RunIsTraced, StartCounts, CountsTyped, NothingUncounted
  <2>3. CASE paused
    <3>1. counted' = Plus(counted, {"pauses"}) /\ baseline' = Plus(baseline, {"pauses"})
      BY <1>4, <2>3 DEF RunIsTraced, StartCounts
    <3>2. counted' \in Amounts /\ baseline' \in Amounts
      BY <3>1, PlusIsMore DEF CountsTyped
    <3>3. \A k \in Counters \ {"pauses"} : counted'[k] = counted[k] /\ baseline'[k] = baseline[k]
      BY <3>1 DEF Plus
    <3>4. "compactions" \in Counters \ {"pauses"}
      BY DEF Counters
    <3>5. NothingUncounted'
      BY <2>1, <3>3, <3>4 DEF CountsTyped, NothingUncounted
    <3> QED BY <2>1, <3>2, <3>5 DEF CountsTyped
  <2> QED BY <2>2, <2>3
<1>5. ASSUME NEW calls \in SUBSET TracedCalls, Sampled(calls)
      PROVE  CountsTyped'
  BY <1>2, <1>5 DEF Sampled
<1>6. ASSUME NEW c \in TracedCalls, NEW good \in BOOLEAN, ToolIsTraced(c, good)
      PROVE  CountsTyped'
  <2>1. PICK ks : /\ ks = IF good THEN {"calls"} ELSE {"calls", "failures", "errors"}
                  /\ Counts(ks)
    BY <1>6 DEF ToolIsTraced
  <2>2. "compactions" \notin ks
    BY <2>1
  <2> QED BY <1>2, <1>6, <2>1, <2>2 DEF ToolIsTraced
<1>7. ASSUME RunCompacts
      PROVE  CountsTyped'
  <2>1. compacted' = compacted + 1 /\ UNCHANGED <<baseline, deltas, turns>>
    BY <1>7 DEF RunCompacts
  <2>2. counted' \in Amounts /\ \A k \in Counters : counted[k] <= counted'[k]
    <3>1. CASE resetting = "gone"
      BY <1>0, <1>7, <3>1 DEF RunCompacts, CountsTyped
    <3>2. CASE resetting # "gone"
      <4>1. PICK n \in Nat : n = 2 * (compacted + 1)
        BY <1>0
      <4>2. counted' = [counted EXCEPT !["compactions"] = n]
        BY <1>7, <3>2, <4>1 DEF RunCompacts
      <4>3. counted["compactions"] <= n
        BY <1>0, <4>1
      <4>4. counted \in [Counters -> Nat]
        BY DEF CountsTyped, Amounts
      <4>5. ASSUME NEW f \in [Counters -> Nat], f["compactions"] <= n
            PROVE  /\ [f EXCEPT !["compactions"] = n] \in [Counters -> Nat]
                   /\ \A k \in Counters : f[k] <= [f EXCEPT !["compactions"] = n][k]
        <5>1. ASSUME NEW k \in Counters
              PROVE  f[k] <= [f EXCEPT !["compactions"] = n][k]
          <6>1. f[k] \in Nat
            OBVIOUS
          <6>2. CASE k = "compactions"
            BY <4>5, <6>2
          <6>3. CASE k # "compactions"
            BY <6>1, <6>3
          <6> QED BY <6>2, <6>3
        <5>2. [f EXCEPT !["compactions"] = n] \in [Counters -> Nat]
          OBVIOUS
        <5> QED BY <5>1, <5>2
      <4> QED BY <4>2, <4>3, <4>4, <4>5 DEF Amounts
    <3> QED BY <3>1, <3>2
  <2>3. counted'["compactions"] <= 2 * compacted'
    <3>1. CASE resetting = "gone"
      <4>1. counted'["compactions"] = counted["compactions"]
        BY <1>7, <3>1 DEF RunCompacts
      <4> QED BY <1>0, <2>1, <4>1
    <3>2. CASE resetting # "gone"
      <4>1. counted' = [counted EXCEPT !["compactions"] = 2 * (compacted + 1)]
        BY <1>7, <3>2 DEF RunCompacts
      <4>2. "compactions" \in DOMAIN counted
        BY DEF CountsTyped, Amounts, Counters
      <4>3. counted'["compactions"] = 2 * compacted'
        BY <2>1, <4>1, <4>2
      <4>4. 2 * compacted' \in Nat
        BY <1>0, <2>1
      <4> QED BY <4>3, <4>4
    <3> QED BY <3>1, <3>2
  <2>4. compacted' \in Nat /\ turns' \in Nat
    BY <1>0, <2>1
  <2> QED BY <2>1, <2>2, <2>3, <2>4, CountingKeepsTyped
<1>8. ASSUME RunCompletes
      PROVE  CountsTyped'
  <2>1. /\ Plus(counted, {"messages"}) \in Amounts
        /\ \A k \in Counters : counted[k] <= Plus(counted, {"messages"})[k]
        /\ Plus(counted, {"messages"})["compactions"] = counted["compactions"]
    BY PlusIsMore DEF CountsTyped
  <2>2. /\ TakeTurnDelta(Plus(counted, {"messages"}), "completed")
        /\ UNCHANGED <<compacted, turns>>
    BY <1>8 DEF RunCompletes
  <2> QED BY <2>1, <2>2, TellingKeepsTyped
<1>9. ASSUME NEW outcome \in {"cancelled", "error"}, RunFails(outcome) \/ PrepareFails(outcome)
      PROVE  CountsTyped'
  <2>1. UNCHANGED <<compacted, turns>>
    BY <1>9 DEF RunFails, PrepareFails
  <2>2. TakeTurnDelta(counted, outcome) \/ UNCHANGED <<counted, baseline, deltas>>
    BY <1>9 DEF RunFails, PrepareFails
  <2> QED BY <1>1, <1>3, <2>1, <2>2
<1>10. CASE ConfigSettles \/ SignalsSettle \/ CompletesUntold \/ ResetsLater \/ BootIsAwaited
            \/ SyncSettles \/ ShutdownEnds \/ SummaryEnds
            \/ \E summarises \in BOOLEAN : RunReturns(summarises)
            \/ \E reset \in BOOLEAN : ShutdownBegins(reset)
  BY <1>1, <1>10 DEF ConfigSettles, SignalsSettle, CompletesUntold, ResetsLater, BootIsAwaited,
                     SyncSettles, ShutdownEnds, SummaryEnds, RunReturns, ShutdownBegins
<1>11. CASE UNCHANGED telemetryVars
  BY <1>1, <1>11 DEF telemetryVars
<1> QED BY <1>4, <1>5, <1>6, <1>7, <1>8, <1>9, <1>10, <1>11 DEF TelemetryNext

\* Every step keeps the phases', and the samples within their limit.
LEMMA PhasesStepTyped ==
  ASSUME PhasesTyped, traced \in TraceOf, TelemetryNext \/ UNCHANGED telemetryVars
  PROVE  PhasesTyped'
<1>1. ASSUME UNCHANGED <<boot, ticking, closing, resetting>>, summary' \in BOOLEAN,
             traced'.samples \in 0 .. MaxSamples
      PROVE  PhasesTyped'
  BY <1>1 DEF PhasesTyped
<1>2. NoTrace.samples \in 0 .. MaxSamples
  <2>1. 0 \in 0 .. MaxSamples
    BY TelemetryNumbers
  <2> QED BY <2>1 DEF NoTrace
<1>3. ASSUME NEW for \in {"person", "wake"}, NEW paused \in BOOLEAN, RunIsTraced(for, paused)
      PROVE  PhasesTyped'
  <2>1. traced' = [NoTrace EXCEPT !.for = for, !.at = "turn"]
    BY <1>3 DEF RunIsTraced
  <2>2. traced'.samples = NoTrace.samples
    BY <2>1 DEF NoTrace
  <2> QED BY <1>1, <1>2, <1>3, <2>2 DEF RunIsTraced, PhasesTyped
<1>4. ASSUME NEW calls \in SUBSET TracedCalls, Sampled(calls)
      PROVE  PhasesTyped'
  <2>1. traced' = [traced EXCEPT !.at = "calling", !.calls = calls, !.samples = @ + 1]
        /\ traced.samples < MaxSamples
    BY <1>4 DEF Sampled
  <2>2. traced'.samples = traced.samples + 1 /\ traced.samples \in 0 .. MaxSamples
    BY <2>1 DEF TraceOf, PhasesTyped
  <2>3. traced'.samples \in 0 .. MaxSamples
    BY <2>1, <2>2, TelemetryNumbers
  <2> QED BY <1>1, <1>4, <2>3 DEF Sampled, PhasesTyped
<1>5. ASSUME NEW c \in TracedCalls, NEW good \in BOOLEAN, ToolIsTraced(c, good)
      PROVE  PhasesTyped'
  <2>1. PICK left, place : traced' = NoTrace \/ traced' = [traced EXCEPT !.calls = left, !.at = place]
    BY <1>5 DEF ToolIsTraced
  <2>2. traced'.samples \in 0 .. MaxSamples
    BY <1>2, <2>1 DEF TraceOf, PhasesTyped
  <2> QED BY <1>1, <1>5, <2>2 DEF ToolIsTraced, PhasesTyped
<1>6. CASE RunCompacts \/ SummaryEnds
           \/ \E outcome \in {"cancelled", "error"} : PrepareFails(outcome)
  BY <1>1, <1>6 DEF RunCompacts, SummaryEnds, PrepareFails, PhasesTyped
<1>7. CASE RunCompletes \/ CompletesUntold
  <2>1. traced' = [traced EXCEPT !.at = "told"]
    BY <1>7 DEF RunCompletes, CompletesUntold
  <2>2. traced'.samples = traced.samples
    BY <2>1 DEF TraceOf
  <2> QED BY <1>1, <1>7, <2>2 DEF RunCompletes, CompletesUntold, PhasesTyped
<1>8. ASSUME NEW summarises \in BOOLEAN, RunReturns(summarises)
      PROVE  PhasesTyped'
  BY <1>1, <1>2, <1>8 DEF RunReturns, PhasesTyped
<1>9. ASSUME NEW outcome \in {"cancelled", "error"}, RunFails(outcome)
      PROVE  PhasesTyped'
  BY <1>1, <1>2, <1>9 DEF RunFails, PhasesTyped
<1>10. ASSUME NEW reset \in BOOLEAN, Stops(reset)
       PROVE  traced'.samples = traced.samples
  BY <1>10 DEF Stops, TraceOf
<1>11. ASSUME NEW reset \in BOOLEAN, ShutdownBegins(reset)
       PROVE  PhasesTyped'
  BY <1>10, <1>11 DEF ShutdownBegins, PhasesTyped
<1>12. CASE ResetsLater
  BY <1>10, <1>12 DEF ResetsLater, PhasesTyped
<1>13. CASE ConfigSettles \/ SignalsSettle \/ BootIsAwaited \/ SyncSettles \/ ShutdownEnds
  BY <1>13 DEF ConfigSettles, SignalsSettle, BootIsAwaited, SyncSettles, ShutdownEnds, PhasesTyped
<1>14. CASE UNCHANGED telemetryVars
  BY <1>1, <1>14 DEF telemetryVars, PhasesTyped
<1> QED BY <1>3, <1>4, <1>5, <1>6, <1>7, <1>8, <1>9, <1>11, <1>12, <1>13, <1>14 DEF TelemetryNext

\* The telemetry begins with its types.
LEMMA TelemetryInitTyped == TelemetryInit => TelemetryTyped
<1> SUFFICES ASSUME TelemetryInit PROVE TelemetryTyped
  OBVIOUS
<1>1. TracesInv
  <2>1. spans \in SpansOf /\ spans.tools = {}
    BY DEF TelemetryInit, SpansOf
  <2>2. traced \in TraceOf /\ traced.calls = {} /\ traced.at = "idle"
    BY DEF TelemetryInit, NoTrace, TraceOf
  <2> QED
    BY <2>1, <2>2 DEF TelemetryInit, TracesInv, CallsRunInBatches, GoneIsClosed,
                      SpansAreTheRuns, ShutIsQuiet
<1>2. CountsTyped
  <2>1. counted = NoCounts /\ baseline = NoCounts /\ deltas = NoCounts
        /\ compacted = RestoredCount /\ turns = 0
    BY DEF TelemetryInit
  <2>2. NoCounts \in Amounts /\ \A k \in Counters : NoCounts[k] = 0
    BY DEF NoCounts, Amounts
  <2>3. NothingUncounted
    <3>1. 0 <= 0 /\ 0 <= 2 * RestoredCount
      BY TelemetryNumbers
    <3>2. "compactions" \in Counters
      BY DEF Counters
    <3> QED BY <2>1, <2>2, <3>1, <3>2 DEF NothingUncounted
  <2> QED BY <2>1, <2>2, <2>3, TelemetryNumbers DEF CountsTyped
<1>3. PhasesTyped
  <2>1. 0 \in 0 .. MaxSamples
    BY TelemetryNumbers
  <2> QED BY <2>1 DEF TelemetryInit, PhasesTyped, NoTrace
<1> QED BY <1>1, <1>2, <1>3 DEF TelemetryTyped

\* Every step or stutter keeps the spans those of the runs.
LEMMA TracesStep == ASSUME TracesInv, TelemetryNext \/ UNCHANGED telemetryVars PROVE TracesInv'
<1>1. CASE UNCHANGED telemetryVars
  BY <1>1 DEF telemetryVars, TracesInv, CallsRunInBatches, GoneIsClosed, SpansAreTheRuns,
              ShutIsQuiet
<1>2. CASE TelemetryNext
  BY <1>2, RunsKeepTraces, ShutdownKeepsTraces DEF TelemetryNext
<1> QED BY <1>1, <1>2

\* Every step or stutter of the telemetry keeps its types.
LEMMA TelemetryStepTyped == TelemetryTyped /\ [TelemetryNext]_telemetryVars => TelemetryTyped'
<1> SUFFICES ASSUME TelemetryTyped, [TelemetryNext]_telemetryVars PROVE TelemetryTyped'
  OBVIOUS
<1>1. TracesInv'
  BY TracesStep DEF TelemetryTyped
<1>2. CountsTyped'
  BY CountsStepTyped DEF TelemetryTyped
<1>3. PhasesTyped'
  BY PhasesStepTyped DEF TelemetryTyped, TracesInv
<1> QED BY <1>1, <1>2, <1>3 DEF TelemetryTyped

\* The telemetry's invariant has its types.
LEMMA TelemetryTypedHolds == TelemetryTyped => TelemetryTypeOK
<1> SUFFICES ASSUME TelemetryTyped PROVE TelemetryTypeOK
  OBVIOUS
<1>1. traced \in [for : {"none", "person", "wake"}, calls : SUBSET TracedCalls,
                 at : {"idle", "turn", "calling", "told"}, samples : 0 .. MaxSamples,
                 stopped : BOOLEAN]
  BY DEF TelemetryTyped, TracesInv, PhasesTyped, TraceOf
<1> QED BY <1>1 DEF TelemetryTyped, TracesInv, CountsTyped, PhasesTyped, TelemetryTypeOK, SpansOf, Amounts

-----------------------------------------------------------------------------
(***************************************************************************)
(* The types that the invariants above have                                *)
(***************************************************************************)

\* The phone's and the messenger's
LEMMA EndsTyped == (PhoneInv => PhoneTypeOK) /\ (BridgeInv => MessengerTypeOK)
  BY DEF PhoneInv, PhoneTyped, BridgeInv, BridgeTyped

\* The skills'
LEMMA SkillsInvTyped == SkillsInv => SkillTypeOK
  BY DEF SkillsInv, SkillsTyped

\* The bundle's
LEMMA BundleInvTyped == BundleInv => BundleTypeOK
<1> SUFFICES ASSUME BundleInv PROVE BundleTypeOK
  OBVIOUS
<1>1. DOMAIN manifest \subseteq Managed /\ \A f \in DOMAIN manifest : manifest[f] \in Publications
  BY DEF BundleInv, BundleTyped, IsRecord
<1>2. sync.at \in SyncPlaces
  BY DEF BundleInv, BundleTyped, SyncRecord
<1>3. sync.name # NoDigest <=> sync.at \in {"write", "remove"}
  <2>1. CASE sync.at \in {"write", "remove"}
    <3>1. sync.name \in Managed
      BY <2>1 DEF BundleInv, BundleTyped, IsRecord
    <3> QED BY <2>1, <3>1, BundleConstants
  <2>2. CASE sync.at \in {"entry", "prune"}
    BY <2>2 DEF BundleInv, BundleTyped
  <2>3. CASE sync.at \in {"idle", "archive", "legacy"}
    <3>1. sync.name = NoDigest
      BY <2>3, RestingFields DEF BundleInv, BundleTyped
    <3> QED BY <2>3, <3>1
  <2> QED BY <1>2, <2>1, <2>2, <2>3 DEF SyncPlaces
<1>4. file \in [Managed -> Contents] /\ lost \subseteq usersOwn /\ raced \subseteq usersOwn
  BY DEF BundleInv, BundleTyped
<1> QED BY <1>1, <1>2, <1>3, <1>4 DEF BundleTypeOK, SyncPlaces

\* The sign-in's and the settings'
LEMMA StartupInvTyped == StartupInv => StartupTypeOK
<1> SUFFICES ASSUME StartupInv PROVE StartupTypeOK
  OBVIOUS
<1>1. login \in 0..logins /\ PanelFields(panel)
  BY PanelIs DEF StartupInv, PanelTyped
<1>2. ASSUME NEW k \in Fetches
      PROVE  /\ fetch[k].at \in {"idle", "models", "settings", "wait"} /\ fetch[k].got \in Profiles
             /\ fetch[k].readers \subseteq Readers /\ fetch[k].tries \in 0..2 * SettingsTries
  <2>1. fetch[k] \in FetchRecords
    BY DEF StartupInv, CoordinatorTyped, FetchesTyped
  <2> QED BY <2>1 DEF FetchRecords
<1>3. profile \in Profiles /\ live \in Profiles
  BY DEF StartupInv, CoordinatorTyped, KnownProfile
<1>4. run \in RunPlaces
  BY DEF StartupInv, RunFits
<1> QED BY <1>1, <1>2, <1>3, <1>4 DEF StartupTypeOK, PanelFields, RunPlaces

-----------------------------------------------------------------------------
(***************************************************************************)
(* Side by side, again                                                     *)
(***************************************************************************)

\* What the agent's own parts are typed by, in the sum: the invariant of the part that moves.
WorkersTyped ==
  /\ part = "scheduler" => SchedulerInv
  /\ part = "registry" => TellsInv
  /\ part = "workflow" => ScriptInv
  /\ part = "loop" => LoopTyped
  /\ part = "gate" => LineInv
  /\ part = "subagents" => TriesInv
  /\ part = "telemetry" => TelemetryTyped
  /\ part = "relay" => RelayTyped

AgentParts == {"scheduler", "registry", "workflow", "loop", "gate", "subagents", "phone",
          "messenger", "telemetry", "relay", "bundle", "startup", "skills"}

\* The whole of it.
AgentsInv == part \in AgentParts /\ WorkersTyped /\ EndsInv /\ BeginsInv

\* A step of the sum is one of the part that moves.
LEMMA WorkersStep ==
  ASSUME WorkersTyped,
         [AgentsNext]_<<part, schedulerVars, registryVars, wfVars, loopVars, gateVars,
                        subagentVars, phoneVars, messengerVars, telemetryVars, devVars,
                        bundleVars, startupVars, skillVars>>
  PROVE  WorkersTyped' /\ part' = part
<1>0. \/ Schedules \/ Registers \/ Drives \/ Loops \/ Gates \/ Delegates \/ Phones \/ Bridges
      \/ Reports \/ Relays \/ Syncs \/ Starts \/ Learns
      \/ UNCHANGED <<part, schedulerVars, registryVars, wfVars, loopVars, gateVars,
                     subagentVars, telemetryVars, devVars>>
  BY DEF AgentsNext
<1>1. part' = part
  BY <1>0 DEF Schedules, Registers, Drives, Loops, Gates, Delegates, Phones, Bridges, Reports,
              Relays, Syncs, Starts, Learns, OthersRest
<1>2. /\ part = "scheduler" => [SchedulerNext]_schedulerVars
      /\ part = "registry" => [RegistryNext]_registryVars
      /\ part = "workflow" => [WorkflowNext]_wfVars
      /\ part = "loop" => [LoopNext]_loopVars
      /\ part = "gate" => [GateNext]_gateVars
      /\ part = "subagents" => [SubagentNext]_subagentVars
      /\ part = "telemetry" => [TelemetryNext]_telemetryVars
      /\ part = "relay" => [DevRelayNext]_devVars
  BY <1>0 DEF Schedules, Registers, Drives, Loops, Gates, Delegates, Phones, Bridges, Reports,
              Relays, Syncs, Starts, Learns
<1>3. part = "scheduler" => SchedulerInv'
  BY <1>2, SchedulerStepInv DEF WorkersTyped
<1>4. part = "registry" => TellsInv'
  BY <1>2, TellsStepInv DEF WorkersTyped
<1>5. part = "workflow" => ScriptInv'
  BY <1>2, ScriptStepInv DEF WorkersTyped
<1>6. part = "loop" => LoopTyped'
  BY <1>2, LoopStepTyped DEF WorkersTyped
<1>7. part = "gate" => LineInv'
  BY <1>2, LineStepInv DEF WorkersTyped
<1>8. part = "subagents" => TriesInv'
  BY <1>2, TriesStep DEF WorkersTyped
<1>9. part = "telemetry" => TelemetryTyped'
  BY <1>2, TelemetryStepTyped DEF WorkersTyped
<1>10. part = "relay" => RelayTyped'
  BY <1>2, RelayStepTyped DEF WorkersTyped
<1> QED BY <1>1, <1>3, <1>4, <1>5, <1>6, <1>7, <1>8, <1>9, <1>10 DEF WorkersTyped

\* The sum begins in it,
LEMMA AgentsInitInv == AgentsInit => AgentsInv
<1> SUFFICES ASSUME AgentsInit PROVE AgentsInv
  OBVIOUS
<1>1. part \in AgentParts
  BY DEF AgentsInit, AgentParts
<1>2. WorkersTyped
  BY SchedulerInitInv, TellsInitInv, ScriptInitInv, LoopInitTyped, LineInitInv, TriesInitInv,
     TelemetryInitTyped, RelayInitTyped DEF AgentsInit, WorkersTyped
<1>3. EndsInv /\ BeginsInv
  BY PhoneInitInv, BridgeInitInv, BundleInitInv, StartupInitInv, SkillsInitInv
     DEF AgentsInit, EndsInv, BeginsInv
<1> QED BY <1>1, <1>2, <1>3 DEF AgentsInv

\* and every step or stutter keeps it.
LEMMA AgentsStepInv ==
  ASSUME AgentsInv,
         [AgentsNext]_<<part, schedulerVars, registryVars, wfVars, loopVars, gateVars,
                        subagentVars, phoneVars, messengerVars, telemetryVars, devVars,
                        bundleVars, startupVars, skillVars>>
  PROVE  AgentsInv'
<1>1. WorkersTyped' /\ part' = part
  BY WorkersStep DEF AgentsInv
<1>2. EndsInv' /\ BeginsInv'
  BY EndsStepInv, BeginsStepInv DEF AgentsInv
<1> QED BY <1>1, <1>2 DEF AgentsInv

\* It has the types of every part.
LEMMA AgentsInvTyped == AgentsInv => AgentsTypeOK
<1> SUFFICES ASSUME AgentsInv PROVE AgentsTypeOK
  OBVIOUS
<1>1. /\ part = "scheduler" => SchedulerTypeOK
      /\ part = "registry" => RegistryTypeOK
      /\ part = "workflow" => WorkflowTypeOK
      /\ part = "loop" => LoopTypeOK
  BY SchedulerInvTyped, TellsInvHolds, ScriptInvTyped, LoopTypedHolds DEF AgentsInv, WorkersTyped
<1>2. /\ part = "gate" => GateTypeOK
      /\ part = "subagents" => SubagentTypeOK
      /\ part = "telemetry" => TelemetryTypeOK
      /\ part = "relay" => DevRelayTypeOK
  BY LineInvTyped, TriesInvTyped, TelemetryTypedHolds, RelayTypedHolds DEF AgentsInv, WorkersTyped
<1>3. /\ part = "phone" => PhoneTypeOK
      /\ part = "messenger" => MessengerTypeOK
  BY EndsTyped DEF AgentsInv, EndsInv
<1>4. /\ part = "bundle" => BundleTypeOK
      /\ part = "startup" => StartupTypeOK
      /\ part = "skills" => SkillTypeOK
  BY BundleInvTyped, StartupInvTyped, SkillsInvTyped DEF AgentsInv, BeginsInv
<1>5. part \in AgentParts
  BY DEF AgentsInv
<1>6. CASE part = "scheduler"
  BY <1>1, <1>6 DEF AgentsTypeOK
<1>7. CASE part = "registry"
  BY <1>1, <1>7 DEF AgentsTypeOK
<1>8. CASE part = "workflow"
  BY <1>1, <1>8 DEF AgentsTypeOK
<1>9. CASE part = "loop"
  BY <1>1, <1>9 DEF AgentsTypeOK
<1>10. CASE part = "gate"
  BY <1>2, <1>10 DEF AgentsTypeOK
<1>11. CASE part = "subagents"
  BY <1>2, <1>11 DEF AgentsTypeOK
<1>12. CASE part = "telemetry"
  BY <1>2, <1>12 DEF AgentsTypeOK
<1>13. CASE part = "relay"
  BY <1>2, <1>13 DEF AgentsTypeOK
<1>14. CASE part = "phone"
  BY <1>3, <1>14 DEF AgentsTypeOK
<1>15. CASE part = "messenger"
  BY <1>3, <1>15 DEF AgentsTypeOK
<1>16. CASE part = "bundle"
  BY <1>4, <1>16 DEF AgentsTypeOK
<1>17. CASE part = "startup"
  BY <1>4, <1>17 DEF AgentsTypeOK
<1>18. CASE part = "skills"
  BY <1>4, <1>18 DEF AgentsTypeOK
<1> QED BY <1>5, <1>6, <1>7, <1>8, <1>9, <1>10, <1>11, <1>12, <1>13, <1>14, <1>15, <1>16, <1>17, <1>18 DEF AgentParts

\* For every instance, each part of the browser agent keeps its types, whatever is asked of it,
\* fails or is loaded again: its counts stay within their limits, its queues and lines hold what
\* may wait there, and its records name what there is.
THEOREM AgentsAreTyped == AgentsSpec => []AgentsTypeOK
<1>1. AgentsInit => AgentsInv
  BY AgentsInitInv
<1>2. AgentsInv /\ [AgentsNext]_<<part, schedulerVars, registryVars, wfVars, loopVars, gateVars,
                                 subagentVars, phoneVars, messengerVars, telemetryVars, devVars,
                                 bundleVars, startupVars, skillVars>> => AgentsInv'
  BY AgentsStepInv
<1> QED BY <1>1, <1>2, AgentsInvTyped, PTL DEF AgentsSpec
==============================================================================
