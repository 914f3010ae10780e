----------------------------- MODULE RemoteAccess -----------------------------
(***************************************************************************)
(* Remote access: the companion's messenger server and the phones it lets  *)
(* in (src/src/remote-messenger.ts), the companion's part in the native    *)
(* host (src/src/native-host.ts), the last state the extension keeps of it *)
(* (src/extension/background.ts), and the two places that show it: the     *)
(* panel of a page (src/extension/remote-access-companion.ts) and the      *)
(* options page (src/extension/options.ts).                                *)
(*                                                                         *)
(* A phone is let in by a single-use code, shown as a QR code, or by the   *)
(* passcode.  Codes, sessions and the tunnel are a library's, modelled     *)
(* from how the companion uses them.  Messages between the extension and   *)
(* the companion keep their order; between the service worker and a page   *)
(* they are taken as delivered at once.                                    *)
(***************************************************************************)
EXTENDS Naturals, Sequences, FiniteSets

CONSTANTS PhoneSessions,     \* sessions the server may issue
          Codes,             \* pairing codes it may issue, used again once no one knows them
          NoCode,
          MaxAttempts,       \* MAX_LOGIN_ATTEMPTS within a minute
          MaxRemoteEvents    \* bound: what people, phones, the tunnel and time do

ASSUME RemoteAssumption ==
  NoCode \notin Codes /\ MaxAttempts \in Nat \ {0} /\ MaxRemoteEvents \in Nat

VARIABLES
  companion,      \* the companion: it runs or not
  tunnel,    \* the status of the tunnel
  tunnelWanted,    \* what the tunnel was last configured to
  awaited,   \* the configuration a command waits for
  suppress,  \* suppressRemoteDeviceEvents
  devices,   \* remoteDevices: the counts the companion last heard of its server
  phoneSession,   \* the sessions of phones
  phones,    \* the sessions with an open socket
  code,      \* the state of each pairing code
  mistypes,  \* failed logins within the last minute
  commands,  \* what the extension asked, in order
  reports,    \* what the companion reported, in order
  stored,    \* whether the extension's settings have remote access enabled
  last,      \* lastRemoteAccess
  panel,     \* the panel of a page
  page,      \* the options page
  remoteEvents

serverVars == <<phoneSession, phones, code, mistypes>>
hostVars   == <<companion, tunnel, tunnelWanted, awaited, suppress, devices>>
remoteVars == <<hostVars, serverVars, commands, reports, stored, last, panel, page, remoteEvents>>

Statuses == {"off", "starting", "connected", "error", "reconnecting"}
NoDevices == [authorized |-> 0, connected |-> 0]
Unshown == [status |-> "off", devices |-> NoDevices, code |-> NoCode, open |-> FALSE, timed |-> FALSE]
NothingSeen == [status |-> "off", devices |-> NoDevices, code |-> NoCode, seen |-> FALSE]

Happens == remoteEvents < MaxRemoteEvents /\ remoteEvents' = remoteEvents + 1

(***************************************************************************)
(* The server: deviceSnapshot and the reports of the companion             *)
(***************************************************************************)

LiveSessions(st) == {s \in PhoneSessions : st[s] = "live"}

DeviceSnapshot(st, open) ==
  [authorized |-> Cardinality(LiveSessions(st)), connected |-> Cardinality(open)]

\* A code nobody knows any more may stand for a new one.
FreshCodes ==
  {c \in Codes : /\ code[c] = "gone"
                 /\ c \notin {last.code, panel.code, page.code}
                 /\ \A i \in DOMAIN reports : reports[i].code # c}

\* publishRemoteAccess: a connected tunnel's report carries a new code when asked to.
Publish(withCode, status, counts, known) ==
  IF withCode /\ status = "connected"
    THEN \E c \in FreshCodes :
           /\ c = CHOOSE d \in FreshCodes : TRUE
           /\ code' = [known EXCEPT ![c] = "live"]
           /\ reports' = Append(reports, [status |-> status, devices |-> counts, code |-> c])
    ELSE /\ code' = known
         /\ reports' = Append(reports, [status |-> status, devices |-> counts, code |-> NoCode])

\* publishDeviceSnapshot and the companion's handler of it.
DevicesChange(st, open, known) ==
  /\ phoneSession' = st /\ phones' = open
  /\ devices' = DeviceSnapshot(st, open)
  /\ IF suppress THEN code' = known /\ UNCHANGED reports
                 ELSE Publish(FALSE, tunnel, devices', known)

\* PhoneSessions that end lose their sockets: closeSessionSockets.
Ended(st, gone) == [s \in PhoneSessions |-> IF s \in gone THEN "ended" ELSE st[s]]

\* revokeRemoteSessions: every code and every session ends.
Revoked == Ended(phoneSession, LiveSessions(phoneSession))
NoCodes == [c \in Codes |-> "gone"]

-----------------------------------------------------------------------------
(***************************************************************************)
(* Phones                                                                  *)
(***************************************************************************)

\* issueRemoteSession
LetIn(known) ==
  \E s \in PhoneSessions :
    /\ phoneSession[s] = "free"
    /\ DevicesChange([phoneSession EXCEPT ![s] = "live"], phones, known)

\* pair: the code is used up by the first phone that sends it.
PhonePairs(c) ==
  /\ companion /\ tunnel = "connected" /\ code[c] = "live" /\ Happens
  /\ LetIn([code EXCEPT ![c] = "gone"])
  /\ UNCHANGED <<companion, tunnel, tunnelWanted, awaited, suppress, mistypes, commands, stored, last, panel, page>>

\* login with the passcode
PhoneLogsIn ==
  /\ companion /\ tunnel = "connected" /\ mistypes < MaxAttempts /\ Happens
  /\ mistypes' = 0
  /\ LetIn(code)
  /\ UNCHANGED <<companion, tunnel, tunnelWanted, awaited, suppress, commands, stored, last, panel, page>>

PhoneMistypes ==
  /\ companion /\ tunnel = "connected" /\ mistypes < MaxAttempts /\ Happens
  /\ mistypes' = mistypes + 1
  /\ UNCHANGED <<hostVars, phoneSession, phones, code, commands, reports, stored, last, panel, page>>

MinutePasses ==
  /\ mistypes > 0 /\ Happens
  /\ mistypes' = 0
  /\ UNCHANGED <<hostVars, phoneSession, phones, code, commands, reports, stored, last, panel, page>>

\* upgrade and trackSessionSocket: the first socket of a session is a connected phone.
PhoneConnects(s) ==
  /\ companion /\ tunnel = "connected" /\ phoneSession[s] = "live" /\ s \notin phones /\ Happens
  /\ DevicesChange(phoneSession, phones \cup {s}, code)
  /\ UNCHANGED <<companion, tunnel, tunnelWanted, awaited, suppress, mistypes, commands, stored, last, panel, page>>

PhoneLeaves(s) ==
  /\ companion /\ s \in phones /\ Happens
  /\ DevicesChange(phoneSession, phones \ {s}, code)
  /\ UNCHANGED <<companion, tunnel, tunnelWanted, awaited, suppress, mistypes, commands, stored, last, panel, page>>

\* scheduleSessionExpiry: the timer of the session that expires first.
SessionExpires(s) ==
  /\ companion /\ phoneSession[s] = "live" /\ Happens
  /\ DevicesChange(Ended(phoneSession, {s}), phones \ {s}, code)
  /\ UNCHANGED <<companion, tunnel, tunnelWanted, awaited, suppress, mistypes, commands, stored, last, panel, page>>

CodeExpires(c) ==
  /\ code[c] = "live" /\ Happens
  /\ code' = [code EXCEPT ![c] = "gone"]
  /\ UNCHANGED <<hostVars, phoneSession, phones, mistypes, commands, reports, stored, last, panel, page>>

-----------------------------------------------------------------------------
(***************************************************************************)
(* The tunnel, and the companion that reports each of its states           *)
(***************************************************************************)

\* The subscription: every state of the tunnel is reported, a connected one with a code.
TunnelIs(status) ==
  /\ tunnel' = status
  /\ Publish(TRUE, status, devices, code)

TunnelStarts(status) ==
  /\ companion /\ tunnelWanted /\ tunnel = "starting" /\ status \in {"connected", "error"}
  /\ TunnelIs(status)
  /\ UNCHANGED <<companion, tunnelWanted, awaited, suppress, devices, phoneSession, phones, mistypes,
                 commands, stored, last, panel, page, remoteEvents>>

TunnelDrops ==
  /\ companion /\ tunnelWanted /\ tunnel = "connected" /\ Happens
  /\ TunnelIs("reconnecting")
  /\ UNCHANGED <<companion, tunnelWanted, awaited, suppress, devices, phoneSession, phones, mistypes,
                 commands, stored, last, panel, page>>

TunnelReturns(status) ==
  /\ companion /\ tunnelWanted /\ tunnel = "reconnecting" /\ status \in {"connected", "error"}
  /\ TunnelIs(status)
  /\ UNCHANGED <<companion, tunnelWanted, awaited, suppress, devices, phoneSession, phones, mistypes,
                 commands, stored, last, panel, page, remoteEvents>>

TunnelStops ==
  /\ companion /\ ~tunnelWanted /\ tunnel # "off"
  /\ TunnelIs("off")
  /\ UNCHANGED <<companion, tunnelWanted, awaited, suppress, devices, phoneSession, phones, mistypes,
                 commands, stored, last, panel, page, remoteEvents>>

(***************************************************************************)
(* handle: the companion's commands, one after another                     *)
(***************************************************************************)

Handles(command) ==
  /\ companion /\ awaited = "none" /\ commands # <<>> /\ Head(commands) = command
  /\ commands' = Tail(commands)

\* remoteAccess.configure(enabled): a tunnel that is wanted anew starts anew.
ConfiguresOn == tunnelWanted' = TRUE /\ TunnelIs("starting")

\* start configures with the stored settings and does not wait.
HandlesStart ==
  /\ Handles("start")
  /\ IF stored THEN ConfiguresOn ELSE tunnelWanted' = FALSE /\ UNCHANGED <<tunnel, code, reports>>
  /\ UNCHANGED <<companion, awaited, suppress, devices, phoneSession, phones, mistypes,
                 stored, last, panel, page, remoteEvents>>

HandlesOn ==
  /\ Handles("on")
  /\ ConfiguresOn
  /\ awaited' = "on"
  /\ UNCHANGED <<companion, suppress, devices, phoneSession, phones, mistypes,
                 stored, last, panel, page, remoteEvents>>

HandlesOff ==
  /\ Handles("off")
  /\ suppress' = TRUE
  /\ phoneSession' = Revoked /\ phones' = {} /\ code' = NoCodes
  /\ devices' = NoDevices
  /\ tunnelWanted' = FALSE /\ awaited' = "off"
  /\ UNCHANGED <<companion, tunnel, mistypes, reports, stored, last, panel, page, remoteEvents>>

\* As Configured, but the quiet about devices ends without a report.
Configured_Quietly ==
  /\ companion
  /\ \/ awaited = "on" /\ tunnel \in {"connected", "error"} /\ UNCHANGED suppress
     \/ awaited = "off" /\ tunnel = "off" /\ suppress' = FALSE
  /\ awaited' = "none"
  /\ UNCHANGED <<companion, tunnel, tunnelWanted, devices, phoneSession, phones, code, mistypes, commands, reports,
                 stored, last, panel, page, remoteEvents>>

\* The configuration a command waited for has come about, or failed.
Configured ==
  /\ companion
  /\ \/ awaited = "on" /\ tunnel \in {"connected", "error"}
        /\ UNCHANGED <<suppress, code, reports>>
     \/ awaited = "off" /\ tunnel = "off"
        /\ suppress' = FALSE
        /\ Publish(FALSE, tunnel, devices, code)
  /\ awaited' = "none"
  /\ UNCHANGED <<companion, tunnel, tunnelWanted, devices, phoneSession, phones, mistypes, commands,
                 stored, last, panel, page, remoteEvents>>

HandlesPairing ==
  /\ Handles("pairing")
  /\ Publish(TRUE, tunnel, devices, code)
  /\ UNCHANGED <<hostVars, phoneSession, phones, mistypes, stored, last, panel, page, remoteEvents>>

HandlesRevoke ==
  /\ Handles("revoke")
  /\ phoneSession' = Revoked /\ phones' = {}
  /\ devices' = NoDevices
  /\ Publish(TRUE, tunnel, devices', NoCodes)
  /\ UNCHANGED <<companion, tunnel, tunnelWanted, awaited, suppress, mistypes, stored, last, panel, page,
                 remoteEvents>>

HostExits ==
  /\ companion /\ Happens
  /\ companion' = FALSE /\ tunnel' = "off" /\ tunnelWanted' = FALSE /\ awaited' = "none" /\ suppress' = FALSE
  /\ devices' = NoDevices
  /\ phoneSession' = Revoked /\ phones' = {} /\ code' = NoCodes /\ mistypes' = 0
  /\ commands' = <<>> /\ reports' = <<>>
  /\ UNCHANGED <<stored, last, panel, page>>

-----------------------------------------------------------------------------
(***************************************************************************)
(* The extension                                                           *)
(***************************************************************************)

\* ensureNative, then the command: a companion that is gone is started first,
\* and a new one reports its devices at once.
AsksHost(list) ==
  IF companion
    THEN commands' = commands \o list /\ UNCHANGED <<companion, reports>>
    ELSE /\ companion' = TRUE
         /\ commands' = <<"start">> \o list
         /\ reports' = <<[status |-> "off", devices |-> NoDevices, code |-> NoCode]>>

AsksAlone(list) ==
  /\ AsksHost(list)
  /\ UNCHANGED <<tunnel, tunnelWanted, awaited, suppress, devices, serverVars, last>>

\* As Updated, but a report without a code leaves the panel untimed.
Updated_ByCode(report) ==
  [panel EXCEPT !.status = report.status, !.devices = report.devices, !.code = report.code,
                !.timed = panel.open /\ report.status = "connected" /\ report.code # NoCode]

\* update of the panel: its refresh is timed while it is open and the tunnel connected.
Updated(report) ==
  [panel EXCEPT !.status = report.status, !.devices = report.devices, !.code = report.code,
                !.timed = panel.open /\ report.status = "connected"]

\* renderRemoteAccess of the options page: timed by a code only.
Rendered(report) ==
  [page EXCEPT !.status = report.status, !.devices = report.devices, !.code = report.code,
               !.timed = report.status = "connected" /\ report.code # NoCode]

\* handleNativeMessage keeps the report and broadcastRemoteAccess shows it.
ReportArrives ==
  /\ reports # <<>>
  /\ LET report == Head(reports)
     IN /\ last' = [status |-> report.status, devices |-> report.devices, code |-> report.code,
                    seen |-> TRUE]
        /\ panel' = Updated(report)
        /\ page' = IF page.open THEN Rendered(report) ELSE page
  /\ reports' = Tail(reports)
  /\ UNCHANGED <<hostVars, serverVars, commands, stored, remoteEvents>>

OpensPanel ==
  /\ ~panel.open /\ Happens
  /\ panel' = [panel EXCEPT !.open = TRUE]
  /\ IF panel.status = "connected"
       THEN AsksAlone(<<"pairing">>)
       ELSE UNCHANGED <<hostVars, serverVars, commands, reports, last>>
  /\ UNCHANGED <<stored, page>>

ClosesPanel ==
  /\ panel.open /\ Happens
  /\ panel' = [panel EXCEPT !.open = FALSE, !.timed = FALSE]
  /\ UNCHANGED <<hostVars, serverVars, commands, reports, stored, last, page>>

\* schedulePairingRefresh: ten seconds before the code ends, or at once without one.
PanelRefreshes ==
  /\ panel.timed /\ (panel.code = NoCode \/ Happens)
  /\ panel' = [panel EXCEPT !.code = NoCode, !.timed = FALSE]
  /\ AsksAlone(<<"pairing">>)
  /\ (panel.code = NoCode => UNCHANGED remoteEvents)
  /\ UNCHANGED <<stored, page>>

\* configure of the panel, and the choice of another provider, show what they asked
\* for before it is so.
PanelConfigures(enabled) ==
  /\ panel.open /\ Happens
  /\ panel.status \in (IF enabled THEN {"off", "error", "connected"} ELSE {"connected", "off"})
  /\ panel' = [panel EXCEPT !.status = IF enabled THEN "starting" ELSE "off"]
  /\ stored' = enabled
  /\ AsksAlone(<<IF enabled THEN "on" ELSE "off">>)
  /\ UNCHANGED page

PanelRevokes ==
  /\ panel.open /\ panel.status = "connected" /\ panel.devices.authorized > 0 /\ Happens
  /\ AsksAlone(<<"revoke">>)
  /\ UNCHANGED <<stored, panel, page>>

\* The page of the panel is left; the next one's panel is told the last report.
PageIsLeft ==
  /\ Happens
  /\ panel' = IF last.seen
                THEN [Unshown EXCEPT !.status = last.status, !.devices = last.devices, !.code = last.code]
                ELSE Unshown
  /\ UNCHANGED <<hostVars, serverVars, commands, reports, stored, last, page>>

OptionsLoads ==
  /\ ~page.open /\ Happens
  /\ page' = LET opened == [Unshown EXCEPT !.open = TRUE]
             IN IF last.seen
                  THEN [opened EXCEPT !.status = last.status, !.devices = last.devices, !.code = last.code,
                                      !.timed = last.status = "connected" /\ last.code # NoCode]
                  ELSE opened
  /\ AsksAlone(<<"pairing">>)
  /\ UNCHANGED <<stored, panel>>

OptionsRefreshes ==
  /\ page.timed /\ Happens
  /\ page' = [page EXCEPT !.code = NoCode, !.timed = FALSE]
  /\ AsksAlone(<<"pairing">>)
  /\ UNCHANGED <<stored, panel>>

OptionsConfigures(enabled) ==
  /\ page.open /\ page.status \notin {"starting", "reconnecting"} /\ Happens
  /\ stored' = enabled
  /\ AsksAlone(<<IF enabled THEN "on" ELSE "off">>)
  /\ UNCHANGED <<panel, page>>

OptionsCloses ==
  /\ page.open /\ Happens
  /\ page' = Unshown
  /\ UNCHANGED <<hostVars, serverVars, commands, reports, stored, last, panel>>

-----------------------------------------------------------------------------

RemoteInit ==
  /\ companion = FALSE /\ tunnel = "off" /\ tunnelWanted = FALSE /\ awaited = "none" /\ suppress = FALSE
  /\ devices = NoDevices
  /\ phoneSession = [s \in PhoneSessions |-> "free"] /\ phones = {} /\ code = NoCodes /\ mistypes = 0
  /\ commands = <<>> /\ reports = <<>>
  /\ stored \in BOOLEAN
  /\ last = NothingSeen /\ panel = Unshown /\ page = Unshown
  /\ remoteEvents = 0

RemoteNext ==
  \/ \E c \in Codes : PhonePairs(c) \/ CodeExpires(c)
  \/ PhoneLogsIn \/ PhoneMistypes \/ MinutePasses
  \/ \E s \in PhoneSessions : PhoneConnects(s) \/ PhoneLeaves(s) \/ SessionExpires(s)
  \/ \E status \in Statuses : TunnelStarts(status) \/ TunnelReturns(status)
  \/ TunnelDrops \/ TunnelStops
  \/ HandlesStart \/ HandlesOn \/ HandlesOff \/ Configured \/ HandlesPairing \/ HandlesRevoke
  \/ HostExits
  \/ ReportArrives
  \/ OpensPanel \/ ClosesPanel \/ PanelRefreshes \/ PanelRevokes \/ PageIsLeft
  \/ \E enabled \in BOOLEAN : PanelConfigures(enabled) \/ OptionsConfigures(enabled)
  \/ OptionsLoads \/ OptionsRefreshes \/ OptionsCloses

RemoteSpec == RemoteInit /\ [][RemoteNext]_remoteVars

-----------------------------------------------------------------------------
(***************************************************************************)
(* Properties                                                              *)
(***************************************************************************)

RemoteTypeOK ==
  /\ companion \in BOOLEAN /\ tunnel \in Statuses /\ tunnelWanted \in BOOLEAN /\ suppress \in BOOLEAN
  /\ awaited \in {"none", "on", "off"}
  /\ phoneSession \in [PhoneSessions -> {"free", "live", "ended"}] /\ phones \subseteq LiveSessions(phoneSession)
  /\ code \in [Codes -> {"live", "gone"}] /\ mistypes \in 0..MaxAttempts
  /\ \A i \in DOMAIN commands : commands[i] \in {"start", "on", "off", "pairing", "revoke"}
  /\ panel.status \in Statuses /\ page.status \in Statuses

\* Nothing is on its way between the extension and a running companion.
Settled == companion /\ commands = <<>> /\ reports = <<>> /\ awaited = "none"

(***************************************************************************)
(* What the panel shows is true once nothing is on its way: the state of   *)
(* the tunnel, which it shows before it is so when the person asked for    *)
(* it, and the phones the server lets in, which come, go and expire while  *)
(* the companion may keep quiet about them; and the panel that is open on  *)
(* a connected tunnel will ask for another code before the one it shows    *)
(* ends.                                                                   *)
(***************************************************************************)
PanelIsTrue ==
  Settled => /\ panel.status = tunnel
             /\ panel.devices = DeviceSnapshot(phoneSession, phones)
             /\ panel.open /\ tunnel = "connected" => panel.timed

(***************************************************************************)
(* The options page, too, will ask for another code.  It does not hold: a  *)
(* report without a code, as of a phone that connects, leaves it untimed.  *)
(***************************************************************************)
OptionsAsksAgain == Settled /\ page.open /\ page.status = "connected" => page.timed
=============================================================================
