----------------------------- MODULE MCServices -----------------------------
(***************************************************************************)
(* Small instances, for TLC, of components that share no state: those of   *)
(* the Cloudflare worker (the rate gate with its relay, the sign-in        *)
(* session, the other routes), of the daemon (terminal moves, panel,       *)
(* selection), of the extension (native link, debugger relays, tab ports,  *)
(* remote access) and of the command line (native install).  One run       *)
(* explores them side by side: `part` is chosen once and only that         *)
(* component moves, so the states add up rather than multiply, and a       *)
(* property of a component is checked in all of its states.  What does not *)
(* move stays as it was initially, and the view leaves it out.  An         *)
(* invariant that gathers those of several components reads each of them   *)
(* only where it can change.                                               *)
(*                                                                         *)
(* A reservation of the rate gate (3 minutes) outlasts the grant's way, a  *)
(* fetch (2 minutes) and a refresh (15 seconds) together, but not a second *)
(* fetch after them: the ticks keep that order.                            *)
(***************************************************************************)
EXTENDS ChatRelay, GrokSession, TerminalMoves, Panel, Selection, ExtensionLink,
        DebuggerRelay, TabPorts, RemoteAccess, WorkerRoutes, NativeInstall, TLC

CONSTANTS ann, bob, k1, k2, k3, p1, p2, v1, v2, s1, s2, r1, r2, r3, t1, t2

TwoBrowsers == <<"chrome", "firefox">>

\* Ann runs the agent twice.
ChatsOf == k1 :> ann @@ k2 :> ann @@ k3 :> bob

SmallGlobal == [k \in Kinds |-> IF k = "chat" THEN 2 ELSE 1]
SmallUser   == [k \in Kinds |-> IF k = "chat" THEN 2 ELSE 1]

VARIABLE part \* the component that moves

Still(p, its) == part # p => UNCHANGED its

\* Only the variables of one component change.
OthersRest ==
  /\ UNCHANGED part
  /\ Still("chats", chatVars) /\ Still("session", sessionVars)
  /\ Still("moves", moveVars) /\ Still("panel", panelVars) /\ Still("selection", selectionVars)
  /\ Still("link", linkVars) /\ Still("debugger", relayVars) /\ Still("ports", tabVars)
  /\ Still("remote", remoteVars) /\ Still("routes", routeVars)
  /\ Still("install", installVars)

Relaying == part = "chats" /\ ChatNext /\ OthersRest
Session  == part = "session" /\ SessionNext /\ OthersRest
Moves    == part = "moves" /\ MovesNext /\ OthersRest
Shows    == part = "panel" /\ PanelNext /\ OthersRest
Selects  == part = "selection" /\ SelectionNext /\ OthersRest
Links    == part = "link" /\ LinkNext /\ OthersRest
Relays   == part = "debugger" /\ RelayNext /\ OthersRest
Mounts   == part = "ports" /\ TabNext /\ OthersRest
Reaches  == part = "remote" /\ RemoteNext /\ OthersRest
Serves   == part = "routes" /\ RoutesNext /\ OthersRest
Installs == part = "install" /\ InstallNext /\ OthersRest

ServiceVars ==
  <<chatVars, sessionVars, moveVars, panelVars, selectionVars, linkVars, relayVars, tabVars,
    remoteVars, routeVars, installVars>>

ServicesInit ==
  /\ part \in {"chats", "session", "moves", "panel", "selection", "link", "debugger", "ports",
              "remote", "routes", "install"}
  /\ ChatInit /\ SessionInit /\ MovesInit /\ PanelInit /\ SelectionInit /\ LinkInit /\ RelayInit /\ TabInit
  /\ RemoteInit /\ RoutesInit /\ InstallInit

ServicesNext ==
  Relaying \/ Session \/ Moves \/ Shows \/ Selects \/ Links \/ Relays \/ Mounts \/ Reaches
  \/ Serves \/ Installs

ServicesSpec == ServicesInit /\ [][ServicesNext]_<<part, ServiceVars>>

ServicesTypeOK ==
  CASE part = "chats" -> ChatTypeOK
    [] part = "session" -> SessionTypeOK
    [] part = "moves" -> MovesTypeOK
    [] part = "panel" -> PanelTypeOK
    [] part = "selection" -> SelectionTypeOK
    [] part = "link" -> LinkTypeOK
    [] part = "debugger" -> RelayTypeOK
    [] part = "ports" -> TabTypeOK
    [] part = "remote" -> RemoteTypeOK
    [] part = "routes" -> RoutesTypeOK
    [] part = "install" -> InstallTypeOK

\* The daemon comes to rest on what the person asked for: a session that waits
\* for its terminal is tried, the last session tapped is the one shown, and a
\* panel nothing is on its way to shows the current state.
DaemonSettles ==
  /\ part = "moves" => WaitingIsTried
  /\ part = "selection" => LastTapSettles
  /\ part = "panel" => QuietGuestIsCurrent

\* What is kept about the browser is what the browser has: a panel
\* that counts as open has a guest, an unused relay of the debugger has a timer
\* that ends it, the ports of a tab are those of the page in it, and what the
\* panel says of remote access is what the companion last reported; and the
\* manifest that registers the companion in a browser has its launcher.
ExtensionTablesTrue ==
  /\ part = "link" => OpenPanelIsReal
  /\ part = "debugger" => UnusedRelayIsTimed
  /\ part = "ports" => TablesAreThePages
  /\ part = "remote" => PanelIsTrue
  /\ part = "install" => ManifestHasItsLauncher

Moving ==
  CASE part = "chats" -> <<part, chatVars>>
    [] part = "session" -> <<part, sessionVars>>
    [] part = "moves" -> <<part, moveVars>>
    [] part = "panel" -> <<part, panelVars>>
    [] part = "selection" -> <<part, selectionVars>>
    [] part = "link" -> <<part, linkVars>>
    [] part = "debugger" -> <<part, relayVars>>
    [] part = "ports" -> <<part, tabVars>>
    [] part = "remote" -> <<part, remoteVars>>
    [] part = "routes" -> <<part, routeVars>>
    [] part = "install" -> <<part, installVars>>
=============================================================================
