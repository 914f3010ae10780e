--------------------------- MODULE NativeInstall ---------------------------
(***************************************************************************)
(* `vibewaiting native install` and `native uninstall`: the launcher that  *)
(* all browsers share, and the manifest by which each browser finds it     *)
(* (src/native-install.ts, and the two commands of src/cli.ts).            *)
(*                                                                         *)
(* Every command runs in a process of its own, reads or writes one file at *)
(* a time and may be interrupted between and during them; meanwhile the    *)
(* person edits the files.  The text of a launcher is told apart by the    *)
(* copy of the package it starts, since the paths of node and of the       *)
(* command line are all it holds; a manifest by what uninstall looks at.   *)
(***************************************************************************)
EXTENDS Naturals, FiniteSets, Sequences, SequencesExt

CONSTANTS
  Order,          \* NATIVE_BROWSERS, the order in which uninstall looks at them
  Copies,         \* the copies of the package on this machine: old, updated
  Shells,         \* the terminals commands are typed in
  MaxTyped,       \* bounds the commands of a behaviour
  MaxFileEdits    \* bounds what the person does to the files

Browsers == ToSet(Order)

ASSUME InstallAssumption ==
  /\ Order \in Seq(Browsers) /\ Order # <<>> /\ Cardinality(Browsers) = Len(Order)
  /\ {MaxTyped, MaxFileEdits} \subseteq Nat
  /\ Copies \cap {"none", "edited", "cut off"} = {}

VARIABLES
  hostLauncher, \* ~/.local/share/vibewaiting/native-host
  manifests,    \* the native messaging manifest of each browser
  localState,   \* is there a ~/.vibewaiting
  shellRuns,    \* what runs in each terminal
  typed,        \* commands typed so far
  fileEdits     \* edits so far

installVars == <<hostLauncher, manifests, localState, shellRuns, typed, fileEdits>>

NoCommand == [verb |-> "none"]

\* "ours" is written by install; "extended" still has our name and path, and
\* something the person added; "foreign" names another host or another path.
ManifestKinds == {"none", "ours", "extended", "foreign", "malformed"}

Named(m)  == m \in {"ours", "extended"}

InstallTypeOK ==
  /\ hostLauncher \in Copies \cup {"none", "edited", "cut off"}
  /\ manifests \in [Browsers -> ManifestKinds]
  /\ localState \in BOOLEAN
  /\ shellRuns \in [Shells -> {NoCommand}
       \cup [verb : {"install"}, browser : Browsers, copy : Copies,
             step : {"launcher", "manifest"}]
       \cup [verb : {"uninstall"}, browser : Browsers, copy : Copies, purge : BOOLEAN,
             step : {"selected", "scan", "launcher", "remove", "state"},
             at : 1 .. (Len(Order) + 1)]]
  /\ typed \in 0 .. MaxTyped /\ fileEdits \in 0 .. MaxFileEdits

InstallInit ==
  /\ hostLauncher = "none" /\ manifests = [b \in Browsers |-> "none"] /\ localState = FALSE
  /\ shellRuns = [s \in Shells |-> NoCommand] /\ typed = 0 /\ fileEdits = 0

Finishes(s) == shellRuns' = [shellRuns EXCEPT ![s] = NoCommand]
GoesTo(s, step) == shellRuns' = [shellRuns EXCEPT ![s].step = step]

-----------------------------------------------------------------------------
(* vibewaiting native install *)

Types(s, command) ==
  /\ shellRuns[s] = NoCommand /\ typed < MaxTyped
  /\ typed' = typed + 1 /\ shellRuns' = [shellRuns EXCEPT ![s] = command]
  /\ UNCHANGED <<hostLauncher, manifests, localState, fileEdits>>

\* A wrong option or extension id ends the command before it writes anything.
TypesInstall(s) == \E b \in Browsers, c \in Copies :
  Types(s, [verb |-> "install", browser |-> b, copy |-> c, step |-> "launcher"])

At(s, verb, step) == shellRuns[s].verb = verb /\ shellRuns[s].step = step

\* Whatever is there is overwritten.
WritesLauncher(s) ==
  /\ At(s, "install", "launcher")
  /\ hostLauncher' = shellRuns[s].copy /\ GoesTo(s, "manifest")
  /\ UNCHANGED <<manifests, localState, typed, fileEdits>>

WritesManifest(s) ==
  /\ At(s, "install", "manifest")
  /\ manifests' = [manifests EXCEPT ![shellRuns[s].browser] = "ours"] /\ Finishes(s)
  /\ UNCHANGED <<hostLauncher, localState, typed, fileEdits>>

-----------------------------------------------------------------------------
(* vibewaiting native uninstall *)

TypesUninstall(s) == \E b \in Browsers, c \in Copies, purge \in BOOLEAN :
  Types(s, [verb |-> "uninstall", browser |-> b, copy |-> c, purge |-> purge,
            step |-> "selected", at |-> 1])

\* A manifest that is malformed or not ours ends the command with an error.
RemovesManifest(s) ==
  LET b == shellRuns[s].browser IN
  /\ At(s, "uninstall", "selected")
  /\ IF manifests[b] \in {"malformed", "foreign"}
     THEN Finishes(s) /\ UNCHANGED manifests
     ELSE manifests' = [manifests EXCEPT ![b] = "none"] /\ GoesTo(s, "scan")
  /\ UNCHANGED <<hostLauncher, localState, typed, fileEdits>>

\* The variant where only an untouched manifest counts.
NeedsLauncher_Ours(m) == m = "ours"

\* A malformed manifest counts as one that needs the launcher.
NeedsLauncher(m) == Named(m) \/ m = "malformed"

\* The manifests of the other browsers are read one after the other.
Scans(s) ==
  LET c == shellRuns[s] IN
  /\ At(s, "uninstall", "scan")
  /\ IF c.at > Len(Order) THEN GoesTo(s, "launcher")
     ELSE IF Order[c.at] # c.browser /\ NeedsLauncher(manifests[Order[c.at]])
     THEN GoesTo(s, "state")
     ELSE shellRuns' = [shellRuns EXCEPT ![s].at = @ + 1]
  /\ UNCHANGED <<hostLauncher, manifests, localState, typed, fileEdits>>

\* Only the text that this copy of the package would write is removed.
ReadsLauncher(s) ==
  /\ At(s, "uninstall", "launcher")
  /\ GoesTo(s, IF hostLauncher = shellRuns[s].copy THEN "remove" ELSE "state")
  /\ UNCHANGED <<hostLauncher, manifests, localState, typed, fileEdits>>

\* rm fails when another command was faster; that ends the command too.
RemovesLauncher(s) ==
  /\ At(s, "uninstall", "remove")
  /\ IF hostLauncher = "none" THEN Finishes(s) ELSE GoesTo(s, "state")
  /\ hostLauncher' = "none"
  /\ UNCHANGED <<manifests, localState, typed, fileEdits>>

PurgesState(s) ==
  /\ At(s, "uninstall", "state")
  /\ localState' = (localState /\ ~shellRuns[s].purge) /\ Finishes(s)
  /\ UNCHANGED <<hostLauncher, manifests, typed, fileEdits>>

-----------------------------------------------------------------------------
(* Around the commands *)

\* Ctrl-C, or the machine stops: a file that was being written is cut off.
Interrupted(s) ==
  /\ shellRuns[s] # NoCommand /\ Finishes(s)
  /\ hostLauncher' \in {hostLauncher} \cup (IF At(s, "install", "launcher") THEN {"cut off"} ELSE {})
  /\ manifests' \in {manifests} \cup
       (IF At(s, "install", "manifest")
        THEN {[manifests EXCEPT ![shellRuns[s].browser] = "malformed"]} ELSE {})
  /\ UNCHANGED <<localState, typed, fileEdits>>

\* A browser that finds the launcher starts the companion, which keeps state.
CompanionSaves ==
  /\ hostLauncher \in Copies /\ \E b \in Browsers : Named(manifests[b])
  /\ ~localState /\ localState' = TRUE
  /\ UNCHANGED <<hostLauncher, manifests, shellRuns, typed, fileEdits>>

EditsFile ==
  /\ fileEdits < MaxFileEdits /\ fileEdits' = fileEdits + 1
  /\ \/ hostLauncher # "none" /\ hostLauncher' = "edited" /\ UNCHANGED manifests
     \/ \E b \in Browsers, kind \in {"extended", "foreign", "malformed"} :
          /\ Named(manifests[b])
          /\ manifests' = [manifests EXCEPT ![b] = kind] /\ UNCHANGED hostLauncher
  /\ UNCHANGED <<localState, shellRuns, typed>>

InstallNext ==
  \/ \E s \in Shells :
       \/ TypesInstall(s) \/ WritesLauncher(s) \/ WritesManifest(s)
       \/ TypesUninstall(s) \/ RemovesManifest(s) \/ Scans(s) \/ ReadsLauncher(s)
       \/ RemovesLauncher(s) \/ PurgesState(s) \/ Interrupted(s)
  \/ CompanionSaves \/ EditsFile

InstallSpec == InstallInit /\ [][InstallNext]_installVars

-----------------------------------------------------------------------------
(* The launcher is written before the manifest that names it and removed   *)
(* after the last one, whichever command is interrupted and whatever the   *)
(* person edits: a browser whose manifest names the launcher finds a file. *)
(* ("The shared launcher is retained while another registered browser      *)
(* still uses it.")                                                        *)
ManifestHasItsLauncher ==
  \A b \in Browsers : Named(manifests[b]) => hostLauncher # "none"

\* "A modified launcher or manifest is never removed automatically": of a
\* manifest only the name and the path are looked at, so one with an origin the
\* person added is removed.
ExtendedIsKept ==
  [][\A b \in Browsers : manifests[b] = "extended" => manifests'[b] # "none"]_installVars
=============================================================================
