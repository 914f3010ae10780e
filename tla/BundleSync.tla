----------------------------- MODULE BundleSync -----------------------------
(***************************************************************************)
(* The bundle of agents, roles, skills and workflows that is published for *)
(* everyone and kept among the project's own files (grok-build-bundle.ts,  *)
(* with startBundleSync of main.ts).                                       *)
(*                                                                         *)
(* A sync fetches an archive, or the older JSON bundle, and writes it file *)
(* by file against the manifest of the last sync: a file that is not what  *)
(* that sync left is the user's.  It waits for a digest before it writes   *)
(* or removes each file, and the user and the agent write meanwhile.       *)
(***************************************************************************)
EXTENDS Naturals, FiniteSets, Functions

CONSTANTS AgentFiles,      \* managed files of both kinds of bundle
          FlowFiles,       \* workflows, which only the archive carries
          Publications,    \* what a file is published as
          Edited, NoFile,
          MaxSyncs,        \* bound: syncs
          MaxEdits         \* bound: the user's edits, pages left, files that cannot be read

Managed == AgentFiles \cup FlowFiles

ASSUME BundleAssumption ==
  /\ AgentFiles \cap FlowFiles = {} /\ "none" \notin Managed
  /\ {Edited, NoFile} \cap Publications = {} /\ Edited # NoFile
  /\ {MaxSyncs, MaxEdits} \subseteq Nat

VARIABLES
  file,       \* the bundled files as they are
  manifest,   \* the file each checksum of manifest.json stands for; an empty record if there is none
  readable,   \* manifest.json can be parsed
  fresh,      \* its time is within the hour
  sync,       \* bundleSync: where it waits, its source, what it has to write, what it digested
  published,  \* history: what the last sync to get a bundle was to leave
  usersOwn,   \* history: files the user has touched
  raced,      \* history: files touched between their digest and what followed it
  lost,       \* history: files whose edit was overwritten or removed
  broken,     \* history: a sync has ended before its manifest was written
  syncs, edits

history == <<published, usersOwn, raced, lost>>
bundleVars == <<file, manifest, readable, fresh, sync, history, broken, syncs, edits>>

NoDigest == "none"
Resting == [at |-> "idle", from |-> "none", todo |-> <<>>, next |-> <<>>, old |-> <<>>,
            name |-> NoDigest, seen |-> NoFile]

Contents == Publications \cup {Edited, NoFile}
Without(fn, f) == Restrict(fn, DOMAIN fn \ {f})
NowHolds(fn, f, c) == [g \in DOMAIN fn \cup {f} |-> IF g = f THEN c ELSE fn[g]]
\* What fn says, and of other files what gn says.
Beside(fn, gn) == [g \in DOMAIN fn \cup DOMAIN gn |-> IF g \in DOMAIN fn THEN fn[g] ELSE gn[g]]
FlowsOf(fn) == Restrict(fn, DOMAIN fn \cap FlowFiles)

-----------------------------------------------------------------------------
(***************************************************************************)
(* Fetching                                                                *)
(***************************************************************************)

\* A manifest that parses and is less than an hour old is left alone.
CacheFresh == readable /\ fresh

SyncStarts ==
  /\ sync = Resting /\ syncs < MaxSyncs
  /\ ~CacheFresh
  /\ sync' = [Resting EXCEPT !.at = "archive"]
  /\ syncs' = syncs + 1
  /\ UNCHANGED <<file, manifest, readable, fresh, history, broken, edits>>

\* A status other than 401 leads to the older bundle.
ArchiveRefused ==
  /\ sync.at = "archive"
  /\ sync' \in {Resting, [Resting EXCEPT !.at = "legacy"]}
  /\ UNCHANGED <<file, manifest, readable, fresh, history, broken, syncs, edits>>

LegacyRefused ==
  /\ sync.at = "legacy"
  /\ sync' = Resting
  /\ UNCHANGED <<file, manifest, readable, fresh, history, broken, syncs, edits>>

\* What is not a managed path is skipped, and the old manifest read before the first write.
Begins(from, bundle) ==
  /\ readable
  /\ sync' = [Resting EXCEPT !.at = "entry", !.from = from, !.todo = bundle, !.old = manifest]
  /\ published' = Beside(bundle, IF from = "legacy" THEN FlowsOf(manifest) ELSE <<>>)
  /\ UNCHANGED <<file, manifest, readable, fresh, usersOwn, raced, lost, broken, syncs, edits>>

ArchiveArrives(bundle) == sync.at = "archive" /\ Begins("archive", bundle)

\* Every name of the older bundle is looked at before a file is written.
LegacyArrives(bundle) == sync.at = "legacy" /\ DOMAIN bundle \subseteq AgentFiles /\ Begins("legacy", bundle)

\* A manifest that cannot be parsed stops a sync before it has written anything.
ManifestUnreadable ==
  /\ sync.at \in {"archive", "legacy"} /\ ~readable
  /\ sync' = Resting
  /\ UNCHANGED <<file, manifest, readable, fresh, history, broken, syncs, edits>>

-----------------------------------------------------------------------------
(***************************************************************************)
(* Writing and pruning, each file after its digest                         *)
(***************************************************************************)

DigestsEntry(f) ==
  /\ sync.at = "entry" /\ f \in DOMAIN sync.todo
  /\ sync' = [sync EXCEPT !.at = "write", !.name = f, !.seen = file[f]]
  /\ UNCHANGED <<file, manifest, readable, fresh, history, broken, syncs, edits>>

\* As Replaceable, but a file the manifest does not name counts as the bundle's.
Replaceable_Unlisted(f) == sync.seen = NoFile \/ (f \in DOMAIN sync.old => sync.seen = sync.old[f])

\* A file that is absent, or as the last sync left it.
Replaceable(f) == sync.seen = NoFile \/ (f \in DOMAIN sync.old /\ sync.seen = sync.old[f])

Overwrites(f) == lost' = IF file[f] = Edited THEN lost \cup {f} ELSE lost

WritesEntry ==
  /\ sync.at = "write"
  /\ LET f == sync.name
         later == [sync EXCEPT !.at = "entry", !.todo = Without(@, f), !.name = NoDigest, !.seen = NoFile]
     IN IF Replaceable(f)
          THEN /\ file' = [file EXCEPT ![f] = sync.todo[f]]
               /\ Overwrites(f)
               /\ sync' = [later EXCEPT !.next = NowHolds(@, f, sync.todo[f])]
          ELSE /\ sync' = [later EXCEPT !.next = IF f \in DOMAIN sync.old THEN NowHolds(@, f, sync.old[f]) ELSE @]
               /\ UNCHANGED <<file, lost>>
  /\ UNCHANGED <<manifest, readable, fresh, published, usersOwn, raced, broken, syncs, edits>>

\* The archive is cut off, breaks a limit, names no version, or a checksum is wrong.
ArchiveBreaks ==
  /\ sync.at = "entry" /\ sync.from = "archive"
  /\ sync' = Resting
  /\ broken' = TRUE
  /\ UNCHANGED <<file, manifest, readable, fresh, history, syncs, edits>>

\* As EntriesDone, but the older bundle counts for workflows too.
EntriesDone_AllKinds ==
  /\ sync.at = "entry" /\ sync.todo = <<>>
  /\ sync' = [sync EXCEPT !.at = "prune", !.todo = sync.old]
  /\ UNCHANGED <<file, manifest, readable, fresh, history, broken, syncs, edits>>

\* The older bundle leaves the workflows of an archive as they are.
EntriesDone ==
  /\ sync.at = "entry" /\ sync.todo = <<>>
  /\ sync' = [sync EXCEPT !.at = "prune",
                          !.next = Beside(@, IF sync.from = "legacy" THEN FlowsOf(sync.old) ELSE <<>>),
                          !.todo = sync.old]
  /\ UNCHANGED <<file, manifest, readable, fresh, history, broken, syncs, edits>>

ToPrune == {f \in DOMAIN sync.todo : f \notin DOMAIN sync.next /\ file[f] # NoFile}

DigestsRemoved(f) ==
  /\ sync.at = "prune" /\ f \in ToPrune
  /\ sync' = [sync EXCEPT !.at = "remove", !.name = f, !.seen = file[f]]
  /\ UNCHANGED <<file, manifest, readable, fresh, history, broken, syncs, edits>>

\* A file the bundle no longer has goes, unless the user changed it.
RemovesFile ==
  /\ sync.at = "remove"
  /\ LET f == sync.name
         later == [sync EXCEPT !.at = "prune", !.todo = Without(@, f), !.name = NoDigest, !.seen = NoFile]
     IN IF sync.seen = sync.old[f]
          THEN /\ file' = [file EXCEPT ![f] = NoFile]
               /\ Overwrites(f)
               /\ sync' = later
          ELSE /\ sync' = [later EXCEPT !.next = NowHolds(@, f, sync.old[f])]
               /\ UNCHANGED <<file, lost>>
  /\ UNCHANGED <<manifest, readable, fresh, published, usersOwn, raced, broken, syncs, edits>>

\* The manifest is written last, over whatever is there, and the project is to be saved.
SyncEnds ==
  /\ sync.at = "prune" /\ ToPrune = {}
  /\ manifest' = sync.next /\ readable' = TRUE /\ fresh' = TRUE
  /\ sync' = Resting
  /\ UNCHANGED <<file, history, broken, syncs, edits>>

-----------------------------------------------------------------------------
(***************************************************************************)
(* The user, the clock and the page                                        *)
(***************************************************************************)

Edit == edits < MaxEdits /\ edits' = edits + 1

\* The user, or the agent for him, writes a file or removes it.
UserWrites(f, c) ==
  /\ c \in {Edited, NoFile} /\ c # file[f] /\ Edit
  /\ file' = [file EXCEPT ![f] = c]
  /\ usersOwn' = usersOwn \cup {f}
  /\ raced' = IF sync.name = f THEN raced \cup {f} ELSE raced
  /\ UNCHANGED <<manifest, readable, fresh, sync, published, lost, broken, syncs>>

UserSpoilsManifest ==
  /\ readable /\ manifest # <<>> /\ Edit
  /\ readable' = FALSE
  /\ UNCHANGED <<file, manifest, fresh, sync, history, broken, syncs>>

HourPasses ==
  /\ fresh
  /\ fresh' = FALSE
  /\ UNCHANGED <<file, manifest, readable, sync, history, broken, syncs, edits>>

\* The page is left, and the files are saved as they are.
PageLeaves ==
  /\ sync # Resting /\ Edit
  /\ sync' = Resting
  /\ broken' = (broken \/ sync.at \notin {"archive", "legacy"})
  /\ UNCHANGED <<file, manifest, readable, fresh, history, syncs>>

-----------------------------------------------------------------------------

BundleInit ==
  /\ file = [f \in Managed |-> NoFile]
  /\ manifest = <<>> /\ readable = TRUE /\ fresh = FALSE
  /\ sync = Resting
  /\ published = <<>> /\ usersOwn = {} /\ raced = {} /\ lost = {}
  /\ broken = FALSE /\ syncs = 0 /\ edits = 0

Bundles == UNION {[fs -> Publications] : fs \in SUBSET Managed}

BundleNext ==
  \/ SyncStarts \/ ArchiveRefused \/ LegacyRefused \/ ManifestUnreadable
  \/ \E bundle \in Bundles : ArchiveArrives(bundle) \/ LegacyArrives(bundle)
  \/ \E f \in Managed : DigestsEntry(f) \/ DigestsRemoved(f)
  \/ WritesEntry \/ ArchiveBreaks \/ EntriesDone \/ RemovesFile \/ SyncEnds
  \/ \E f \in Managed, c \in {Edited, NoFile} : UserWrites(f, c)
  \/ UserSpoilsManifest \/ HourPasses \/ PageLeaves

BundleSpec == BundleInit /\ [][BundleNext]_bundleVars

-----------------------------------------------------------------------------
(***************************************************************************)
(* Properties                                                              *)
(***************************************************************************)

BundleTypeOK ==
  /\ file \in [Managed -> Contents]
  /\ DOMAIN manifest \subseteq Managed /\ \A f \in DOMAIN manifest : manifest[f] \in Publications
  /\ sync.at \in {"idle", "archive", "legacy", "entry", "write", "prune", "remove"}
  /\ sync.name # NoDigest <=> sync.at \in {"write", "remove"}
  /\ lost \subseteq usersOwn /\ raced \subseteq usersOwn

(***************************************************************************)
(* What the user has written stays, over any number of syncs that end well *)
(* or badly, archives and older bundles, files that come and go, and pages *)
(* left in the middle; all but what is written while its file is digested. *)
(***************************************************************************)
EditsOutlastSyncs == lost \subseteq raced

(***************************************************************************)
(* After a sync that ends well, a file the user never touched is what that *)
(* sync published, and none is left that it did not publish, as long as no *)
(* earlier one was cut off.                                                *)
(***************************************************************************)
UntouchedIsPublished ==
  sync = Resting /\ ~broken /\ fresh =>
    \A f \in Managed \ usersOwn : file[f] = IF f \in DOMAIN published THEN published[f] ELSE NoFile

BundleKeepsOwnership == EditsOutlastSyncs /\ UntouchedIsPublished

(***************************************************************************)
(* A sync never overwrites or removes what the user has changed.  It does  *)
(* not hold: the digest is awaited before the file is written.             *)
(***************************************************************************)
UserFilesStay == lost = {}

(***************************************************************************)
(* A sync that ends well makes up for one that was cut off.  It does not   *)
(* hold: what was written then passes for the user's ever after.           *)
(***************************************************************************)
CutOffSyncHeals ==
  sync = Resting /\ fresh => \A f \in Managed \ usersOwn : f \in DOMAIN published => file[f] = published[f]
=============================================================================
