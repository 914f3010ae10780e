---------------------------- MODULE ProjectStore ----------------------------
(***************************************************************************)
(* The browser agent's saved project (browser-project-store.ts over        *)
(* browser-storage-engine.ts): several tabs of the application share three *)
(* IndexedDB keys and save by themselves a moment after each change.  The  *)
(* agent's session is stored by the same code under keys of its own.       *)
(*                                                                         *)
(* A project is what its checksum tells apart, a member of Contents.  An   *)
(* IndexedDB transaction is one step; a tab's writes are queued and run    *)
(* one after another, and between two steps of a tab the other tabs run.   *)
(***************************************************************************)
EXTENDS Naturals, Sequences

CONSTANTS
  Tabs,       \* windows the application may be open in
  Contents,   \* projects
  Starter,    \* the project seedProject writes
  Nothing,    \* an absent key, and the revision of one
  Unknown,    \* no revision was read yet
  MaxEdits,   \* bound: how often projects are edited
  MaxDamages, \* bound: how often a stored value is damaged
  StoreEvents \* events that may happen: "failure", "reset", "close"

\* An envelope keeps its checksum when its payload is damaged.
Envelope == [revision: Contents, intact: BOOLEAN]

ASSUME StoreAssumption ==
  /\ Starter \in Contents
  /\ Nothing \notin Contents /\ Unknown \notin Contents /\ Nothing # Unknown
  /\ Nothing \notin Envelope
  /\ MaxEdits \in Nat /\ MaxDamages \in Nat

VARIABLES
  primary, backup, conflict, \* the stored values
  tab,                       \* the state of each tab's own code
  edits, damages,            \* how often each has happened
  excused                    \* history: the only verified save was damaged, or a
                             \* load failed that start follows with a clear

stored == <<primary, backup, conflict>>
counts == <<edits, damages, excused>>
storeVars   == <<stored, tab, counts>>

Value    == Envelope \cup {Nothing}

Write == [op: {"save"}, content: Contents, by: {"autosave", "reset"}]
           \cup [op: {"clear"}, by: {"start", "reset"}]

\* stage: loading reads and recovers, clearing follows a load that failed.
\* held: the backup a recovery will put back.  draining: autosave's loop runs.
\* History: base is the stored project this one descends from, attempted the
\* project last handed to a save, blind that start could not clear the store.
TabState ==
  [stage: {"closed", "recovering", "clearing", "ready"},
   held: Value,
   project: Contents,
   revision: Contents \cup {Nothing, Unknown},
   dirty: BOOLEAN, timer: BOOLEAN, draining: BOOLEAN,
   writes: Seq(Write),
   resetting: BOOLEAN,
   base: Contents \cup {Nothing},
   attempted: Contents \cup {Nothing},
   blind: BOOLEAN]

StoreTypeOK ==
  /\ primary \in Value /\ backup \in Value /\ conflict \in Value
  /\ tab \in [Tabs -> TabState]
  /\ edits \in 0..MaxEdits /\ damages \in 0..MaxDamages /\ excused \in BOOLEAN

Closed ==
  [stage |-> "closed", held |-> Nothing, project |-> Starter, revision |-> Unknown,
   dirty |-> FALSE, timer |-> FALSE, draining |-> FALSE, writes |-> <<>>,
   resetting |-> FALSE, base |-> Nothing, attempted |-> Nothing,
   blind |-> FALSE]

StoreInit ==
  /\ primary = Nothing /\ backup = Nothing /\ conflict = Nothing
  /\ tab = [t \in Tabs |-> Closed]
  /\ edits = 0 /\ damages = 0 /\ excused = FALSE

StorageRevision(v) == IF v = Nothing THEN Nothing ELSE v.revision
Valid(v)   == v # Nothing /\ v.intact
Saved(p)   == [revision |-> p, intact |-> TRUE]

Save(p, by) == [op |-> "save", content |-> p, by |-> by]
Clear(by)   == [op |-> "clear", by |-> by]

-----------------------------------------------------------------------------
(* Autosave: operations on a tab's own state *)

Schedule(s) == [s EXCEPT !.dirty = TRUE, !.timer = TRUE]

\* drain: the loop takes what changed, unless it runs already.
Drain(s) ==
  IF s.draining \/ ~s.dirty THEN s
  ELSE [s EXCEPT !.draining = TRUE, !.dirty = FALSE, !.attempted = s.project,
                 !.writes = Append(@, Save(s.project, "autosave"))]

Flush(s) == Drain([s EXCEPT !.timer = FALSE])

\* Mutant: the loop saves once.
SaveSettled_Once(s) == [s EXCEPT !.draining = FALSE]

\* Mutant: what changed during the save is taken for saved.
SaveSettled_ClearsLate(s) == [s EXCEPT !.draining = FALSE, !.dirty = FALSE, !.timer = FALSE]

\* The loop's save settled: once more if something changed meanwhile.
SaveSettled(s) ==
  IF s.dirty THEN Drain([s EXCEPT !.draining = FALSE])
  ELSE [s EXCEPT !.draining = FALSE, !.timer = FALSE]

\* The write at the head settled, well or not, and what awaited it goes on.
Settled(s, ok) ==
  LET w    == Head(s.writes)
      rest == [s EXCEPT !.writes = Tail(@)]
  IN CASE w.op = "clear" /\ w.by = "start" ->
            Schedule([rest EXCEPT !.stage = "ready"])
       [] w.op = "clear" /\ w.by = "reset" ->
            IF ok THEN [rest EXCEPT !.writes = Append(@, Save(s.project, "reset")),
                                    !.attempted = s.project]
            ELSE [rest EXCEPT !.resetting = FALSE]
       [] w.op = "save" /\ w.by = "reset" ->
            IF ok THEN Flush([rest EXCEPT !.resetting = FALSE])
            ELSE [rest EXCEPT !.resetting = FALSE]
       [] OTHER -> SaveSettled(rest)

-----------------------------------------------------------------------------
(* Opening a tab *)

\* Mutant: the load of an empty store leaves the revision unknown.
LoadVerified_NoRevision(t) ==
  /\ tab[t].stage = "closed"
  /\ Valid(primary) \/ (primary = Nothing /\ backup = Nothing)
  /\ LET r == StorageRevision(primary) IN
       tab' = [tab EXCEPT ![t] =
         Schedule([Closed EXCEPT !.stage = "ready", !.base = r,
                                 !.revision = IF r = Nothing THEN Unknown ELSE r,
                                 !.project = IF r = Nothing THEN Starter ELSE r])]
  /\ UNCHANGED <<stored, counts>>

\* The stored project is read and is whole, or there is none yet.
LoadVerified(t) ==
  /\ tab[t].stage = "closed"
  /\ Valid(primary) \/ (primary = Nothing /\ backup = Nothing)
  /\ LET r == StorageRevision(primary) IN
       tab' = [tab EXCEPT ![t] =
         Schedule([Closed EXCEPT !.stage = "ready", !.revision = r, !.base = r,
                                 !.project = IF r = Nothing THEN Starter ELSE r])]
  /\ UNCHANGED <<stored, counts>>

\* The primary is damaged or absent and the backup is whole.
LoadBackup(t) ==
  /\ tab[t].stage = "closed"
  /\ ~Valid(primary)
  /\ Valid(backup)
  /\ tab' = [tab EXCEPT ![t] = [Closed EXCEPT !.stage = "recovering", !.held = backup]]
  /\ UNCHANGED <<stored, counts>>

\* Mutant: the revision kept is the whole value.
Recover_RevisionIsValue(t) ==
  LET r == tab[t].held.revision IN
  /\ tab[t].stage = "recovering"
  /\ primary' = tab[t].held
  /\ tab' = [tab EXCEPT ![t] =
       Schedule([Closed EXCEPT !.stage = "ready", !.revision = tab[t].held, !.base = r,
                               !.project = r])]
  /\ UNCHANGED <<backup, conflict, counts>>

\* replaceStoragePrimary, in a transaction of its own.
Recover(t) ==
  LET r == tab[t].held.revision IN
  /\ tab[t].stage = "recovering"
  /\ primary' = tab[t].held
  /\ tab' = [tab EXCEPT ![t] =
       Schedule([Closed EXCEPT !.stage = "ready", !.revision = r, !.base = r, !.project = r])]
  /\ UNCHANGED <<backup, conflict, counts>>

\* Mutant: an invalid primary is given up without a look at the backup.
LoadFailed_NoBackup(t) ==
  /\ tab[t].stage = "closed"
  /\ ~Valid(primary) /\ primary # Nothing
  /\ tab' = [tab EXCEPT ![t] =
       [Closed EXCEPT !.stage = "clearing", !.writes = <<Clear("start")>>]]
  /\ UNCHANGED <<stored, counts>>

\* Neither is whole: start clears what is stored and seeds a starter project.
LoadFailed(t) ==
  /\ tab[t].stage = "closed"
  /\ ~Valid(primary) /\ ~Valid(backup)
  /\ ~(primary = Nothing /\ backup = Nothing)
  /\ tab' = [tab EXCEPT ![t] =
       [Closed EXCEPT !.stage = "clearing", !.writes = <<Clear("start")>>]]
  /\ UNCHANGED <<stored, counts>>

\* A transaction of the load fails: start clears what it could not read, too.
LoadErrs(t) ==
  /\ "failure" \in StoreEvents
  /\ tab[t].stage \in {"closed", "recovering"}
  /\ tab' = [tab EXCEPT ![t] =
       [Closed EXCEPT !.stage = "clearing", !.writes = <<Clear("start")>>]]
  /\ excused' = TRUE
  /\ UNCHANGED <<stored, edits, damages>>

-----------------------------------------------------------------------------
(* The queue of writes *)

Next1(t) == Head(tab[t].writes)

\* The previous save becomes the backup.
Rotate(p) ==
  /\ backup' = IF primary = Nothing THEN backup ELSE primary
  /\ primary' = Saved(p)
  /\ UNCHANGED conflict

\* Another tab stored something this tab does not know.
Conflicts(t) ==
  tab[t].revision # Unknown /\ StorageRevision(primary) # tab[t].revision

SaveStored(t) ==
  LET p == Next1(t).content IN
  /\ tab[t].writes # <<>> /\ Next1(t).op = "save"
  /\ ~Conflicts(t)
  /\ Rotate(p)
  /\ tab' = [tab EXCEPT ![t] =
       Settled([tab[t] EXCEPT !.revision = p, !.base = p, !.blind = FALSE], TRUE)]
  /\ UNCHANGED counts

\* The save becomes the conflict copy, and the tab says so.
SaveConflicts(t) ==
  /\ tab[t].writes # <<>> /\ Next1(t).op = "save"
  /\ Conflicts(t)
  /\ conflict' = Saved(Next1(t).content)
  /\ tab' = [tab EXCEPT ![t] = Settled(tab[t], FALSE)]
  /\ UNCHANGED <<primary, backup, counts>>

\* ensureStorageHeadroom refuses, or the transaction fails.
SaveFails(t) ==
  /\ "failure" \in StoreEvents
  /\ tab[t].writes # <<>> /\ Next1(t).op = "save"
  /\ tab' = [tab EXCEPT ![t] = Settled(tab[t], FALSE)]
  /\ UNCHANGED <<stored, counts>>

ClearStored(t) ==
  /\ tab[t].writes # <<>> /\ Next1(t).op = "clear"
  /\ primary' = Nothing /\ backup' = Nothing /\ conflict' = Nothing
  /\ tab' = [tab EXCEPT ![t] =
       Settled([tab[t] EXCEPT !.revision = Nothing, !.base = Nothing,
                              !.blind = FALSE], TRUE)]
  /\ UNCHANGED counts

\* start goes on with a store it knows nothing of; a reset ends here.
ClearFails(t) ==
  /\ "failure" \in StoreEvents
  /\ tab[t].writes # <<>> /\ Next1(t).op = "clear"
  /\ tab' = [tab EXCEPT ![t] =
       Settled([tab[t] EXCEPT !.blind = (@ \/ Next1(t).by = "start")], FALSE)]
  /\ UNCHANGED <<stored, counts>>

-----------------------------------------------------------------------------
(* The person, the agent and the browser *)

Edit(t, p) ==
  /\ edits < MaxEdits
  /\ tab[t].stage = "ready" /\ tab[t].project # p
  /\ tab' = [tab EXCEPT ![t] = Schedule([@ EXCEPT !.project = p])]
  /\ edits' = edits + 1
  /\ UNCHANGED <<stored, damages, excused>>

TimerFires(t) ==
  /\ tab[t].timer
  /\ tab' = [tab EXCEPT ![t] = Drain([@ EXCEPT !.timer = FALSE])]
  /\ UNCHANGED <<stored, counts>>

\* The document is hidden.
Hide(t) ==
  /\ tab[t].stage = "ready"
  /\ tab' = [tab EXCEPT ![t] = Flush(@)]
  /\ UNCHANGED <<stored, counts>>

\* resetProject until its first await: the file system is seeded.
Reset(t) ==
  /\ "reset" \in StoreEvents
  /\ tab[t].stage = "ready" /\ ~tab[t].resetting
  /\ tab' = [tab EXCEPT ![t] =
       Schedule([@ EXCEPT !.project = Starter, !.resetting = TRUE])]
  /\ UNCHANGED <<stored, counts>>

\* The telemetry is shut down and the session cleared: storage is next.
ResetClears(t) ==
  /\ tab[t].stage = "ready" /\ tab[t].resetting
  /\ \A i \in DOMAIN tab[t].writes : tab[t].writes[i].by # "reset"
  /\ tab' = [tab EXCEPT ![t].writes = Append(@, Clear("reset"))]
  /\ UNCHANGED <<stored, counts>>

\* The session could not be cleared: the reset ends here.
ResetFails(t) ==
  /\ "failure" \in StoreEvents
  /\ tab[t].stage = "ready" /\ tab[t].resetting
  /\ \A i \in DOMAIN tab[t].writes : tab[t].writes[i].by # "reset"
  /\ tab' = [tab EXCEPT ![t].resetting = FALSE]
  /\ UNCHANGED <<stored, counts>>

\* The tab goes away, with the writes that did not run.
Close(t) ==
  /\ "close" \in StoreEvents
  /\ tab[t].stage # "closed"
  /\ tab' = [tab EXCEPT ![t] = Closed]
  /\ UNCHANGED <<stored, counts>>

\* A stored value is damaged, or is of a form this version refuses.
Damage ==
  /\ damages < MaxDamages
  /\ \/ /\ Valid(primary)
        /\ primary' = [primary EXCEPT !.intact = FALSE]
        /\ excused' = (excused \/ ~Valid(backup))
        /\ UNCHANGED backup
     \/ /\ Valid(backup)
        /\ backup' = [backup EXCEPT !.intact = FALSE]
        /\ excused' = (excused \/ ~Valid(primary))
        /\ UNCHANGED primary
  /\ damages' = damages + 1
  /\ UNCHANGED <<conflict, tab, edits>>

LoadStep(t)  == \/ LoadVerified(t) \/ LoadBackup(t) \/ Recover(t)
                \/ LoadFailed(t) \/ LoadErrs(t)
WriteStep(t) == \/ SaveStored(t) \/ SaveConflicts(t) \/ SaveFails(t)
                \/ ClearStored(t) \/ ClearFails(t)

StoreNext ==
  \/ \E t \in Tabs :
       \/ LoadStep(t) \/ WriteStep(t) \/ TimerFires(t) \/ Hide(t)
       \/ Reset(t) \/ ResetClears(t) \/ ResetFails(t) \/ Close(t)
       \/ \E p \in Contents : Edit(t, p)
  \/ Damage

StoreSpec == StoreInit /\ [][StoreNext]_storeVars

-----------------------------------------------------------------------------
\* A change is never left waiting: as long as it is not handed to a save, the
\* timer is set or autosave's loop is running and will look again
\* (autosaveBrowserProject schedule, drain, flush).
ChangeIsScheduled ==
  \A t \in Tabs : tab[t].dirty => tab[t].timer \/ tab[t].draining

\* Once autosave has come to rest, the project the tab shows is the one it
\* last handed to a save: a change made while a save was in flight is not
\* taken for saved (autosaveBrowserProject drain, resetProject).
RestsOnCurrentProject ==
  \A t \in Tabs :
    tab[t].stage = "ready" /\ ~tab[t].dirty /\ ~tab[t].draining
      => tab[t].attempted = tab[t].project

\* A save replaces only the stored project its own project descends from: what
\* another tab stored meanwhile is not overwritten (rotateStorageValue).  Only
\* a tab that could neither read the store nor clear it overwrites what is there.
SaveReplacesWhatItKnows ==
  [][\A t \in Tabs :
       SaveStored(t) => primary = Nothing \/ primary.revision = tab[t].base
                          \/ tab[t].blind]_storeVars

\* As long as no damage hit the only verified save and no load failed to read
\* the store, a verified save can be read, unless the person cleared the store,
\* and no tab gives the project up (rotateStorageValue, loadRecoverable, start).
VerifiedSaveSurvives ==
  ~excused =>
    /\ Valid(primary) \/ Valid(backup) \/ (primary = Nothing /\ backup = Nothing)
    /\ \A t \in Tabs : tab[t].stage # "clearing"

\* A recovery puts the previous save in the place of an invalid one; it does
\* not take a newer verified save away (loadRecoverable).
RecoveryReplacesInvalidOnly ==
  [][\A t \in Tabs : Recover(t) => ~Valid(primary) \/ primary' = primary]_storeVars
=============================================================================
