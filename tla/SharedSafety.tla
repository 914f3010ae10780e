---------------------------- MODULE SharedSafety ----------------------------
(***************************************************************************)
(* Proofs about what the page shares through the browser: the project      *)
(* (ProjectStore), for any set of tabs and projects; the preview (Sandbox) *)
(* and the tokens of MCP servers (McpAuth), for any bounds; and of the sum *)
(* of the three (MCProjectStore).                                          *)
(***************************************************************************)
EXTENDS MCProjectStore, TLAPS

\* What holds of a tab's own state: its stage tells what it holds and knows of
\* the store, the project it shows was handed to a save unless it is marked as
\* changed, and then a save of it will come.
Knows(s) == s.revision = s.base \/ s.blind

TabInv(s) ==
  /\ s.stage \in {"closed", "recovering"} => s.writes = <<>>
  /\ s.stage = "clearing" => s.writes = <<Clear("start")>>
  /\ s.stage = "recovering" => Valid(s.held)
  /\ s.stage = "ready" => Knows(s)
  /\ s.stage = "ready" /\ ~s.dirty => s.attempted = s.project
  /\ s.dirty => s.timer \/ s.draining
  /\ s.dirty \/ s.timer => s.stage = "ready"

\* The inductive invariant: the properties do not mention the backup a tab
\* holds, its queue or its revision, on which they rest.
StoreInv ==
  /\ StoreTypeOK
  /\ \A t \in Tabs : TabInv(tab[t])
  /\ VerifiedSaveSurvives

-----------------------------------------------------------------------------
\* The operations on a tab's state keep its type.
LEMMA ClosedType == Closed \in TabState
BY StoreAssumption DEF Closed, TabState, Value

\* schedule keeps a tab's type.
LEMMA ScheduleType ==
  ASSUME NEW s \in TabState PROVE Schedule(s) \in TabState
BY DEF Schedule, TabState

\* drain keeps it.
LEMMA DrainType ==
  ASSUME NEW s \in TabState PROVE Drain(s) \in TabState
<1>1. Save(s.project, "autosave") \in Write
  BY DEF TabState, Write, Save
<1>2. Append(s.writes, Save(s.project, "autosave")) \in Seq(Write)
  BY <1>1 DEF TabState
<1> QED BY <1>2 DEF Drain, TabState

\* flush keeps it.
LEMMA FlushType ==
  ASSUME NEW s \in TabState PROVE Flush(s) \in TabState
<1>1. [s EXCEPT !.timer = FALSE] \in TabState
  BY DEF TabState
<1> QED BY <1>1, DrainType DEF Flush

\* So does a save that settles.
LEMMA SaveSettledType ==
  ASSUME NEW s \in TabState PROVE SaveSettled(s) \in TabState
<1>1. [s EXCEPT !.draining = FALSE] \in TabState
  BY DEF TabState
<1>2. [s EXCEPT !.draining = FALSE, !.timer = FALSE] \in TabState
  BY DEF TabState
<1> QED BY <1>1, <1>2, DrainType DEF SaveSettled

\* So does any write that settles.
LEMMA SettledType ==
  ASSUME NEW s \in TabState, NEW ok \in BOOLEAN, s.writes # <<>>
  PROVE  Settled(s, ok) \in TabState
<1> DEFINE w    == Head(s.writes)
           rest == [s EXCEPT !.writes = Tail(@)]
<1>1. w \in Write /\ Tail(s.writes) \in Seq(Write)
  BY DEF TabState
<1>2. rest \in TabState
  BY <1>1 DEF TabState
<1>3. Schedule([rest EXCEPT !.stage = "ready"]) \in TabState
  <2>1. [rest EXCEPT !.stage = "ready"] \in TabState
    BY <1>2 DEF TabState
  <2> QED BY <2>1, ScheduleType
<1>4. [rest EXCEPT !.writes = Append(@, Save(s.project, "reset")),
                   !.attempted = s.project] \in TabState
  <2>1. Save(s.project, "reset") \in Write
    BY DEF TabState, Write, Save
  <2>2. Append(rest.writes, Save(s.project, "reset")) \in Seq(Write)
    BY <1>2, <2>1 DEF TabState
  <2> QED BY <1>2, <2>2 DEF TabState
<1>5. [rest EXCEPT !.resetting = FALSE] \in TabState
  BY <1>2 DEF TabState
<1>6. Flush([rest EXCEPT !.resetting = FALSE]) \in TabState
  BY <1>5, FlushType
<1>7. SaveSettled(rest) \in TabState
  BY <1>2, SaveSettledType
<1> QED BY <1>3, <1>4, <1>5, <1>6, <1>7 DEF Settled

-----------------------------------------------------------------------------
\* The operations on a tab's state keep TabInv.
LEMMA ClosedInv == TabInv(Closed)
BY DEF TabInv, Closed

\* schedule keeps what is known of one tab.
LEMMA ScheduleInv ==
  ASSUME NEW s \in TabState, s.stage = "ready", Knows(s)
  PROVE  TabInv(Schedule(s))
BY DEF TabInv, Knows, Schedule, TabState

\* schedule leaves a tab's stage as it is.
LEMMA ScheduleStage ==
  ASSUME NEW s \in TabState PROVE Schedule(s).stage = s.stage
BY DEF Schedule, TabState

\* Also for the loop's next round, when a change is marked but no timer is set.
LEMMA DrainInv ==
  ASSUME NEW s \in TabState, s.stage = "ready", Knows(s),
         ~s.dirty => s.attempted = s.project
  PROVE  TabInv(Drain(s)) /\ Drain(s).stage = "ready"
<1>1. CASE s.draining \/ ~s.dirty
  BY <1>1 DEF TabInv, Knows, Drain, TabState
<1>2. CASE ~(s.draining \/ ~s.dirty)
  BY <1>2 DEF TabInv, Knows, Drain, TabState
<1> QED BY <1>1, <1>2

\* A write that settles leaves a tab that is ready.
LEMMA SettledInv ==
  ASSUME NEW s \in TabState, NEW ok \in BOOLEAN, s.writes # <<>>,
         s.stage = "ready" \/ (s.stage = "clearing" /\ s.writes = <<Clear("start")>>),
         Knows(s),
         s.stage = "ready" /\ ~s.dirty => s.attempted = s.project,
         s.dirty => s.timer \/ s.draining
  PROVE  TabInv(Settled(s, ok)) /\ Settled(s, ok).stage = "ready"
<1> DEFINE w    == Head(s.writes)
           rest == [s EXCEPT !.writes = Tail(@)]
<1>1. w \in Write /\ Tail(s.writes) \in Seq(Write)
  BY DEF TabState
<1>2. rest \in TabState
  BY <1>1 DEF TabState
<1>3. CASE w.op = "clear" /\ w.by = "start"
  <2>1. [rest EXCEPT !.stage = "ready"] \in TabState
    BY <1>2 DEF TabState
  <2>2. Settled(s, ok) = Schedule([rest EXCEPT !.stage = "ready"])
    BY <1>3 DEF Settled
  <2>3. TabInv(Schedule([rest EXCEPT !.stage = "ready"]))
    BY <2>1, <1>2, ScheduleInv DEF TabState, Knows
  <2>4. Schedule([rest EXCEPT !.stage = "ready"]).stage = "ready"
    BY <2>1 DEF Schedule, TabState
  <2> QED BY <2>2, <2>3, <2>4
<1>4. ASSUME ~(w.op = "clear" /\ w.by = "start")
      PROVE  s.stage = "ready"
  BY <1>4 DEF Clear
<1>5. CASE w.op = "clear" /\ w.by = "reset"
  <2>1. s.stage = "ready"
    BY <1>4, <1>5
  <2>2. CASE ok
    <3>1. Settled(s, ok) = [rest EXCEPT !.writes = Append(@, Save(s.project, "reset")),
                                        !.attempted = s.project]
      BY <1>5, <2>2 DEF Settled
    <3> QED BY <3>1, <2>1, <1>2 DEF TabInv, Knows, TabState
  <2>3. CASE ~ok
    <3>1. Settled(s, ok) = [rest EXCEPT !.resetting = FALSE]
      BY <1>5, <2>3 DEF Settled
    <3> QED BY <3>1, <2>1, <1>2 DEF TabInv, Knows, TabState
  <2> QED BY <2>2, <2>3
<1>6. CASE w.op = "save" /\ w.by = "reset"
  <2>1. s.stage = "ready"
    BY <1>4, <1>6
  <2> DEFINE over == [rest EXCEPT !.resetting = FALSE]
  <2>2. /\ over \in TabState /\ over.stage = "ready" /\ over.revision = s.revision
        /\ over.base = s.base /\ over.blind = s.blind
        /\ over.dirty = s.dirty /\ over.timer = s.timer /\ over.draining = s.draining
        /\ over.attempted = s.attempted /\ over.project = s.project
    BY <2>1, <1>2 DEF TabState
  <2>3. CASE ok
    <3> DEFINE quiet == [over EXCEPT !.timer = FALSE]
    <3>1. /\ quiet \in TabState /\ quiet.stage = "ready" /\ quiet.revision = over.revision
          /\ quiet.base = over.base /\ quiet.blind = over.blind
          /\ ~quiet.dirty => quiet.attempted = quiet.project
      BY <2>1, <2>2 DEF TabState
    <3>2. Settled(s, ok) = Drain(quiet)
      BY <1>6, <2>3 DEF Settled, Flush
    <3> HIDE DEF quiet
    <3> QED BY <3>1, <3>2, DrainInv DEF Knows
  <2>4. CASE ~ok
    <3>1. Settled(s, ok) = over
      BY <1>6, <2>4 DEF Settled
    <3> HIDE DEF over
    <3> QED BY <3>1, <2>1, <2>2 DEF TabInv, Knows
  <2> QED BY <2>3, <2>4
<1>7. CASE w.op = "save" /\ w.by = "autosave"
  <2>1. s.stage = "ready"
    BY <1>4, <1>7
  <2>2. Settled(s, ok) = SaveSettled(rest)
    BY <1>7 DEF Settled
  <2>3. CASE rest.dirty
    <3> DEFINE again == [rest EXCEPT !.draining = FALSE]
    <3>1. /\ again \in TabState /\ again.stage = "ready" /\ again.revision = s.revision
          /\ again.base = s.base /\ again.blind = s.blind
          /\ again.dirty
      BY <2>1, <2>3, <1>2 DEF TabState
    <3>2. Settled(s, ok) = Drain(again)
      BY <2>2, <2>3 DEF SaveSettled
    <3> HIDE DEF again
    <3> QED BY <3>1, <3>2, DrainInv DEF Knows
  <2>4. CASE ~rest.dirty
    <3>1. Settled(s, ok) = [rest EXCEPT !.draining = FALSE, !.timer = FALSE]
      BY <2>2, <2>4 DEF SaveSettled
    <3> QED BY <3>1, <2>1, <2>4, <1>2 DEF TabInv, Knows, TabState
  <2> QED BY <2>3, <2>4
<1>8. w.op \in {"clear", "save"} /\ w.by \in {"start", "reset", "autosave"}
      /\ (w.op = "save" => w.by # "start") /\ (w.op = "clear" => w.by # "autosave")
  BY <1>1 DEF Write
<1> QED BY <1>3, <1>5, <1>6, <1>7, <1>8

-----------------------------------------------------------------------------
\* One tab changes: what has to be known of its new state.
LEMMA OneTabChanges ==
  ASSUME StoreInv, NEW t \in Tabs, NEW s \in TabState, TabInv(s),
         tab' = [tab EXCEPT ![t] = s]
  PROVE  /\ tab' \in [Tabs -> TabState]
         /\ \A u \in Tabs : TabInv(tab'[u])
         /\ s.stage # "clearing" /\ VerifiedSaveSurvives /\ ~excused =>
              \A u \in Tabs : tab'[u].stage # "clearing"
<1>1. tab \in [Tabs -> TabState]
  BY DEF StoreInv, StoreTypeOK
<1>2. \A u \in Tabs : tab'[u] = IF u = t THEN s ELSE tab[u]
  BY <1>1
<1>3. \A u \in Tabs : TabInv(tab'[u])
  BY <1>2 DEF StoreInv
<1>4. ASSUME s.stage # "clearing", VerifiedSaveSurvives, ~excused, NEW u \in Tabs
      PROVE  tab'[u].stage # "clearing"
  BY <1>4, <1>2 DEF VerifiedSaveSurvives
<1> QED BY <1>1, <1>3, <1>4

\* A step that stores nothing and takes one tab to a state that is not clearing.
LEMMA QuietStep ==
  ASSUME StoreInv, NEW t \in Tabs, NEW s \in TabState, TabInv(s), s.stage # "clearing",
         tab' = [tab EXCEPT ![t] = s], UNCHANGED stored, UNCHANGED <<damages, excused>>,
         edits' \in 0..MaxEdits
  PROVE  StoreInv'
<1>1. StoreTypeOK /\ VerifiedSaveSurvives
  BY DEF StoreInv
<1>2. StoreTypeOK'
  BY <1>1, OneTabChanges DEF StoreTypeOK, stored
<1>3. VerifiedSaveSurvives'
  BY <1>1, OneTabChanges DEF VerifiedSaveSurvives, stored
<1> QED BY <1>2, <1>3, OneTabChanges DEF StoreInv

\* A tab at work has a queue only when it is ready or clearing the store.
LEMMA WritingTab ==
  ASSUME StoreInv, NEW t \in Tabs, tab[t].writes # <<>>
  PROVE  /\ tab[t] \in TabState
         /\ \/ tab[t].stage = "ready" /\ Knows(tab[t])
            \/ tab[t].stage = "clearing" /\ tab[t].writes = <<Clear("start")>>
         /\ Next1(t).op = "save" => tab[t].stage = "ready"
<1>1. tab[t] \in TabState /\ TabInv(tab[t])
  BY DEF StoreInv, StoreTypeOK
<1>2. tab[t].stage \in {"ready", "clearing"}
  BY <1>1 DEF TabInv, TabState
<1>3. tab[t].stage = "clearing" => Next1(t).op = "clear"
  BY <1>1 DEF TabInv, Next1, Clear
<1> QED BY <1>1, <1>2, <1>3 DEF TabInv

\* A browser without a project has the invariant.
LEMMA InitStoreInv == StoreInit => StoreInv
<1> SUFFICES ASSUME StoreInit PROVE StoreInv
  OBVIOUS
<1>1. StoreTypeOK
  <2>1. tab \in [Tabs -> TabState]
    BY ClosedType DEF StoreInit
  <2>2. primary \in Value /\ backup \in Value /\ conflict \in Value
    BY DEF StoreInit, Value
  <2>3. edits \in 0..MaxEdits /\ damages \in 0..MaxDamages
    <3>1. edits = 0 /\ damages = 0
      BY DEF StoreInit
    <3> QED BY <3>1, StoreAssumption
  <2>4. excused \in BOOLEAN
    BY DEF StoreInit
  <2> QED BY <2>1, <2>2, <2>3, <2>4 DEF StoreTypeOK
<1>2. \A t \in Tabs : TabInv(tab[t])
  BY ClosedInv DEF StoreInit
<1>3. VerifiedSaveSurvives
  BY DEF StoreInit, VerifiedSaveSurvives, Closed
<1> QED BY <1>1, <1>2, <1>3 DEF StoreInv

-----------------------------------------------------------------------------
\* Every step of the program keeps StoreInv.
LEMMA LoadStepStoreInv ==
  ASSUME StoreInv, NEW t \in Tabs, LoadStep(t)
  PROVE  StoreInv'
<1>1. tab[t] \in TabState /\ TabInv(tab[t]) /\ StoreTypeOK /\ VerifiedSaveSurvives
  BY DEF StoreInv, StoreTypeOK
<1>2. Closed \in TabState
  BY ClosedType
<1>3. CASE LoadVerified(t)
  <2> DEFINE r == StorageRevision(primary)
             s == [Closed EXCEPT !.stage = "ready", !.revision = r, !.base = r,
                                 !.project = IF r = Nothing THEN Starter ELSE r]
  <2>1. r \in Contents \cup {Nothing}
    BY <1>1 DEF StoreTypeOK, Value, Envelope, StorageRevision
  <2>2. s \in TabState /\ s.stage = "ready" /\ Knows(s)
    BY <2>1, <1>2, StoreAssumption DEF TabState, Knows
  <2>3. tab' = [tab EXCEPT ![t] = Schedule(s)] /\ UNCHANGED <<stored, counts>>
    BY <1>3 DEF LoadVerified
  <2> HIDE DEF s
  <2>4. Schedule(s) \in TabState /\ TabInv(Schedule(s)) /\ Schedule(s).stage = "ready"
    BY <2>2, ScheduleType, ScheduleInv DEF Schedule, TabState
  <2> QED BY <2>3, <2>4, <1>1, QuietStep DEF counts, StoreTypeOK
<1>4. CASE LoadBackup(t)
  <2> DEFINE s == [Closed EXCEPT !.stage = "recovering", !.held = backup]
  <2>1. s \in TabState /\ s.stage = "recovering"
    BY <1>1, <1>2 DEF TabState, StoreTypeOK
  <2>2. TabInv(s)
    BY <1>4 DEF LoadBackup, TabInv, Closed
  <2>3. tab' = [tab EXCEPT ![t] = s] /\ UNCHANGED <<stored, counts>>
    BY <1>4 DEF LoadBackup
  <2> HIDE DEF s
  <2> QED BY <2>1, <2>2, <2>3, <1>1, QuietStep DEF counts, StoreTypeOK
<1>5. CASE Recover(t)
  <2> DEFINE r == tab[t].held.revision
             s == [Closed EXCEPT !.stage = "ready", !.revision = r, !.base = r, !.project = r]
  <2>1. Valid(tab[t].held) /\ tab[t].held \in Envelope
    BY <1>1, <1>5 DEF Recover, TabInv, TabState, Valid, Value
  <2>2. s \in TabState /\ s.stage = "ready" /\ Knows(s)
    BY <2>1, <1>2 DEF TabState, Envelope, Knows
  <2>3. /\ tab' = [tab EXCEPT ![t] = Schedule(s)]
        /\ primary' = tab[t].held /\ UNCHANGED <<backup, conflict, counts>>
    BY <1>5 DEF Recover
  <2> HIDE DEF s
  <2>4. Schedule(s) \in TabState /\ TabInv(Schedule(s)) /\ Schedule(s).stage = "ready"
    BY <2>2, ScheduleType, ScheduleInv DEF Schedule, TabState
  <2>5. StoreTypeOK'
    BY <2>1, <2>3, <2>4, <1>1, OneTabChanges DEF StoreTypeOK, counts, Value
  <2>6. VerifiedSaveSurvives'
    BY <2>1, <2>3, <2>4, <1>1, OneTabChanges DEF VerifiedSaveSurvives, counts, Valid
  <2> QED BY <2>3, <2>4, <2>5, <2>6, OneTabChanges DEF StoreInv
<1>6. CASE LoadFailed(t)
  <2> DEFINE s == [Closed EXCEPT !.stage = "clearing", !.writes = <<Clear("start")>>]
  <2>1. <<Clear("start")>> \in Seq(Write)
    <3>1. Clear("start") \in Write
      BY DEF Clear, Write
    <3> QED BY <3>1
  <2>2. s \in TabState /\ TabInv(s)
    BY <2>1, <1>2 DEF TabState, TabInv, Closed
  <2>3. tab' = [tab EXCEPT ![t] = s] /\ UNCHANGED <<stored, counts>> /\ excused
    BY <1>6, <1>1 DEF LoadFailed, VerifiedSaveSurvives
  <2> HIDE DEF s
  <2>4. StoreTypeOK'
    BY <2>2, <2>3, <1>1, OneTabChanges DEF StoreTypeOK, stored, counts
  <2>5. VerifiedSaveSurvives'
    BY <2>3 DEF VerifiedSaveSurvives, counts
  <2> QED BY <2>2, <2>3, <2>4, <2>5, OneTabChanges DEF StoreInv
<1>7. CASE LoadErrs(t)
  <2> DEFINE s == [Closed EXCEPT !.stage = "clearing", !.writes = <<Clear("start")>>]
  <2>1. <<Clear("start")>> \in Seq(Write)
    <3>1. Clear("start") \in Write
      BY DEF Clear, Write
    <3> QED BY <3>1
  <2>2. s \in TabState /\ TabInv(s)
    BY <2>1, <1>2 DEF TabState, TabInv, Closed
  <2>3. /\ tab' = [tab EXCEPT ![t] = s] /\ UNCHANGED <<stored, edits, damages>>
        /\ excused' = TRUE
    BY <1>7 DEF LoadErrs
  <2> HIDE DEF s
  <2>4. StoreTypeOK'
    BY <2>2, <2>3, <1>1, OneTabChanges DEF StoreTypeOK, stored
  <2>5. VerifiedSaveSurvives'
    BY <2>3 DEF VerifiedSaveSurvives
  <2> QED BY <2>2, <2>3, <2>4, <2>5, OneTabChanges DEF StoreInv
<1> QED BY <1>3, <1>4, <1>5, <1>6, <1>7 DEF LoadStep

\* A write that settles keeps the invariant.
LEMMA WriteStepStoreInv ==
  ASSUME StoreInv, NEW t \in Tabs, WriteStep(t)
  PROVE  StoreInv'
<1>1. TabInv(tab[t]) /\ StoreTypeOK /\ VerifiedSaveSurvives
  BY DEF StoreInv
<1>2. tab[t].writes # <<>>
  BY DEF WriteStep, SaveStored, SaveConflicts, SaveFails, ClearStored, ClearFails
<1>3. tab[t] \in TabState /\ Next1(t) \in Write
  BY <1>2, WritingTab DEF TabState, Next1
<1>4. CASE SaveStored(t)
  <2> DEFINE p == Next1(t).content
             s == [tab[t] EXCEPT !.revision = p, !.base = p, !.blind = FALSE]
  <2>1. tab[t].stage = "ready"
    BY <1>2, <1>4, WritingTab DEF SaveStored
  <2>2. p \in Contents
    BY <1>3, <1>4 DEF SaveStored, Write
  <2>3. /\ s \in TabState /\ s.stage = "ready" /\ Knows(s)
        /\ s.writes # <<>> /\ s.dirty = tab[t].dirty /\ s.timer = tab[t].timer
        /\ s.draining = tab[t].draining /\ s.attempted = tab[t].attempted
        /\ s.project = tab[t].project
    BY <1>2, <1>3, <2>1, <2>2 DEF TabState, Knows
  <2>4. /\ tab' = [tab EXCEPT ![t] = Settled(s, TRUE)]
        /\ primary' = Saved(p) /\ UNCHANGED <<conflict, counts>>
        /\ backup' = IF primary = Nothing THEN backup ELSE primary
    BY <1>4 DEF SaveStored, Rotate
  <2> HIDE DEF s, p
  <2>5. /\ Settled(s, TRUE) \in TabState /\ TabInv(Settled(s, TRUE))
        /\ Settled(s, TRUE).stage = "ready"
    BY <2>1, <2>3, <1>1, SettledType, SettledInv DEF TabInv
  <2>6. primary' \in Envelope /\ Valid(primary')
    <3>1. primary' \in Envelope /\ primary'.intact
      BY <2>2, <2>4 DEF Saved, Envelope
    <3> QED BY <3>1, StoreAssumption DEF Valid
  <2>7. StoreTypeOK'
    BY <2>4, <2>5, <2>6, <1>1, OneTabChanges DEF StoreTypeOK, counts, Value
  <2>8. VerifiedSaveSurvives'
    BY <2>4, <2>5, <2>6, <1>1, OneTabChanges DEF VerifiedSaveSurvives, counts, Valid
  <2> QED BY <2>4, <2>5, <2>7, <2>8, OneTabChanges DEF StoreInv
<1>5. CASE SaveConflicts(t)
  <2>1. tab[t].stage = "ready"
    BY <1>2, <1>5, WritingTab DEF SaveConflicts
  <2>2. /\ tab' = [tab EXCEPT ![t] = Settled(tab[t], FALSE)]
        /\ conflict' = Saved(Next1(t).content) /\ UNCHANGED <<primary, backup, counts>>
    BY <1>5 DEF SaveConflicts
  <2>3. /\ Settled(tab[t], FALSE) \in TabState /\ TabInv(Settled(tab[t], FALSE))
        /\ Settled(tab[t], FALSE).stage = "ready"
    BY <2>1, <1>1, <1>2, <1>3, SettledType, SettledInv DEF TabInv
  <2>4. conflict' \in Value
    BY <2>2, <1>3, <1>5 DEF SaveConflicts, Write, Saved, Envelope, Value
  <2>5. StoreTypeOK'
    BY <2>2, <2>3, <2>4, <1>1, OneTabChanges DEF StoreTypeOK, counts
  <2>6. VerifiedSaveSurvives'
    BY <2>2, <2>3, <1>1, OneTabChanges DEF VerifiedSaveSurvives, counts
  <2> QED BY <2>2, <2>3, <2>5, <2>6, OneTabChanges DEF StoreInv
<1>6. CASE SaveFails(t)
  <2>1. tab[t].stage = "ready"
    BY <1>2, <1>6, WritingTab DEF SaveFails
  <2>2. tab' = [tab EXCEPT ![t] = Settled(tab[t], FALSE)] /\ UNCHANGED <<stored, counts>>
    BY <1>6 DEF SaveFails
  <2>3. /\ Settled(tab[t], FALSE) \in TabState /\ TabInv(Settled(tab[t], FALSE))
        /\ Settled(tab[t], FALSE).stage = "ready"
    BY <2>1, <1>1, <1>2, <1>3, SettledType, SettledInv DEF TabInv
  <2> QED BY <2>2, <2>3, <1>1, QuietStep DEF counts, StoreTypeOK
<1>7. CASE ClearStored(t)
  <2> DEFINE s == [tab[t] EXCEPT !.revision = Nothing, !.base = Nothing, !.blind = FALSE]
  <2>1. /\ s \in TabState /\ s.stage = tab[t].stage /\ Knows(s)
        /\ s.writes = tab[t].writes /\ s.dirty = tab[t].dirty /\ s.timer = tab[t].timer
        /\ s.draining = tab[t].draining /\ s.attempted = tab[t].attempted
        /\ s.project = tab[t].project
    BY <1>3 DEF TabState, Knows
  <2>2. /\ tab' = [tab EXCEPT ![t] = Settled(s, TRUE)]
        /\ primary' = Nothing /\ backup' = Nothing /\ conflict' = Nothing
        /\ UNCHANGED counts
    BY <1>7 DEF ClearStored
  <2> HIDE DEF s
  <2>3. /\ Settled(s, TRUE) \in TabState /\ TabInv(Settled(s, TRUE))
        /\ Settled(s, TRUE).stage = "ready"
    BY <2>1, <1>1, <1>2, WritingTab, SettledType, SettledInv DEF TabInv
  <2>4. StoreTypeOK'
    BY <2>2, <2>3, <1>1, OneTabChanges DEF StoreTypeOK, counts, Value
  <2>5. VerifiedSaveSurvives'
    BY <2>2, <2>3, <1>1, OneTabChanges DEF VerifiedSaveSurvives, counts
  <2> QED BY <2>2, <2>3, <2>4, <2>5, OneTabChanges DEF StoreInv
<1>8. CASE ClearFails(t)
  <2> DEFINE s == [tab[t] EXCEPT !.blind = (tab[t].blind \/ Next1(t).by = "start")]
  <2>1. /\ s \in TabState /\ s.stage = tab[t].stage /\ s.revision = tab[t].revision
        /\ s.base = tab[t].base /\ s.blind = (tab[t].blind \/ Next1(t).by = "start")
        /\ s.writes = tab[t].writes /\ s.dirty = tab[t].dirty /\ s.timer = tab[t].timer
        /\ s.draining = tab[t].draining /\ s.attempted = tab[t].attempted
        /\ s.project = tab[t].project
    BY <1>3 DEF TabState
  <2>2. /\ tab' = [tab EXCEPT ![t] = Settled(s, FALSE)]
        /\ UNCHANGED <<stored, counts>>
    BY <1>8 DEF ClearFails
  <2> HIDE DEF s
  <2>3. Knows(s)
    <3>1. CASE tab[t].stage = "ready"
      BY <3>1, <2>1, <1>1 DEF TabInv, Knows
    <3>2. CASE tab[t].stage = "clearing"
      <4>1. tab[t].writes = <<Clear("start")>>
        BY <3>2, <1>1 DEF TabInv
      <4>2. Next1(t).by = "start"
        BY <4>1 DEF Next1, Clear
      <4> QED BY <4>2, <2>1 DEF Knows
    <3> QED BY <3>1, <3>2, <1>2, WritingTab
  <2>4. /\ Settled(s, FALSE) \in TabState /\ TabInv(Settled(s, FALSE))
        /\ Settled(s, FALSE).stage = "ready"
    BY ZenonT(30), <2>1, <2>3, <1>1, <1>2, WritingTab, SettledType, SettledInv DEF TabInv
  <2> QED BY <2>2, <2>4, <1>1, QuietStep DEF counts, StoreTypeOK
<1> QED BY <1>4, <1>5, <1>6, <1>7, <1>8 DEF WriteStep

\* What the person, the page and its timer do keeps the invariant.
LEMMA PersonStoreInv ==
  ASSUME StoreInv, NEW t \in Tabs,
         \/ TimerFires(t) \/ Hide(t) \/ Reset(t) \/ ResetClears(t) \/ ResetFails(t) \/ Close(t)
         \/ \E p \in Contents : Edit(t, p)
  PROVE  StoreInv'
<1>1. tab[t] \in TabState /\ TabInv(tab[t]) /\ StoreTypeOK
  BY DEF StoreInv, StoreTypeOK
<1>2. CASE TimerFires(t)
  <2> DEFINE s == [tab[t] EXCEPT !.timer = FALSE]
  <2>1. /\ tab' = [tab EXCEPT ![t] = Drain(s)] /\ UNCHANGED <<stored, counts>>
    BY <1>2 DEF TimerFires
  <2>2. /\ s \in TabState /\ s.stage = tab[t].stage /\ s.revision = tab[t].revision
        /\ s.base = tab[t].base /\ s.blind = tab[t].blind /\ s.dirty = tab[t].dirty
        /\ s.attempted = tab[t].attempted /\ s.project = tab[t].project
    BY <1>1 DEF TabState
  <2> HIDE DEF s
  <2>3. tab[t].stage = "ready"
    BY <1>1, <1>2 DEF TimerFires, TabInv
  <2>4. Drain(s) \in TabState /\ TabInv(Drain(s)) /\ Drain(s).stage = "ready"
    BY <2>2, <2>3, <1>1, DrainType, DrainInv DEF TabInv, Knows
  <2> QED BY <2>1, <2>4, <1>1, QuietStep DEF counts, StoreTypeOK
<1>3. CASE Hide(t)
  <2> DEFINE s == [tab[t] EXCEPT !.timer = FALSE]
  <2>1. /\ tab' = [tab EXCEPT ![t] = Drain(s)] /\ UNCHANGED <<stored, counts>>
        /\ tab[t].stage = "ready"
    BY <1>3 DEF Hide, Flush
  <2>2. /\ s \in TabState /\ s.stage = tab[t].stage /\ s.revision = tab[t].revision
        /\ s.base = tab[t].base /\ s.blind = tab[t].blind /\ s.dirty = tab[t].dirty
        /\ s.attempted = tab[t].attempted /\ s.project = tab[t].project
    BY <1>1 DEF TabState
  <2> HIDE DEF s
  <2>3. Drain(s) \in TabState /\ TabInv(Drain(s)) /\ Drain(s).stage = "ready"
    BY <2>1, <2>2, <1>1, DrainType, DrainInv DEF TabInv, Knows
  <2> QED BY <2>1, <2>3, <1>1, QuietStep DEF counts, StoreTypeOK
<1>4. CASE Reset(t)
  <2> DEFINE s == [tab[t] EXCEPT !.project = Starter, !.resetting = TRUE]
  <2>1. /\ tab' = [tab EXCEPT ![t] = Schedule(s)] /\ UNCHANGED <<stored, counts>>
        /\ tab[t].stage = "ready"
    BY <1>4 DEF Reset
  <2>2. /\ s \in TabState /\ s.stage = tab[t].stage /\ s.revision = tab[t].revision
        /\ s.base = tab[t].base /\ s.blind = tab[t].blind
    BY <1>1, StoreAssumption DEF TabState
  <2> HIDE DEF s
  <2>3. Schedule(s) \in TabState /\ TabInv(Schedule(s)) /\ Schedule(s).stage = "ready"
    <3>1. s.stage = "ready" /\ Knows(tab[t])
      BY <2>1, <2>2, <1>1 DEF TabInv
    <3>2. Knows(s)
      BY <2>2, <3>1 DEF Knows
    <3> QED BY <2>2, <3>1, <3>2, ScheduleType, ScheduleInv, ScheduleStage
  <2> QED BY <2>1, <2>3, <1>1, QuietStep DEF counts, StoreTypeOK
<1>5. CASE ResetClears(t)
  <2> DEFINE s == [tab[t] EXCEPT !.writes = Append(tab[t].writes, Clear("reset"))]
  <2>1. /\ tab' = [tab EXCEPT ![t] = s] /\ UNCHANGED <<stored, counts>>
        /\ tab[t].resetting /\ tab[t].stage = "ready"
    BY <1>5 DEF ResetClears
  <2>2. Append(tab[t].writes, Clear("reset")) \in Seq(Write)
    <3>1. Clear("reset") \in Write
      BY DEF Clear, Write
    <3> QED BY <3>1, <1>1 DEF TabState
  <2>3. s \in TabState /\ TabInv(s) /\ s.stage = "ready"
    BY <2>1, <2>2, <1>1 DEF TabInv, Knows, TabState
  <2> HIDE DEF s
  <2> QED BY <2>1, <2>3, <1>1, QuietStep DEF counts, StoreTypeOK
<1>6. CASE Close(t)
  <2>1. tab' = [tab EXCEPT ![t] = Closed] /\ UNCHANGED <<stored, counts>>
    BY <1>6 DEF Close
  <2>2. Closed.stage # "clearing"
    BY DEF Closed
  <2> QED BY <2>1, <2>2, <1>1, ClosedType, ClosedInv, QuietStep DEF counts, StoreTypeOK
<1>7. ASSUME NEW p \in Contents, Edit(t, p)
      PROVE  StoreInv'
  <2> DEFINE s == [tab[t] EXCEPT !.project = p]
  <2>1. /\ tab' = [tab EXCEPT ![t] = Schedule(s)] /\ UNCHANGED <<stored, damages, excused>>
        /\ tab[t].stage = "ready" /\ edits < MaxEdits /\ edits' = edits + 1
    BY <1>7 DEF Edit
  <2>2. /\ s \in TabState /\ s.stage = tab[t].stage /\ s.revision = tab[t].revision
        /\ s.base = tab[t].base /\ s.blind = tab[t].blind
    BY <1>1 DEF TabState
  <2> HIDE DEF s
  <2>3. Schedule(s) \in TabState /\ TabInv(Schedule(s)) /\ Schedule(s).stage = "ready"
    <3>1. s.stage = "ready" /\ Knows(tab[t])
      BY <2>1, <2>2, <1>1 DEF TabInv
    <3>2. Knows(s)
      BY <2>2, <3>1 DEF Knows
    <3> QED BY <2>2, <3>1, <3>2, ScheduleType, ScheduleInv, ScheduleStage
  <2>4. edits' \in 0..MaxEdits
    BY <2>1, <1>1, StoreAssumption DEF StoreTypeOK
  <2> QED BY <2>1, <2>3, <2>4, QuietStep DEF stored
<1>8. CASE ResetFails(t)
  <2> DEFINE s == [tab[t] EXCEPT !.resetting = FALSE]
  <2>1. /\ tab' = [tab EXCEPT ![t] = s] /\ UNCHANGED <<stored, counts>>
        /\ tab[t].stage = "ready"
    BY <1>8 DEF ResetFails
  <2>2. s \in TabState /\ TabInv(s) /\ s.stage = "ready"
    BY <2>1, <1>1 DEF TabInv, Knows, TabState
  <2> HIDE DEF s
  <2> QED BY <2>1, <2>2, <1>1, QuietStep DEF counts, StoreTypeOK
<1> QED BY <1>2, <1>3, <1>4, <1>5, <1>6, <1>7, <1>8

\* Damage to what is stored keeps the invariant.
LEMMA DamageStoreInv ==
  ASSUME StoreInv, Damage
  PROVE  StoreInv'
<1>1. StoreTypeOK /\ VerifiedSaveSurvives /\ \A t \in Tabs : TabInv(tab[t])
  BY DEF StoreInv
<1>2. damages' \in 0..MaxDamages
  BY <1>1, StoreAssumption DEF Damage, StoreTypeOK
<1>3. primary' \in Value /\ backup' \in Value /\ excused' \in BOOLEAN
  BY <1>1 DEF Damage, StoreTypeOK, Value, Envelope, Valid
<1>4. UNCHANGED <<conflict, tab, edits>>
  BY DEF Damage
<1>5. StoreTypeOK'
  BY <1>1, <1>2, <1>3, <1>4 DEF StoreTypeOK
<1>6. VerifiedSaveSurvives'
  BY <1>1, <1>4 DEF Damage, VerifiedSaveSurvives, Valid
<1> QED BY <1>1, <1>4, <1>5, <1>6 DEF StoreInv

\* Every step keeps the invariant.
LEMMA NextStoreInv == StoreInv /\ [StoreNext]_storeVars => StoreInv'
<1> SUFFICES ASSUME StoreInv, [StoreNext]_storeVars PROVE StoreInv'
  OBVIOUS
<1>1. CASE UNCHANGED storeVars
  BY <1>1 DEF StoreInv, StoreTypeOK, VerifiedSaveSurvives, storeVars, stored, counts
<1>2. CASE StoreNext
  BY <1>2, LoadStepStoreInv, WriteStepStoreInv, PersonStoreInv, DamageStoreInv DEF StoreNext
<1> QED BY <1>1, <1>2

\* The invariant holds of every reachable state.
LEMMA StoreInvHolds == StoreSpec => []StoreInv
BY InitStoreInv, NextStoreInv, PTL DEF StoreSpec

-----------------------------------------------------------------------------
\* For every set of tabs and projects, the stored values and the tabs have the
\* types the code gives them (browser-project-store.ts).
THEOREM StoreTypeCorrect == StoreSpec => []StoreTypeOK
<1>1. StoreInv => StoreTypeOK
  BY DEF StoreInv
<1> QED BY <1>1, StoreInvHolds, PTL

\* For every set of tabs and projects, and whatever happens, a change waits for
\* a timer or a running save (browser-project-store.ts autosaveBrowserProject).
THEOREM ChangesAreScheduled == StoreSpec => []ChangeIsScheduled
<1>1. StoreInv => ChangeIsScheduled
  BY DEF StoreInv, TabInv, ChangeIsScheduled
<1> QED BY <1>1, StoreInvHolds, PTL

\* Autosave never comes to rest on a project it did not hand to a save
\* (browser-project-store.ts drain).
THEOREM RestIsCurrent == StoreSpec => []RestsOnCurrentProject
<1>1. StoreInv => RestsOnCurrentProject
  BY DEF StoreInv, TabInv, RestsOnCurrentProject
<1> QED BY <1>1, StoreInvHolds, PTL

\* However many values are damaged, a verified save survives as long as each
\* damage left another one (browser-storage-engine.ts rotateStorageValue,
\* browser-project-store.ts loadRecoverable).
THEOREM SaveSurvives == StoreSpec => []VerifiedSaveSurvives
<1>1. StoreInv => VerifiedSaveSurvives
  BY DEF StoreInv
<1> QED BY <1>1, StoreInvHolds, PTL

\* No tab's save overwrites a stored project that its own does not descend from
\* (browser-storage-engine.ts rotateStorageValue).
THEOREM SavesReplaceWhatTheyKnow == StoreSpec => SaveReplacesWhatItKnows
<1>1. ASSUME StoreInv, NEW t \in Tabs, SaveStored(t)
      PROVE  primary = Nothing \/ primary.revision = tab[t].base \/ tab[t].blind
  <2>1. tab[t].writes # <<>> /\ Next1(t).op = "save" /\ ~Conflicts(t)
    BY <1>1 DEF SaveStored
  <2>2. tab[t].stage = "ready" /\ Knows(tab[t]) /\ tab[t] \in TabState
    BY <1>1, <2>1, WritingTab DEF StoreInv, TabInv
  <2>3. CASE tab[t].revision = tab[t].base
    <3>1. tab[t].revision # Unknown
      BY <2>2, <2>3, StoreAssumption DEF TabState
    <3> QED BY <2>1, <2>3, <3>1 DEF Conflicts, StorageRevision
  <2> QED BY <2>2, <2>3 DEF Knows
<1>2. StoreInv /\ [StoreNext]_storeVars =>
        [\A t \in Tabs :
           SaveStored(t) => primary = Nothing \/ primary.revision = tab[t].base
                              \/ tab[t].blind]_storeVars
  BY <1>1
<1> QED BY <1>2, StoreInvHolds, PTL DEF StoreSpec, SaveReplacesWhatItKnows

-----------------------------------------------------------------------------
\* The sandbox bridge.
Fetches == 1 .. MaxFetches
AnswersOf == [id : Fetches, life : Lives]

RequestOf(id, life) == [type |-> "request", id |-> id, life |-> life]

\* What the page was told of the frame and the preview is so, and it goes on only by that.
ToldOfPreview ==
  /\ [type |-> "ready"] \in toBridge => frameStage = "open"
  /\ [type |-> "preview-load"] \in toBridge => previewStage = "loaded"
  /\ handPromises["ready"] = "resolved" => frameStage = "open"
  /\ handPromises["preview-load"] = "resolved" => previewStage = "loaded"
  /\ start \in {"bridged", "ready"} => handPromises["ready"] = "resolved"
  /\ start = "ready" => handPromises["preview-load"] = "resolved"
  /\ previewStage # "none" => frameStage = "open"
  /\ start = "starting" => frameStage = "none"

\* A fetch that waits is under way, the worker it belongs to has the frame's port, and what the server
\* has under way is told apart by its numbers.
FetchesAreUnderWay ==
  /\ \A id \in swPending :
       \/ [id |-> id, life |-> swLife] \in answers
       \/ RequestOf(id, swLife) \in toBridge \cup served
  /\ swPending # {} => swPort
  /\ swPort => activePort = swLife
  /\ activeIds = {m.id : m \in served}
  /\ \A m, n \in served : m.id = n.id => m = n

SandboxInv == SandboxTypeOK /\ ToldOfPreview /\ FetchesAreUnderWay

LEMMA SandboxInvHolds ==
  ASSUME SandboxInv PROVE SandboxIsSound
<1>1. RunWaitsForPreview
  BY DEF SandboxInv, ToldOfPreview, RunWaitsForPreview
<1>2. EveryRequestIsAnswered
  <2>1. ASSUME NEW id \in swPending
        PROVE \E m \in toBridge \cup served \cup answers :
                \/ m \in answers /\ m = [id |-> id, life |-> swLife]
                \/ m \notin answers /\ m = [type |-> "request", id |-> id, life |-> swLife]
    <3>1. CASE [id |-> id, life |-> swLife] \in answers
      BY <3>1
    <3>2. CASE RequestOf(id, swLife) \in toBridge \cup served
      <4>1. DOMAIN RequestOf(id, swLife) # DOMAIN [id |-> id, life |-> swLife]
        BY DEF RequestOf
      <4>2. \A a \in answers : DOMAIN a = {"id", "life"}
        BY DEF SandboxInv, SandboxTypeOK, AnswersOf
      <4>3. RequestOf(id, swLife) \notin answers
        BY <4>2 DEF RequestOf
      <4> QED BY <3>2, <4>3 DEF RequestOf
    <3> QED BY <3>1, <3>2, <2>1 DEF SandboxInv, FetchesAreUnderWay
  <2> QED BY <2>1 DEF SandboxInv, FetchesAreUnderWay, EveryRequestIsAnswered
<1> QED BY <1>1, <1>2 DEF SandboxIsSound

LEMMA BoundsAreNumbers ==
  MaxActive \in Nat \ {0} /\ MaxFetches \in Nat \ {0} /\ MaxStops \in Nat \ {0}
BY SandboxAssumption

LEMMA SandboxInitInv == SandboxInit => SandboxInv
<1> SUFFICES ASSUME SandboxInit PROVE SandboxInv
  OBVIOUS
<1>1. SandboxTypeOK
  <2>1. 1 \in Lives /\ 1 \in 1 .. (MaxFetches + 1)
    BY BoundsAreNumbers DEF Lives
  <2> QED BY <2>1 DEF SandboxInit, SandboxTypeOK, PromiseStates
<1>2. ToldOfPreview
  BY DEF SandboxInit, ToldOfPreview, Handshakes
<1>3. FetchesAreUnderWay
  BY DEF SandboxInit, FetchesAreUnderWay
<1> QED BY <1>1, <1>2, <1>3 DEF SandboxInv

LEMMA SandboxStepInv == SandboxInv /\ [SandboxNext]_sandboxVars => SandboxInv'
<1> SUFFICES ASSUME SandboxInv, [SandboxNext]_sandboxVars PROVE SandboxInv'
  OBVIOUS
<1> USE DEF SandboxInv, SandboxTypeOK, ToldOfPreview, FetchesAreUnderWay, pageBridge, bridgeWork,
  frameSide, swSide, Handshakes, PromiseStates
<1>1. CASE OpensFrame BY <1>1 DEF OpensFrame
<1>2. CASE GoesOn BY <1>2 DEF GoesOn, Awaited
<1>3. CASE \E p \in Handshakes : HandTimerFires(p) BY <1>3 DEF HandTimerFires, Settles
<1>4. CASE \E m \in toBridge : BridgeHears(m)
  <2>1. SandboxTypeOK'
    <3>1. PICK m \in toBridge : BridgeHears(m)
      BY <1>4
    <3>2. failShown' \in BOOLEAN
      BY <3>1 DEF BridgeHears
    <3>3. handPromises' \in [Handshakes -> PromiseStates]
      BY <3>1 DEF BridgeHears, Settles
    <3>4. handTimers' \subseteq Handshakes /\ toBridge' \subseteq toBridge
      BY <3>1 DEF BridgeHears
    <3> QED BY <3>1, <3>2, <3>3, <3>4 DEF BridgeHears
  <2>2. ToldOfPreview'
    BY <1>4 DEF BridgeHears, Settles, SandboxRequests, BridgeReports, RequestOf
  <2>3. FetchesAreUnderWay'
    BY <1>4 DEF BridgeHears, Settles, SandboxRequests, BridgeReports, RequestOf
  <2> QED BY <2>1, <2>2, <2>3
<1>5. CASE \E m \in toBridge : TakesRequest(m) BY <1>5 DEF TakesRequest, Receives, SandboxRequests, BridgeReports, RequestOf, Answer, FormsOfRequest, NoSlotFor
<1>6. CASE \E m \in served : ServerResponds(m) BY <1>6 DEF ServerResponds, SandboxRequests, RequestOf, Answer
<1>7. CASE FrameFails BY <1>7 DEF FrameFails, BridgeReports
<1>8. CASE ConnectsFirst BY <1>8 DEF ConnectsFirst, TakesPort
<1>9. CASE BridgeReady BY <1>9 DEF BridgeReady
<1>10. CASE OpensPreview BY <1>10 DEF OpensPreview, BridgeReports
<1>11. CASE ConnectsAgain BY <1>11 DEF ConnectsAgain, TakesPort
<1>12. CASE ReconnectFails
  <2>1. SandboxTypeOK'
    <3>1. toBridge' \subseteq SandboxRequests \cup BridgeReports
      BY <1>12 DEF ReconnectFails, BridgeReports
    <3> QED BY <1>12, <3>1 DEF ReconnectFails
  <2>2. ToldOfPreview'
    BY <1>12 DEF ReconnectFails, BridgeReports, RequestOf
  <2>3. FetchesAreUnderWay'
    BY <1>12 DEF ReconnectFails, BridgeReports, RequestOf
  <2> QED BY <2>1, <2>2, <2>3
<1>13. CASE \E a \in answers : RelaysAnswer(a)
  <2>1. SandboxTypeOK'
    BY <1>13 DEF RelaysAnswer
  <2>2. ToldOfPreview'
    BY <1>13 DEF RelaysAnswer
  <2>3. FetchesAreUnderWay'
    BY <1>13 DEF RelaysAnswer
  <2> QED BY <2>1, <2>2, <2>3
<1>14. CASE PreviewFetches
  <2>1. swNext \in 1 .. MaxFetches /\ swNext' \in 1 .. (MaxFetches + 1)
    <3>1. swNext \in 1 .. (MaxFetches + 1) /\ swNext <= MaxFetches /\ swNext' = swNext + 1
      BY <1>14 DEF PreviewFetches
    <3> QED BY <3>1, BoundsAreNumbers
  <2>2. RequestOf(swNext, swLife) \in SandboxRequests
    BY <2>1 DEF SandboxRequests, RequestOf
  <2>3. SandboxTypeOK'
    BY <1>14, <2>1, <2>2 DEF PreviewFetches, RequestOf
  <2>4. ToldOfPreview'
    BY <1>14 DEF PreviewFetches
  <2>5. FetchesAreUnderWay'
    BY <1>14 DEF PreviewFetches, RequestOf
  <2> QED BY <2>3, <2>4, <2>5
<1>15. CASE AsksForPort BY <1>15 DEF AsksForPort
<1>16. CASE PreviewLoads BY <1>16 DEF PreviewLoads, BridgeReports
<1>17. CASE BrowserStopsWorker
  <2>1. swLife' \in Lives /\ swNext' \in 1 .. (MaxFetches + 1)
    <3>1. swLife \in Lives /\ swLife <= MaxStops /\ swLife' = swLife + 1 /\ swNext' = 1
      BY <1>17 DEF BrowserStopsWorker
    <3> QED BY <3>1, BoundsAreNumbers DEF Lives
  <2>2. SandboxTypeOK'
    BY <1>17, <2>1 DEF BrowserStopsWorker
  <2>3. ToldOfPreview'
    BY <1>17 DEF BrowserStopsWorker
  <2>4. FetchesAreUnderWay'
    BY <1>17 DEF BrowserStopsWorker
  <2> QED BY <2>2, <2>3, <2>4
<1>18. CASE UNCHANGED sandboxVars BY <1>18 DEF sandboxVars
<1> QED BY <1>1, <1>2, <1>3, <1>4, <1>5, <1>6, <1>7, <1>8, <1>9, <1>10, <1>11, <1>12, <1>13, <1>14,
  <1>15, <1>16, <1>17, <1>18 DEF SandboxNext

\* For every set of bounds: the person's run waits for the preview, and every
\* fetch of the preview that waits is under way or was answered, across
\* restarts of the service worker (browser-sandbox-bridge.ts, sandbox/).
THEOREM SandboxSound == SandboxSpec => []SandboxIsSound
<1>1. SandboxSpec => []SandboxInv
  BY SandboxInitInv, SandboxStepInv, PTL DEF SandboxSpec
<1> QED BY <1>1, SandboxInvHolds, PTL

-----------------------------------------------------------------------------
\* The tokens of MCP servers.
CallRecord ==
  [at : {"idle", "lock", "joined", "refresh", "discover", "dialog", "save", "post", "over"},
   tab : McpTabs, forced : BOOLEAN, on : Preparers \cup {Nobody}, token : Tokens, wide : BOOLEAN,
   asked : BOOLEAN]

\* What others wait for goes on.
Waited(p) == Preparing(p) \/ call[p].at = "lock"

\* A call prepares a token while it has the lock; the person's sign-in has none.
LockIsPrepared ==
  /\ \A r \in McpRequests : Preparing(r) <=> holder = r
  /\ call["user"].at \notin {"lock", "joined", "post"}
  /\ ~overlapped => (Preparing("user") => holder = Nobody)

\* Whoever is joined goes on, and so does the preparation new calls join.
JoinedGoesOn ==
  /\ \A r \in McpRequests : call[r].at = "joined" => call[r].on \in Preparers /\ Waited(call[r].on)
  /\ \A page \in McpTabs : pendingOf[page] # Nobody => Waited(pendingOf[page])

\* What is stored is the newest, and what waits to be stored is not of the future.
StoredIsNewest ==
  /\ kept = NoToken => latest = 0
  /\ kept # NoToken => kept.n > 0 /\ kept.at = latest
  /\ kept.at <= second
  /\ \A p \in Preparers : call[p].at = "save" => call[p].token.n > 0 /\ call[p].token.at <= second

Unspent == provider.refresh \cup lostIn

\* While preparations do not overlap, the refresh token in the store or in use was not replaced by an
\* answer that came, unless its replacement waits to be stored.
UnspentIsKept ==
  /\ kept # NoToken => kept.n \in Unspent \/ \E p \in Preparers : call[p].at = "save"
  /\ \A p \in Preparers :
       /\ call[p].at = "refresh" => call[p].token.n \in Unspent
       /\ call[p].at = "save" => call[p].token.n \in Unspent /\ (kept # NoToken => kept.at <= call[p].token.at)
  /\ ~reused

Providers == [issued : 0 .. MaxIssued, refresh : SUBSET (1 .. MaxIssued), access : SUBSET (1 .. MaxIssued)]

\* The part of the invariant that is about who waits for whom.
Turns ==
  /\ call \in [Preparers -> CallRecord]
  /\ pendingOf \in [McpTabs -> Preparers \cup {Nobody}]
  /\ holder \in McpRequests \cup {Nobody}
  /\ LockIsPrepared /\ JoinedGoesOn

\* The types of what is neither a call nor a turn.
Books ==
  /\ scoped \subseteq McpTabs /\ anonymous \subseteq McpTabs
  /\ kept \in Tokens /\ provider \in Providers
  /\ second \in 0 .. MaxSeconds /\ latest \in 0 .. MaxSeconds
  /\ lostIn \subseteq 1 .. MaxIssued
  /\ reused \in BOOLEAN /\ overlapped \in BOOLEAN
  /\ spentAuth \in 0 .. MaxAuthFaults

\* The inductive invariant.
AuthInv == Turns /\ Books /\ StoredIsNewest /\ (~overlapped => UnspentIsKept)

LEMMA AuthNumbers ==
  /\ MaxIssued \in Nat \ {0} /\ MaxAuthFaults \in Nat /\ MaxSeconds \in Nat
  /\ "user" \notin McpRequests /\ Nobody \notin Preparers
BY McpAuthAssumption DEF Preparers, Nobody

LEMMA NoTokenTyped == NoToken \in Tokens
BY AuthNumbers DEF NoToken, Tokens

LEMMA NewCallTyped == NewCall \in CallRecord
BY NoTokenTyped DEF NewCall, CallRecord, McpTabs

\* The provider's new token.
LEMMA IssuedIsNew ==
  ASSUME provider \in Providers, NEW old, Issued(old)
  PROVE  /\ provider' \in Providers
         /\ provider.issued + 1 \in 1 .. MaxIssued
         /\ provider'.refresh = (provider.refresh \ old) \cup {provider.issued + 1}
<1>1. PICK n : n = provider.issued + 1
  OBVIOUS
<1>2. provider.issued \in 0 .. MaxIssued /\ provider.issued < MaxIssued
  BY DEF Issued, Providers
<1>3. n \in 1 .. MaxIssued
  BY <1>1, <1>2, AuthNumbers
<1>4. provider' = [issued |-> n, refresh |-> (provider.refresh \ old) \cup {n},
                   access |-> provider.access \cup {n}]
  BY <1>1 DEF Issued
<1>5. provider.refresh \in SUBSET (1 .. MaxIssued) /\ provider.access \in SUBSET (1 .. MaxIssued)
  BY DEF Providers
<1>6. n \in 0 .. MaxIssued
  BY <1>3
<1> QED BY <1>1, <1>3, <1>4, <1>5, <1>6 DEF Providers

\* A preparation ends: those that joined it go on, the lock is given back.
LEMMA ConcludesKeepsTurns ==
  ASSUME Turns, NEW p \in Preparers, Waited(p), NEW at \in {"post", "over"}, NEW token \in Tokens,
         Concludes(p, at, token), overlapped => overlapped'
  PROVE  /\ Turns'
         /\ \A q \in Preparers : q = p => call'[q].at \in {"post", "over"}
         /\ \A q \in Preparers : call'[q].at \in {"post", "over"} \/ call'[q] = call[q]
<1> DEFINE rec(q) == IF q = "user" \/ at = "over" THEN [NewCall EXCEPT !.at = "over"]
                     ELSE [NewCall EXCEPT !.at = at, !.tab = call[q].tab, !.token = token,
                                          !.forced = call[q].forced]
           goes(q) == q = p \/ (call[q].at = "joined" /\ call[q].on = p)
<1>1. \A q \in Preparers : rec(q) \in CallRecord /\ rec(q).at \in {"post", "over"}
                           /\ (q = "user" => rec(q).at = "over")
  BY NewCallTyped DEF Turns, CallRecord
<1>2. call' = [q \in Preparers |-> IF goes(q) THEN rec(q) ELSE call[q]]
  BY DEF Concludes
<1> HIDE DEF rec
<1>3. call' \in [Preparers -> CallRecord]
  BY <1>1, <1>2 DEF Turns
<1>4. \A q \in Preparers : IF goes(q) THEN call'[q].at \in {"post", "over"} /\ (q = "user" => call'[q].at = "over")
                           ELSE call'[q] = call[q]
  BY <1>1, <1>2
<1>5. pendingOf' = [page \in McpTabs |-> IF pendingOf[page] = p THEN Nobody ELSE pendingOf[page]]
      /\ holder' = IF holder = p THEN Nobody ELSE holder
  BY DEF Concludes
<1>6. pendingOf' \in [McpTabs -> Preparers \cup {Nobody}] /\ holder' \in McpRequests \cup {Nobody}
  BY <1>5 DEF Turns
<1>7. \A q \in Preparers : Preparing(q)' <=> Preparing(q) /\ q # p
  BY <1>4 DEF Preparing
<1>8. LockIsPrepared'
  BY <1>4, <1>5, <1>7, AuthNumbers DEF Turns, LockIsPrepared, Preparers
<1>9. JoinedGoesOn'
  BY <1>4, <1>5, <1>7, AuthNumbers DEF Turns, JoinedGoesOn, Waited, Preparing, Preparers
<1> QED BY <1>3, <1>4, <1>6, <1>8, <1>9 DEF Turns

\* A preparation goes on.
LEMMA PreparesOn ==
  ASSUME Turns, NEW p \in Preparers, Preparing(p), NEW rec \in CallRecord,
         rec.at \in {"refresh", "discover", "dialog", "save"},
         call' = [call EXCEPT ![p] = rec], UNCHANGED <<pendingOf, holder, overlapped>>
  PROVE  Turns'
<1>1. call' \in [Preparers -> CallRecord]
  BY DEF Turns
<1>2. \A q \in Preparers : IF q = p THEN call'[q] = rec ELSE call'[q] = call[q]
  BY DEF Turns
<1>3. \A q \in Preparers : Preparing(q)' <=> Preparing(q)
  BY <1>2 DEF Preparing
<1>4. LockIsPrepared'
  BY <1>2, <1>3, AuthNumbers DEF Turns, LockIsPrepared, Preparers
<1>5. \A q \in Preparers : Waited(q) => Waited(q)'
  BY <1>2, <1>3 DEF Waited
<1>6. \A q \in Preparers : call'[q].at = "joined" => q # p /\ call'[q] = call[q]
  BY <1>2
<1>7. JoinedGoesOn'
  BY <1>5, <1>6, AuthNumbers DEF Turns, JoinedGoesOn, Preparers
<1> QED BY <1>1, <1>4, <1>7 DEF Turns

\* One preparation at a time, unless they overlap.
LEMMA OneAtATime ==
  ASSUME Turns, ~overlapped, NEW p \in Preparers, NEW q \in Preparers, Preparing(p), Preparing(q)
  PROVE  p = q
BY AuthNumbers DEF Turns, LockIsPrepared, Preparers, Nobody

LEMMA FaultCounted ==
  ASSUME Books, GoesWrong PROVE spentAuth' \in 0 .. MaxAuthFaults
BY AuthNumbers DEF Books, GoesWrong

\* After a step that stores nothing and lets no new token come, and whose preparations go on or end.
LEMMA BooksKept ==
  ASSUME Turns, Turns', Books, StoredIsNewest, ~overlapped => UnspentIsKept,
         UNCHANGED <<kept, second, latest>>,
         reused' = reused \/ overlapped', overlapped => overlapped',
         Unspent \subseteq Unspent' \/ overlapped',
         \A q \in Preparers :
           /\ call'[q].at = "save" => call[q].at = "save" /\ call'[q].token = call[q].token
           /\ call[q].at = "save" => call'[q].at = "save"
           /\ call'[q].at = "refresh" =>
                \/ call[q].at = "refresh" /\ call'[q].token = call[q].token
                \/ kept # NoToken /\ call'[q].token = kept
                   /\ (overlapped' \/ \A r \in Preparers : call[r].at # "save")
  PROVE  StoredIsNewest' /\ (~overlapped' => UnspentIsKept')
<1>1. StoredIsNewest'
  BY DEF StoredIsNewest
<1>2. ~overlapped' => UnspentIsKept'
  BY DEF UnspentIsKept
<1> QED BY <1>1, <1>2

\* A call asks for a token.
LEMMA AsksKeepsInv ==
  ASSUME AuthInv, NEW r \in McpRequests, NEW page \in McpTabs, AsksToken(r, page)
  PROVE  AuthInv'
<1>1. Turns /\ Books /\ StoredIsNewest /\ (~overlapped => UnspentIsKept)
  BY DEF AuthInv
<1>2. r \in Preparers /\ r # "user" /\ r # Nobody
  BY AuthNumbers DEF Preparers
<1>3. PICK rec \in CallRecord :
        /\ rec.at \in {"post", "joined", "lock"}
        /\ call' = [call EXCEPT ![r] = rec]
        /\ rec.at = "joined" => pendingOf[page] # Nobody /\ rec.on = pendingOf[page]
        /\ rec.at # "lock" => pendingOf' = pendingOf
        /\ rec.at = "lock" => pendingOf' = [pendingOf EXCEPT ![page] = r]
  <2>1. CASE page \in anonymous
    <3>1. [call[r] EXCEPT !.at = "post", !.tab = page] \in CallRecord
      BY <1>1, <1>2 DEF Turns, CallRecord
    <3>2. call' = [call EXCEPT ![r] = [call[r] EXCEPT !.at = "post", !.tab = page]] /\ pendingOf' = pendingOf
      BY <1>1, <1>2, <2>1 DEF AsksToken, Turns
    <3>3. [call[r] EXCEPT !.at = "post", !.tab = page].at = "post"
      BY <1>1, <1>2 DEF Turns, CallRecord
    <3> QED BY <3>1, <3>2, <3>3
  <2>2. CASE page \notin anonymous /\ pendingOf[page] # Nobody
    BY <1>1, <1>2, <2>2 DEF AsksToken, Turns, CallRecord
  <2>3. CASE page \notin anonymous /\ pendingOf[page] = Nobody
    BY <1>1, <1>2, <2>3 DEF AsksToken, Turns, CallRecord
  <2> QED BY <2>1, <2>2, <2>3
<1>4. call[r].at = "idle" /\ UNCHANGED <<scoped, anonymous, holder, kept, provider, second, authHistory, spentAuth>>
  BY DEF AsksToken
<1>5. \A q \in Preparers : IF q = r THEN call'[q] = rec ELSE call'[q] = call[q]
  BY <1>1, <1>3 DEF Turns
<1>6. \A q \in Preparers : (Preparing(q)' <=> Preparing(q)) /\ (Waited(q) => Waited(q)')
  BY <1>3, <1>4, <1>5 DEF Preparing, Waited
<1>7. LockIsPrepared'
  BY <1>1, <1>2, <1>4, <1>5, <1>6, AuthNumbers DEF Turns, LockIsPrepared, Preparers, authHistory
<1>8. JoinedGoesOn'
  <2>1. \A q \in McpRequests : q # r => (call'[q].at = "joined" => call'[q].on \in Preparers /\ Waited(call[q].on)')
    BY <1>1, <1>2, <1>5, <1>6 DEF Turns, JoinedGoesOn, Preparers
  <2>2. call'[r].at = "joined" => call'[r].on \in Preparers /\ Waited(call[r].on)'
    BY <1>1, <1>2, <1>3, <1>5, <1>6 DEF Turns, JoinedGoesOn
  <2>3. rec.at = "lock" => Waited(r)'
    BY <1>2, <1>5 DEF Waited
  <2>4. \A other \in McpTabs : pendingOf'[other] # Nobody => Waited(pendingOf[other])'
    BY <1>1, <1>2, <1>3, <1>6, <2>3 DEF Turns, JoinedGoesOn
  <2> QED BY <2>1, <2>2, <2>4 DEF JoinedGoesOn
<1>9. Turns'
  BY <1>1, <1>2, <1>3, <1>4, <1>7, <1>8 DEF Turns
<1>10. Books' /\ Unspent' = Unspent
  BY <1>1, <1>4 DEF Books, Unspent, authHistory
<1>11. StoredIsNewest' /\ (~overlapped' => UnspentIsKept')
  BY <1>1, <1>3, <1>4, <1>5, <1>9, <1>10, BooksKept DEF authHistory
<1> QED BY <1>9, <1>10, <1>11 DEF AuthInv

\* A call that prepares nothing goes on.
LEMMA OwnStepKeepsTurns ==
  ASSUME Turns, NEW r \in McpRequests, call[r].at = "post",
         NEW rec \in CallRecord, rec.at \in {"lock", "over"}, call' = [call EXCEPT ![r] = rec],
         UNCHANGED <<holder, overlapped>>,
         \/ pendingOf' = pendingOf
         \/ rec.at = "lock" /\ pendingOf' = [pendingOf EXCEPT ![call[r].tab] = r]
  PROVE  Turns'
<1>1. r \in Preparers /\ r # "user" /\ r # Nobody
  BY AuthNumbers DEF Preparers
<1>2. call' \in [Preparers -> CallRecord]
  BY DEF Turns
<1>3. \A q \in Preparers : IF q = r THEN call'[q] = rec ELSE call'[q] = call[q]
  BY DEF Turns
<1>4. \A q \in Preparers : (Preparing(q)' <=> Preparing(q)) /\ (Waited(q) => Waited(q)')
  BY <1>3 DEF Preparing, Waited
<1>5. call[r].tab \in McpTabs
  BY <1>1 DEF Turns, CallRecord
<1>6. rec.at = "lock" => Waited(r)'
  BY <1>1, <1>3 DEF Waited
<1>7. LockIsPrepared'
  BY <1>1, <1>3, <1>4, AuthNumbers DEF Turns, LockIsPrepared, Preparers
<1>8. JoinedGoesOn'
  <2>1. \A q \in McpRequests : call'[q].at = "joined" => call'[q].on \in Preparers /\ Waited(call[q].on)'
    BY <1>1, <1>3, <1>4 DEF Turns, JoinedGoesOn, Preparers
  <2>2. \A page \in McpTabs : pendingOf'[page] # Nobody => Waited(pendingOf[page])'
    BY <1>1, <1>4, <1>5, <1>6 DEF Turns, JoinedGoesOn
  <2> QED BY <2>1, <2>2 DEF JoinedGoesOn
<1> QED BY <1>1, <1>2, <1>5, <1>7, <1>8 DEF Turns

\* The server answers a call, or refuses it once or twice.
LEMMA AnswersKeepAuth ==
  ASSUME AuthInv, NEW r \in McpRequests, GetsAnswer(r) \/ Denied(r) \/ DeniedAgain(r)
  PROVE  AuthInv'
<1>1. Turns /\ Books /\ StoredIsNewest /\ (~overlapped => UnspentIsKept)
  BY DEF AuthInv
<1>2. r \in Preparers
  BY DEF Preparers
<1>3. PICK rec \in CallRecord :
        /\ rec.at \in {"lock", "over"} /\ call' = [call EXCEPT ![r] = rec]
        /\ \/ pendingOf' = pendingOf
           \/ rec.at = "lock" /\ pendingOf' = [pendingOf EXCEPT ![call[r].tab] = r]
  <2>1. CASE GetsAnswer(r) \/ DeniedAgain(r)
    <3>1. [NewCall EXCEPT !.at = "over"] \in CallRecord /\ [NewCall EXCEPT !.at = "over"].at = "over"
      BY NewCallTyped DEF CallRecord
    <3> QED BY <2>1, <3>1 DEF GetsAnswer, DeniedAgain, tabVarsOf
  <2>2. CASE Denied(r)
    <3> DEFINE rec == [call[r] EXCEPT !.at = "lock", !.forced = TRUE, !.token = NoToken]
    <3>1. rec \in CallRecord /\ rec.at = "lock"
      BY <1>1, <1>2, NoTokenTyped DEF Turns, CallRecord
    <3>2. call' = [call EXCEPT ![r] = rec]
      BY <1>1, <1>2, <2>2 DEF Denied, Turns
    <3>3. pendingOf' = [pendingOf EXCEPT ![call[r].tab] = r]
      BY <2>2 DEF Denied
    <3> QED BY <3>1, <3>2, <3>3
  <2> QED BY <2>1, <2>2
<1>4. call[r].at = "post" /\ UNCHANGED <<holder, kept, provider, second, authHistory, spentAuth>>
  BY DEF GetsAnswer, Denied, DeniedAgain, tabVarsOf
<1>5. Turns'
  BY <1>1, <1>3, <1>4, OwnStepKeepsTurns DEF authHistory
<1>6. scoped' \subseteq McpTabs /\ anonymous' \subseteq McpTabs
  BY <1>1, <1>2 DEF GetsAnswer, Denied, DeniedAgain, tabVarsOf, Books, Turns, CallRecord
<1>7. Books' /\ Unspent' = Unspent
  BY <1>1, <1>4, <1>6 DEF Books, Unspent, authHistory
<1>8. \A q \in Preparers : IF q = r THEN call'[q] = rec ELSE call'[q] = call[q]
  BY <1>1, <1>3 DEF Turns
<1>9. StoredIsNewest' /\ (~overlapped' => UnspentIsKept')
  BY <1>1, <1>3, <1>4, <1>5, <1>7, <1>8, BooksKept DEF authHistory
<1> QED BY <1>5, <1>7, <1>9 DEF AuthInv

\* The first thing a preparation does when it does not end at once.
LEMMA LoadsBegins ==
  ASSUME call \in [Preparers -> CallRecord], kept \in Tokens, NEW p \in Preparers, NEW forced \in BOOLEAN,
         ~(Usable(kept) /\ ~forced), Loads(p, forced)
  PROVE  \E rec \in CallRecord :
           /\ rec.at \in {"refresh", "discover", "dialog"} /\ call' = [call EXCEPT ![p] = rec]
           /\ rec.at = "refresh" => kept # NoToken /\ rec.token = kept
<1>1. CASE kept # NoToken /\ ~NeedsScopes(p)
  <2> DEFINE rec == [call[p] EXCEPT !.at = "refresh", !.token = kept, !.forced = forced]
  <2>1. rec \in CallRecord /\ rec.at = "refresh" /\ rec.token = kept
    BY DEF CallRecord
  <2>2. call' = [call EXCEPT ![p] = rec]
    BY <1>1 DEF Loads
  <2> QED BY <1>1, <2>1, <2>2
<1>2. CASE kept # NoToken /\ NeedsScopes(p)
  <2>0. PICK wide \in BOOLEAN : wide = (call[p].tab \in scoped)
    <3>1. (call[p].tab \in scoped) \in BOOLEAN
      OBVIOUS
    <3> QED BY <3>1, Zenon
  <2> DEFINE rec == [call[p] EXCEPT !.forced = forced, !.at = "dialog", !.token = NoToken, !.wide = wide]
  <2>1. rec \in CallRecord /\ rec.at = "dialog"
    BY NoTokenTyped DEF CallRecord
  <2>2. call' = [call EXCEPT ![p] = rec]
    BY <1>2, <2>0 DEF Loads, Asking
  <2> QED BY <2>1, <2>2
<1>3. CASE kept = NoToken
  <2> DEFINE rec == [call[p] EXCEPT !.at = "discover", !.forced = forced]
  <2>1. rec \in CallRecord /\ rec.at = "discover"
    BY DEF CallRecord
  <2>2. call' = [call EXCEPT ![p] = rec]
    BY <1>3 DEF Loads
  <2> QED BY <2>1, <2>2
<1> QED BY <1>1, <1>2, <1>3

\* A call has its turn: it takes the stored token, or prepares a new one under the lock.
LEMMA LockKeepsAuth ==
  ASSUME AuthInv, NEW r \in McpRequests, TakesLock(r)
  PROVE  AuthInv'
<1>1. Turns /\ Books /\ StoredIsNewest /\ (~overlapped => UnspentIsKept)
  BY DEF AuthInv
<1>2. r \in Preparers /\ r # "user" /\ r # Nobody
  BY AuthNumbers DEF Preparers
<1>3. call[r].at = "lock" /\ holder = Nobody /\ ~Preparing(r) /\ Waited(r)
  BY DEF TakesLock, Waited, Preparing
<1>4. UNCHANGED <<scoped, anonymous, kept, provider, second, lostIn, reused, latest, spentAuth>>
  BY DEF TakesLock, HasLock
<1>5. overlapped' \in BOOLEAN /\ (overlapped => overlapped')
  BY <1>1 DEF TakesLock, HasLock, Books
<1>6. Books' /\ Unspent' = Unspent
  BY <1>1, <1>4, <1>5 DEF Books, Unspent
<1>7. CASE Usable(kept) /\ ~call[r].forced
  <2>1. Concludes(r, "post", kept)
    BY <1>7 DEF TakesLock, HasLock, Loads
  <2>2. /\ Turns'
        /\ \A q \in Preparers : call'[q].at \in {"post", "over"} \/ call'[q] = call[q]
        /\ \A q \in Preparers : q = r => call'[q].at \in {"post", "over"}
    BY <1>1, <1>2, <1>3, <1>5, <2>1, ConcludesKeepsTurns DEF Books
  <2>3. \A q \in Preparers : call[q].at = "save" => call'[q] = call[q]
    <3>1. ASSUME NEW q \in Preparers, call[q].at = "save" PROVE call'[q] = call[q]
      <4>1. q # r /\ call[q].at # "joined"
        BY <1>3, <3>1
      <4> QED BY <2>1, <4>1 DEF Concludes
    <3> QED BY <3>1
  <2>4. StoredIsNewest' /\ (~overlapped' => UnspentIsKept')
    BY <1>1, <1>4, <1>5, <1>6, <2>2, <2>3, BooksKept
  <2> QED BY <1>6, <2>2, <2>4 DEF AuthInv
<1>8. CASE ~(Usable(kept) /\ ~call[r].forced)
  <2>1. Loads(r, call[r].forced) /\ UNCHANGED pendingOf /\ holder' = r
    BY <1>8 DEF TakesLock, HasLock
  <2>2. call[r].forced \in BOOLEAN /\ call \in [Preparers -> CallRecord] /\ kept \in Tokens
    BY <1>1, <1>2 DEF Turns, Books, CallRecord
  <2>3. PICK rec \in CallRecord :
          /\ rec.at \in {"refresh", "discover", "dialog"} /\ call' = [call EXCEPT ![r] = rec]
          /\ rec.at = "refresh" => kept # NoToken /\ rec.token = kept
    BY <1>2, <1>8, <2>1, <2>2, LoadsBegins
  <2>4. Preparing("user") => overlapped'
    BY <1>8 DEF TakesLock, HasLock
  <2>5. \A q \in Preparers : IF q = r THEN call'[q] = rec ELSE call'[q] = call[q]
    BY <2>2, <2>3
  <2>6. \A q \in Preparers : Preparing(q)' <=> Preparing(q) \/ q = r
    BY <2>3, <2>5 DEF Preparing
  <2>7. \A q \in McpRequests : ~Preparing(q)
    BY <1>1, <1>3, AuthNumbers DEF Turns, LockIsPrepared, Preparers
  <2>8. LockIsPrepared'
    BY <1>1, <1>2, <2>1, <2>4, <2>5, <2>6, <2>7, AuthNumbers DEF Turns, LockIsPrepared, Preparers
  <2>9. \A q \in Preparers : Waited(q) => Waited(q)'
    BY <2>5, <2>6 DEF Waited
  <2>10. JoinedGoesOn'
    <3>1. \A q \in McpRequests : call'[q].at = "joined" => call'[q].on \in Preparers /\ Waited(call[q].on)'
      BY <1>1, <2>3, <2>5, <2>9 DEF Turns, JoinedGoesOn, Preparers
    <3>2. \A page \in McpTabs : pendingOf'[page] # Nobody => Waited(pendingOf[page])'
      BY <1>1, <2>1, <2>9 DEF Turns, JoinedGoesOn
    <3> QED BY <3>1, <3>2 DEF JoinedGoesOn
  <2>11. Turns'
    <3>1. call' \in [Preparers -> CallRecord]
      BY <2>2, <2>3
    <3> QED BY <1>1, <2>1, <2>8, <2>10, <3>1 DEF Turns
  <2>12. overlapped' \/ \A q \in Preparers : call[q].at # "save"
    BY <2>4, <2>7 DEF Preparing, Preparers
  <2>13. StoredIsNewest' /\ (~overlapped' => UnspentIsKept')
    <3>1. \A q \in Preparers :
             /\ call'[q].at = "save" => call[q].at = "save" /\ call'[q].token = call[q].token
             /\ call[q].at = "save" => call'[q].at = "save"
             /\ call'[q].at = "refresh" =>
                  \/ call[q].at = "refresh" /\ call'[q].token = call[q].token
                  \/ kept # NoToken /\ call'[q].token = kept
                     /\ (overlapped' \/ \A x \in Preparers : call[x].at # "save")
      BY <1>3, <2>3, <2>5, <2>12
    <3> QED BY <1>1, <1>4, <1>5, <1>6, <2>11, <3>1, BooksKept
  <2> QED BY <1>6, <2>11, <2>13 DEF AuthInv
<1> QED BY <1>7, <1>8

\* The person signs in, beside whatever goes on.
LEMMA ForceKeepsAuth ==
  ASSUME AuthInv, ForceReauth
  PROVE  AuthInv'
<1>1. Turns /\ Books /\ StoredIsNewest /\ (~overlapped => UnspentIsKept)
  BY DEF AuthInv
<1>2. "user" \in Preparers
  BY DEF Preparers
<1>3. call["user"].at = "idle" /\ UNCHANGED <<scoped, holder, kept, provider, second, lostIn, reused, latest, spentAuth>>
  BY DEF ForceReauth
<1>4. overlapped' \in BOOLEAN /\ (overlapped => overlapped') /\ anonymous' \subseteq McpTabs
  BY <1>1 DEF ForceReauth, Books
<1>5. Books' /\ Unspent' = Unspent
  BY <1>1, <1>3, <1>4 DEF Books, Unspent
<1>6. call \in [Preparers -> CallRecord] /\ kept \in Tokens
  BY <1>1 DEF Turns, Books
<1>7. PICK rec \in CallRecord :
        /\ rec.at \in {"refresh", "discover", "dialog"} /\ call' = [call EXCEPT !["user"] = rec]
        /\ rec.at = "refresh" => kept # NoToken /\ rec.token = kept
  BY <1>2, <1>6, LoadsBegins DEF ForceReauth
<1>8. \A q \in Preparers : IF q = "user" THEN call'[q] = rec ELSE call'[q] = call[q]
  BY <1>6, <1>7
<1>9. \A q \in Preparers : Preparing(q)' <=> Preparing(q) \/ q = "user"
  BY <1>7, <1>8 DEF Preparing
<1>10. (\E r \in McpRequests : Preparing(r)) => overlapped'
  BY DEF ForceReauth
<1>11. LockIsPrepared'
  BY <1>1, <1>2, <1>3, <1>4, <1>7, <1>8, <1>9, <1>10, AuthNumbers DEF Turns, LockIsPrepared, Preparers
<1>12. \A q \in Preparers : Waited(q) => Waited(q)'
  BY <1>8, <1>9 DEF Waited
<1>13. pendingOf' = [pendingOf EXCEPT !["here"] = "user"]
  BY DEF ForceReauth
<1>14. JoinedGoesOn'
  <2>1. \A q \in McpRequests : call'[q].at = "joined" => call'[q].on \in Preparers /\ Waited(call[q].on)'
    BY <1>1, <1>7, <1>8, <1>12 DEF Turns, JoinedGoesOn, Preparers
  <2>2. Waited("user")'
    BY <1>2, <1>9 DEF Waited
  <2>3. \A page \in McpTabs : pendingOf'[page] # Nobody => Waited(pendingOf[page])'
    BY <1>1, <1>12, <1>13, <2>2 DEF Turns, JoinedGoesOn, McpTabs
  <2> QED BY <2>1, <2>3 DEF JoinedGoesOn
<1>15. Turns'
  <2>1. call' \in [Preparers -> CallRecord]
    BY <1>6, <1>7
  <2>2. pendingOf' \in [McpTabs -> Preparers \cup {Nobody}]
    BY <1>1, <1>2, <1>13 DEF Turns
  <2> QED BY <1>1, <1>3, <1>11, <1>14, <2>1, <2>2 DEF Turns
<1>16. overlapped' \/ \A q \in Preparers : call[q].at # "save"
  BY <1>3, <1>10 DEF Preparing, Preparers
<1>17. StoredIsNewest' /\ (~overlapped' => UnspentIsKept')
  <2>1. \A q \in Preparers :
           /\ call'[q].at = "save" => call[q].at = "save" /\ call'[q].token = call[q].token
           /\ call[q].at = "save" => call'[q].at = "save"
           /\ call'[q].at = "refresh" =>
                \/ call[q].at = "refresh" /\ call'[q].token = call[q].token
                \/ kept # NoToken /\ call'[q].token = kept
                   /\ (overlapped' \/ \A x \in Preparers : call[x].at # "save")
    BY <1>3, <1>7, <1>8, <1>16
  <2> QED BY <1>1, <1>3, <1>4, <1>5, <1>15, <2>1, BooksKept
<1> QED BY <1>5, <1>15, <1>17 DEF AuthInv

\* A preparation asks the person, or ends, and no token has come.
LEMMA EndsOrAsks ==
  ASSUME AuthInv, NEW p \in Preparers, call[p].at \in {"lock", "refresh", "discover", "dialog"},
         \/ Preparing(p) /\ call' = Asking(call, p) /\ UNCHANGED <<pendingOf, holder>>
         \/ \E at \in {"post", "over"}, token \in Tokens : Concludes(p, at, token),
         UNCHANGED <<kept, second, latest, overlapped>>,
         Books', Unspent \subseteq Unspent' \/ overlapped', reused' = reused \/ overlapped'
  PROVE  AuthInv'
<1>1. Turns /\ Books /\ StoredIsNewest /\ (~overlapped => UnspentIsKept)
  BY DEF AuthInv
<1>2. CASE Preparing(p) /\ call' = Asking(call, p) /\ UNCHANGED <<pendingOf, holder>>
  <2>0. PICK wide \in BOOLEAN : wide = (call[p].tab \in scoped)
    <3>1. (call[p].tab \in scoped) \in BOOLEAN
      OBVIOUS
    <3> QED BY <3>1, Zenon
  <2> DEFINE rec == [call[p] EXCEPT !.at = "dialog", !.token = NoToken, !.wide = wide]
  <2>1. rec \in CallRecord /\ rec.at = "dialog"
    BY <1>1, NoTokenTyped DEF Turns, CallRecord
  <2>2. call' = [call EXCEPT ![p] = rec]
    BY <1>1, <1>2, <2>0 DEF Asking, Turns
  <2> HIDE DEF rec
  <2>3. Turns'
    BY <1>1, <1>2, <2>1, <2>2, PreparesOn
  <2>4. \A q \in Preparers : IF q = p THEN call'[q] = rec ELSE call'[q] = call[q]
    BY <1>1, <2>2 DEF Turns
  <2>5. \A q \in Preparers : q # p => call'[q] = call[q]
    BY <2>4
  <2>6. call'[p].at = "dialog"
    BY <2>1, <2>4
  <2>7. StoredIsNewest' /\ (~overlapped' => UnspentIsKept')
    BY <1>1, <2>3, <2>5, <2>6, BooksKept
  <2> QED BY <2>3, <2>7 DEF AuthInv
<1>3. ASSUME NEW at \in {"post", "over"}, NEW token \in Tokens, Concludes(p, at, token)
      PROVE  AuthInv'
  <2>1. Waited(p)
    BY DEF Waited, Preparing
  <2>2. /\ Turns'
        /\ \A q \in Preparers : call'[q].at \in {"post", "over"} \/ call'[q] = call[q]
    BY <1>1, <1>3, <2>1, ConcludesKeepsTurns
  <2>3. \A q \in Preparers : call[q].at = "save" => call'[q] = call[q]
    <3>1. ASSUME NEW q \in Preparers, call[q].at = "save" PROVE call'[q] = call[q]
      <4>1. q # p /\ call[q].at # "joined"
        BY <3>1
      <4> QED BY <1>3, <4>1 DEF Concludes
    <3> QED BY <3>1
  <2>4. StoredIsNewest' /\ (~overlapped' => UnspentIsKept')
    BY <1>1, <2>2, <2>3, BooksKept
  <2> QED BY <2>2, <2>4 DEF AuthInv
<1> QED BY <1>2, <1>3

\* A refresh that fails, a discovery, a dialog that fails and a call that is stopped end or ask.
LEMMA RefusedKeepsAuth ==
  ASSUME AuthInv, NEW p \in Preparers, RefreshRefused(p)
  PROVE  AuthInv'
<1>1. Turns /\ Books /\ StoredIsNewest /\ (~overlapped => UnspentIsKept)
  BY DEF AuthInv
<1>2. call[p].at = "refresh" /\ ~Good(p) /\ Preparing(p)
      /\ UNCHANGED <<scoped, anonymous, kept, provider, second, lostIn, latest, overlapped, spentAuth>>
  BY DEF RefreshRefused, Preparing
<1>3. call' = Asking(call, p) /\ UNCHANGED <<pendingOf, holder>>
  BY DEF RefreshRefused, RefreshFailed
<1>4. reused' \in BOOLEAN
  BY DEF RefreshRefused
<1>5. ~overlapped => reused' = reused
  <2>1. ~overlapped => call[p].token.n \in lostIn
    BY <1>1, <1>2 DEF UnspentIsKept, Unspent, Good
  <2>2. reused \in BOOLEAN
    BY <1>1 DEF Books
  <2> QED BY <2>1, <2>2 DEF RefreshRefused
<1>6. Books' /\ Unspent' = Unspent
  BY <1>1, <1>2, <1>4 DEF Books, Unspent
<1> QED BY <1>2, <1>3, <1>5, <1>6, EndsOrAsks

\* A token that is spent without an answer is lost, or nothing was spent.
LEMMA LostIsUnspent ==
  ASSUME AuthInv, NEW p \in Preparers,
         \/ UNCHANGED <<provider, lostIn>>
         \/ Good(p) /\ Issued({call[p].token.n}) /\ lostIn' = lostIn \cup {call[p].token.n}
  PROVE  provider' \in Providers /\ lostIn' \subseteq 1 .. MaxIssued /\ Unspent \subseteq Unspent'
<1>1. provider \in Providers /\ lostIn \subseteq 1 .. MaxIssued
  BY DEF AuthInv, Books
<1>2. CASE UNCHANGED <<provider, lostIn>>
  BY <1>1, <1>2 DEF Unspent
<1>3. CASE Good(p) /\ Issued({call[p].token.n}) /\ lostIn' = lostIn \cup {call[p].token.n}
  <2>1. provider' \in Providers
        /\ provider'.refresh = (provider.refresh \ {call[p].token.n}) \cup {provider.issued + 1}
    BY <1>1, <1>3, IssuedIsNew
  <2>2. call[p].token.n \in 1 .. MaxIssued
    BY <1>1, <1>3 DEF Good, Providers
  <2> QED BY <1>1, <1>3, <2>1, <2>2 DEF Unspent
<1> QED BY <1>2, <1>3

LEMMA EndsKeepAuth ==
  ASSUME AuthInv, NEW p \in Preparers,
         RefreshUnanswered(p) \/ Discovers(p) \/ DiscoversNothing(p) \/ DialogFails(p) \/ StopsCall(p)
  PROVE  AuthInv'
<1>1. Turns /\ Books
  BY DEF AuthInv
<1>2. /\ call[p].at \in {"lock", "refresh", "discover", "dialog"}
      /\ \/ Preparing(p) /\ call' = Asking(call, p) /\ UNCHANGED <<pendingOf, holder>>
         \/ \E at \in {"post", "over"}, token \in Tokens : Concludes(p, at, token)
  BY NoTokenTyped DEF RefreshUnanswered, Discovers, DiscoversNothing, DialogFails, StopsCall, RefreshFailed,
     GivesUp, Preparing, tabVarsOf
<1>3. UNCHANGED <<scoped, kept, second, latest, overlapped, reused>>
  BY DEF RefreshUnanswered, Discovers, DiscoversNothing, DialogFails, StopsCall, authHistory, tabVarsOf
<1>4. spentAuth' \in 0 .. MaxAuthFaults
  BY <1>1, FaultCounted DEF RefreshUnanswered, Discovers, DiscoversNothing, DialogFails, StopsCall, Books
<1>5. anonymous' \subseteq McpTabs
  <2>1. call[p].tab \in McpTabs
    BY <1>1 DEF Turns, CallRecord
  <2> QED BY <1>1, <2>1 DEF RefreshUnanswered, Discovers, DiscoversNothing, DialogFails, StopsCall, tabVarsOf, Books
<1>6. \/ UNCHANGED <<provider, lostIn>>
      \/ Good(p) /\ Issued({call[p].token.n}) /\ lostIn' = lostIn \cup {call[p].token.n}
  BY DEF RefreshUnanswered, Discovers, DiscoversNothing, DialogFails, StopsCall, authHistory
<1>7. provider' \in Providers /\ lostIn' \subseteq 1 .. MaxIssued /\ Unspent \subseteq Unspent'
  BY <1>6, LostIsUnspent
<1>8. Books'
  BY <1>1, <1>3, <1>4, <1>5, <1>7 DEF Books
<1> QED BY <1>2, <1>3, <1>7, <1>8, EndsOrAsks

\* A new token comes, by a refresh or from the person.
LEMMA TokensComeKeepsAuth ==
  ASSUME AuthInv, NEW p \in Preparers, RefreshAnswers(p) \/ PersonConsents(p)
  PROVE  AuthInv'
<1>1. Turns /\ Books /\ StoredIsNewest /\ (~overlapped => UnspentIsKept)
  BY DEF AuthInv
<1>2. PICK n : n = provider.issued + 1
  OBVIOUS
<1>3. PICK old \in {{}, {call[p].token.n}} :
        /\ Issued(old)
        /\ call[p].at \in {"refresh", "dialog"}
        /\ old # {} => call[p].at = "refresh"
  BY DEF RefreshAnswers, PersonConsents
<1>4. provider' \in Providers /\ n \in 1 .. MaxIssued /\ provider'.refresh = (provider.refresh \ old) \cup {n}
  BY <1>1, <1>2, <1>3, IssuedIsNew DEF Books
<1>5. PICK rec \in CallRecord :
        /\ rec.at = "save" /\ rec.token.n = n /\ rec.token.at = second
        /\ call' = [call EXCEPT ![p] = rec]
  <2>1. call[p] \in CallRecord /\ n \in 0 .. MaxIssued /\ second \in 0 .. MaxSeconds
    BY <1>1, <1>4 DEF Turns, Books
  <2>2. CASE RefreshAnswers(p)
    <3> DEFINE token == [call[p].token EXCEPT !.n = n, !.at = second, !.stale = FALSE]
               rec == [call[p] EXCEPT !.at = "save", !.token = token]
    <3>1. token \in Tokens /\ token.n = n /\ token.at = second
      BY <2>1 DEF CallRecord, Tokens
    <3>2. rec \in CallRecord /\ rec.at = "save" /\ rec.token = token
      BY <2>1, <3>1 DEF CallRecord
    <3>3. call' = [call EXCEPT ![p] = rec]
      BY <1>1, <1>2, <2>2 DEF RefreshAnswers, Turns
    <3> QED BY <3>1, <3>2, <3>3
  <2>3. CASE PersonConsents(p)
    <3> DEFINE token == [n |-> n, wide |-> call[p].wide, at |-> second, stale |-> FALSE]
               rec == [call[p] EXCEPT !.at = "save", !.asked = TRUE, !.token = token]
    <3>1. token \in Tokens /\ token.n = n /\ token.at = second
      BY <2>1 DEF CallRecord, Tokens
    <3>2. rec \in CallRecord /\ rec.at = "save" /\ rec.token = token
      BY <2>1, <3>1 DEF CallRecord
    <3>3. call' = [call EXCEPT ![p] = rec]
      BY <1>1, <1>2, <2>3 DEF PersonConsents, Turns
    <3> QED BY <3>1, <3>2, <3>3
  <2> QED BY <2>2, <2>3
<1>6. UNCHANGED <<tabVarsOf, kept, second, authHistory, spentAuth>> /\ Preparing(p)
  BY DEF RefreshAnswers, PersonConsents, Preparing
<1>7. Turns'
  BY <1>1, <1>5, <1>6, PreparesOn DEF tabVarsOf, authHistory
<1>8. Books'
  BY <1>1, <1>4, <1>6 DEF Books, tabVarsOf, authHistory
<1>9. \A q \in Preparers : IF q = p THEN call'[q] = rec ELSE call'[q] = call[q]
  BY <1>1, <1>5 DEF Turns
<1>10. StoredIsNewest'
  BY <1>1, <1>4, <1>5, <1>6, <1>9 DEF StoredIsNewest, Books, authHistory
<1>11. ASSUME ~overlapped' PROVE UnspentIsKept'
  <2>1. ~overlapped /\ UnspentIsKept
    BY <1>1, <1>6, <1>11 DEF authHistory
  <2>2. \A q \in Preparers : call'[q].at \in {"refresh", "save"} => q = p
    BY <1>1, <1>6, <1>9, <2>1, OneAtATime DEF Preparing
  <2>3. n \in Unspent'
    BY <1>4 DEF Unspent
  <2>4. call'[p] = rec
    BY <1>9
  <2>5. kept.at <= second
    BY <1>1 DEF StoredIsNewest
  <2> QED BY <1>5, <1>6, <2>1, <2>2, <2>3, <2>4, <2>5 DEF UnspentIsKept, authHistory
<1> QED BY <1>1, <1>7, <1>8, <1>10, <1>11 DEF AuthInv

\* A new token is stored, unless that of a later second is there.
LEMMA SavesKeepAuth ==
  ASSUME AuthInv, NEW p \in Preparers, Saves(p)
  PROVE  AuthInv'
<1>1. Turns /\ Books /\ StoredIsNewest /\ (~overlapped => UnspentIsKept)
  BY DEF AuthInv
<1>2. PICK token \in Tokens : token = call[p].token
  BY <1>1 DEF Turns, CallRecord
<1>3. /\ call[p].at = "save" /\ Preparing(p) /\ Waited(p)
      /\ kept' = IF kept # NoToken /\ kept.at > token.at THEN kept ELSE token
      /\ latest' = IF token.at > latest THEN token.at ELSE latest
      /\ Concludes(p, "post", token)
      /\ UNCHANGED <<anonymous, provider, second, lostIn, reused, overlapped, spentAuth>>
  BY <1>2 DEF Saves, Preparing, Waited
<1>4. /\ Turns'
      /\ \A q \in Preparers : q = p => call'[q].at \in {"post", "over"}
      /\ \A q \in Preparers : call'[q].at \in {"post", "over"} \/ call'[q] = call[q]
  BY <1>1, <1>3, ConcludesKeepsTurns
<1>5. kept \in Tokens /\ token.at \in 0 .. MaxSeconds /\ kept.at \in 0 .. MaxSeconds /\ latest \in 0 .. MaxSeconds
      /\ second \in 0 .. MaxSeconds /\ token.n \in 0 .. MaxIssued /\ kept.n \in 0 .. MaxIssued
  BY <1>1, <1>2 DEF Books, Tokens
<1>6. token.n > 0 /\ token.at <= second /\ token # NoToken
  BY <1>1, <1>2, <1>3 DEF StoredIsNewest, NoToken
<1>7. kept' \in Tokens /\ latest' \in 0 .. MaxSeconds
  BY <1>3, <1>5
<1>8. Books'
  <2>1. scoped' \subseteq McpTabs
    BY <1>1 DEF Saves, Books
  <2> QED BY <1>1, <1>3, <1>7, <2>1 DEF Books
<1>9. StoredIsNewest'
  <2>1. kept' # NoToken /\ kept'.n > 0 /\ kept'.at = latest'
    BY <1>1, <1>3, <1>5, <1>6 DEF StoredIsNewest, NoToken
  <2>2. kept'.at <= second'
    BY <1>1, <1>3, <1>5, <1>6 DEF StoredIsNewest
  <2>3. \A q \in Preparers : call'[q].at = "save" => call'[q].token.n > 0 /\ call'[q].token.at <= second'
    BY <1>1, <1>3, <1>4 DEF StoredIsNewest
  <2> QED BY <2>1, <2>2, <2>3 DEF StoredIsNewest
<1>10. ASSUME ~overlapped' PROVE UnspentIsKept'
  <2>1. ~overlapped /\ UnspentIsKept
    BY <1>1, <1>3, <1>10
  <2>2. \A q \in Preparers : call'[q].at \notin {"refresh", "save"}
    BY <1>1, <1>3, <1>4, <2>1, OneAtATime DEF Preparing
  <2>3. kept' = token
    BY <1>2, <1>3, <1>5, <2>1 DEF UnspentIsKept
  <2>4. token.n \in Unspent
    BY <1>2, <1>3, <2>1 DEF UnspentIsKept
  <2>5. Unspent' = Unspent
    BY <1>3 DEF Unspent
  <2> QED BY <1>3, <2>1, <2>2, <2>3, <2>4, <2>5 DEF UnspentIsKept
<1> QED BY <1>1, <1>4, <1>8, <1>9, <1>10 DEF AuthInv

\* The stored token ends, or time passes.
LEMMA TimeKeepsAuth ==
  ASSUME AuthInv, SecondPasses \/ \E ranOut \in BOOLEAN : TokenEnds(ranOut)
  PROVE  AuthInv'
<1>1. Turns /\ Books /\ StoredIsNewest /\ (~overlapped => UnspentIsKept)
  BY DEF AuthInv
<1>2. Turns'
  BY <1>1 DEF SecondPasses, TokenEnds, tabVarsOf, authHistory, Turns, LockIsPrepared, JoinedGoesOn, Waited, Preparing
<1>3. CASE SecondPasses
  <2>1. second \in 0 .. MaxSeconds /\ second' = second + 1 /\ second < MaxSeconds
    BY <1>1, <1>3 DEF SecondPasses, Books
  <2>2. second' \in 0 .. MaxSeconds /\ second <= second'
    BY <2>1, AuthNumbers
  <2>3. UNCHANGED <<call, tabVarsOf, kept, provider, authHistory, spentAuth>>
    BY <1>3 DEF SecondPasses
  <2>4. Books'
    BY <1>1, <2>2, <2>3 DEF Books, tabVarsOf, authHistory
  <2>5. kept.at \in 0 .. MaxSeconds /\ \A q \in Preparers : call[q].token.at \in 0 .. MaxSeconds
    BY <1>1 DEF Books, Turns, CallRecord, Tokens
  <2>6. StoredIsNewest'
    BY <1>1, <2>1, <2>2, <2>3, <2>5 DEF StoredIsNewest, authHistory
  <2>7. ~overlapped' => UnspentIsKept'
    BY <1>1, <2>3 DEF UnspentIsKept, Unspent, authHistory
  <2> QED BY <1>2, <2>4, <2>6, <2>7 DEF AuthInv
<1>4. ASSUME NEW ranOut \in BOOLEAN, TokenEnds(ranOut)
      PROVE  AuthInv'
  <2>1. kept # NoToken /\ kept' = [kept EXCEPT !.stale = ranOut]
        /\ provider' = [provider EXCEPT !.access = @ \ {kept.n}]
        /\ UNCHANGED <<call, tabVarsOf, second, authHistory>>
    BY <1>4 DEF TokenEnds, Usable
  <2>2. kept' \in Tokens /\ kept'.n = kept.n /\ kept'.at = kept.at
    BY <1>1, <2>1 DEF Books, Tokens
  <2>3. provider' \in Providers /\ provider'.refresh = provider.refresh
    BY <1>1, <2>1 DEF Books, Providers
  <2>4. spentAuth' \in 0 .. MaxAuthFaults
    BY <1>1, <1>4, FaultCounted DEF TokenEnds
  <2>5. Books'
    BY <1>1, <2>1, <2>2, <2>3, <2>4 DEF Books, tabVarsOf, authHistory
  <2>6. kept' # NoToken
    BY <1>1, <2>1, <2>2 DEF StoredIsNewest, NoToken, Books, Tokens
  <2>7. StoredIsNewest'
    BY <1>1, <2>1, <2>2, <2>6 DEF StoredIsNewest, authHistory
  <2>8. ~overlapped' => UnspentIsKept'
    BY <1>1, <2>1, <2>2, <2>3, <2>6 DEF UnspentIsKept, Unspent, authHistory
  <2> QED BY <1>2, <2>5, <2>7, <2>8 DEF AuthInv
<1> QED BY <1>3, <1>4

LEMMA AuthInitInv == McpAuthInit => AuthInv
<1> SUFFICES ASSUME McpAuthInit PROVE AuthInv
  OBVIOUS
<1>1. \A q \in Preparers : call[q] = NewCall
  BY DEF McpAuthInit
<1>2. NewCall.at = "idle"
  BY DEF NewCall
<1>3. Turns
  <2>1. call \in [Preparers -> CallRecord] /\ pendingOf \in [McpTabs -> Preparers \cup {Nobody}]
    BY NewCallTyped DEF McpAuthInit
  <2>2. LockIsPrepared
    BY <1>1, <1>2, AuthNumbers DEF McpAuthInit, LockIsPrepared, Preparing, Preparers
  <2>3. JoinedGoesOn
    BY <1>1, <1>2 DEF McpAuthInit, JoinedGoesOn, Preparers
  <2> QED BY <2>1, <2>2, <2>3 DEF Turns, McpAuthInit
<1>4. Books /\ StoredIsNewest /\ UnspentIsKept
  <2> DEFINE rest == /\ second \in 0 .. MaxSeconds /\ latest \in 0 .. MaxSeconds
                     /\ lostIn \subseteq 1 .. MaxIssued /\ spentAuth \in 0 .. MaxAuthFaults
  <2>0. rest
    BY AuthNumbers DEF McpAuthInit
  <2>1. CASE kept = NoToken /\ provider = [issued |-> 0, refresh |-> {}, access |-> {}]
    <3>1. provider \in Providers /\ kept.at = 0
      BY <2>1, AuthNumbers DEF Providers, NoToken
    <3>2. Books
      BY <2>0, <2>1, <3>1, NoTokenTyped DEF McpAuthInit, Books
    <3>3. StoredIsNewest
      BY <1>1, <1>2, <2>1, <3>1 DEF McpAuthInit, StoredIsNewest
    <3>4. UnspentIsKept
      BY <1>1, <1>2, <2>1 DEF McpAuthInit, UnspentIsKept
    <3> QED BY <3>2, <3>3, <3>4
  <2>2. CASE kept = [n |-> 1, wide |-> FALSE, at |-> 0, stale |-> TRUE]
             /\ provider = [issued |-> 1, refresh |-> {1}, access |-> {}]
    <3>1. provider \in Providers /\ kept \in Tokens
      BY <2>2, AuthNumbers DEF Providers, Tokens
    <3>2. Books
      BY <2>0, <2>2, <3>1 DEF McpAuthInit, Books
    <3>3. StoredIsNewest
      BY <1>1, <1>2, <2>2 DEF McpAuthInit, StoredIsNewest, NoToken
    <3>4. UnspentIsKept
      BY <1>1, <1>2, <2>2 DEF McpAuthInit, UnspentIsKept, Unspent
    <3> QED BY <3>2, <3>3, <3>4
  <2> QED BY <2>1, <2>2 DEF McpAuthInit
<1> QED BY <1>3, <1>4 DEF AuthInv

LEMMA AuthStepInv == AuthInv /\ [McpAuthNext]_mcpAuthVars => AuthInv'
<1> SUFFICES ASSUME AuthInv, [McpAuthNext]_mcpAuthVars PROVE AuthInv'
  OBVIOUS
<1>1. CASE \E r \in McpRequests, page \in McpTabs : AsksToken(r, page)
  BY <1>1, AsksKeepsInv
<1>2. CASE \E r \in McpRequests : TakesLock(r) \/ GetsAnswer(r) \/ Denied(r) \/ DeniedAgain(r)
  BY <1>2, LockKeepsAuth, AnswersKeepAuth
<1>3. CASE \E p \in Preparers : Prepares(p)
  BY <1>3, TokensComeKeepsAuth, RefusedKeepsAuth, EndsKeepAuth, SavesKeepAuth DEF Prepares
<1>4. CASE ForceReauth
  BY <1>4, ForceKeepsAuth
<1>5. CASE SecondPasses \/ \E ranOut \in BOOLEAN : TokenEnds(ranOut)
  BY <1>5, TimeKeepsAuth
<1>6. CASE UNCHANGED mcpAuthVars
  BY <1>6 DEF mcpAuthVars, tabVarsOf, authHistory, AuthInv, Turns, LockIsPrepared, JoinedGoesOn, Waited, Preparing,
     Books, StoredIsNewest, UnspentIsKept, Unspent
<1> QED BY <1>1, <1>2, <1>3, <1>4, <1>5, <1>6 DEF McpAuthNext

LEMMA AuthInvHolds ==
  ASSUME AuthInv PROVE McpAuthTypeOK /\ TokensComeInTurn
<1>1. Turns /\ Books /\ StoredIsNewest /\ (~overlapped => UnspentIsKept)
  BY DEF AuthInv
<1>2. McpAuthTypeOK
  BY <1>1 DEF Turns, Books, McpAuthTypeOK, CallRecord, Providers
<1>3. RefreshTokensUsedOnce /\ StoreKeepsNewest
  BY <1>1 DEF RefreshTokensUsedOnce, StoreKeepsNewest, UnspentIsKept, StoredIsNewest
<1>4. OneDialog
  BY <1>1, OneAtATime DEF OneDialog, Preparing
<1>5. WaitsForSomething
  BY <1>1, AuthNumbers DEF Turns, LockIsPrepared, JoinedGoesOn, Waited, WaitsForSomething
<1> QED BY <1>2, <1>3, <1>4, <1>5 DEF TokensComeInTurn

\* For any calls and tokens: while preparations do not overlap a refresh token is
\* used once and one dialog is open, the store keeps the newest token, and who
\* waits waits for something that goes on (grok-build-mcp-oauth.ts).
THEOREM TokensTakeTurns == McpAuthSpec => []TokensComeInTurn
<1>1. McpAuthSpec => []AuthInv
  BY AuthInitInv, AuthStepInv, PTL DEF McpAuthSpec
<1> QED BY <1>1, AuthInvHolds, PTL

-----------------------------------------------------------------------------
\* The three side by side.
\* The sum's invariant: the one of the part that moves.
KeptInv ==
  /\ part \in {"project", "tokens", "preview"}
  /\ part = "project" => StoreInv
  /\ part = "tokens" => AuthInv
  /\ part = "preview" => SandboxInv

LEMMA KeptInvHolds == KeptSpec => []KeptInv
<1>1. KeptInit => KeptInv
  BY InitStoreInv, AuthInitInv, SandboxInitInv DEF KeptInit, KeptInv
<1>2. KeptInv /\ [KeptNext]_<<part, storeVars, mcpAuthVars, sandboxVars>> => KeptInv'
  <2> SUFFICES ASSUME KeptInv, [KeptNext]_<<part, storeVars, mcpAuthVars, sandboxVars>>
               PROVE  KeptInv'
    OBVIOUS
  <2>1. part' = part /\ part \in {"project", "tokens", "preview"}
    BY DEF KeptInv, KeptNext, Stores, Authorizes, Previews
  <2>2. CASE part = "project"
    <3>1. [StoreNext]_storeVars
      BY <2>2 DEF KeptNext, Stores, Authorizes, Previews
    <3> QED BY <2>1, <2>2, <3>1, NextStoreInv DEF KeptInv
  <2>3. CASE part = "tokens"
    <3>1. [McpAuthNext]_mcpAuthVars
      BY <2>3 DEF KeptNext, Stores, Authorizes, Previews
    <3> QED BY <2>1, <2>3, <3>1, AuthStepInv DEF KeptInv
  <2>4. CASE part = "preview"
    <3>1. [SandboxNext]_sandboxVars
      BY <2>4 DEF KeptNext, Stores, Authorizes, Previews
    <3> QED BY <2>1, <2>4, <3>1, SandboxStepInv DEF KeptInv
  <2> QED BY <2>1, <2>2, <2>3, <2>4
<1> QED BY <1>1, <1>2, PTL DEF KeptSpec

\* For every instance the three components keep their types.
THEOREM KeptTypeCorrect == KeptSpec => []KeptTypeOK
<1>1. KeptInv => KeptTypeOK
  <2> SUFFICES ASSUME KeptInv PROVE KeptTypeOK
    OBVIOUS
  <2>1. CASE part = "project" BY <2>1 DEF KeptInv, KeptTypeOK, StoreInv
  <2>2. CASE part = "tokens" BY <2>2, AuthInvHolds DEF KeptInv, KeptTypeOK
  <2>3. CASE part = "preview" BY <2>3 DEF KeptInv, KeptTypeOK, SandboxInv
  <2> QED BY <2>1, <2>2, <2>3 DEF KeptInv
<1> QED BY <1>1, KeptInvHolds, PTL

\* For every instance: tabs spend a refresh token once and ask the person once
\* (grok-build-mcp-oauth.ts), and frame and page lose none of each other's
\* messages (browser-sandbox-bridge.ts).
THEOREM SharedAgrees == KeptSpec => []TabsAndFramesAgree
<1>1. KeptInv => TabsAndFramesAgree
  BY AuthInvHolds, SandboxInvHolds DEF KeptInv, TabsAndFramesAgree
<1> QED BY <1>1, KeptInvHolds, PTL
=============================================================================
