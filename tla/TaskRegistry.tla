----------------------------- MODULE TaskRegistry -----------------------------
(***************************************************************************)
(* Background commands, monitors and subagents: the registry of a session  *)
(* (grok-build-background-tasks.ts), the reminders that tell its agent     *)
(* what ended (grok-build-runtime.ts), the admission of subagents          *)
(* (grok-build-subagent-admission.ts) and their runs                       *)
(* (grok-build-subagent-runner.ts).                                        *)
(*                                                                         *)
(* "root" is the session of the person, "child" that of one subagent,      *)
(* whose running commands move to the root when it ends.  A task's end     *)
(* (finish) and the handler that announces it are two microtasks.          *)
(***************************************************************************)
EXTENDS Naturals, FiniteSets, Sequences, SequencesExt

CONSTANTS
  Commands, Monitors, Subagents,  \* the tasks of each kind
  MaxConcurrent,                  \* admission's limit, 32 in the code
  MaxStarted                      \* bound on the tasks of a behaviour

Tasks == Commands \cup Monitors \cup Subagents

ASSUME RegistryAssumption ==
  /\ MaxConcurrent \in Nat \ {0}
  /\ MaxStarted \in Nat
  /\ Commands \cap Monitors = {} /\ (Commands \cup Monitors) \cap Subagents = {}

VARIABLES
  status,        \* per task, what the registry says: none | running | how it ended
  process,       \* per task: none | launching | queued | active | over (announced: told)
  killed,        \* tasks the agent killed (explicitlyCancelled)
  timedOut,      \* tasks whose time ran out while they were running
  starter,       \* per task, the session that created it
  owner,         \* per task, the session whose registry holds it
  reminders,     \* per session, what its agent has still to be told
  readOutputs,   \* per session, ended tasks whose output its agent has read
  childLives,    \* whether the child session still runs
  admitted,      \* the queue of admission
  resumable,     \* subagents whose stored session is complete
  announced      \* history: ends a reminder of which an agent has been given

processes == <<process, admitted, resumable>>
registryVars == <<status, processes, killed, timedOut, starter, owner, reminders,
                  readOutputs, childLives, announced>>

Sessions == {"root", "child"}
EndStates == {"completed", "failed", "cancelled", "timed_out"}
Reminder == [task: Tasks, about: {"event", "end"}]

RegistryTypeOK ==
  /\ status \in [Tasks -> {"none", "running"} \cup EndStates]
  /\ process \in [Tasks -> {"none", "launching", "queued", "active", "over", "told"}]
  /\ killed \cup timedOut \cup announced \subseteq Tasks
  /\ starter \in [Tasks -> Sessions] /\ owner \in [Tasks -> Sessions]
  /\ reminders \in [Sessions -> SUBSET Reminder]
  /\ readOutputs \in [Sessions -> SUBSET Tasks]
  /\ childLives \in BOOLEAN
  /\ admitted \in Seq(Subagents)
  /\ resumable \subseteq Subagents

RegistryInit ==
  /\ status = [t \in Tasks |-> "none"]
  /\ process = [t \in Tasks |-> "none"]
  /\ killed = {} /\ timedOut = {} /\ announced = {} /\ resumable = {}
  /\ starter = [t \in Tasks |-> "root"]
  /\ owner = [t \in Tasks |-> "root"]
  /\ reminders = [s \in Sessions |-> {}]
  /\ readOutputs = [s \in Sessions |-> {}]
  /\ childLives = TRUE
  /\ admitted = <<>>

-----------------------------------------------------------------------------
Live(s) == s = "root" \/ childLives
Active == {t \in Subagents : process[t] = "active"}

\* createCommand, and createExternal, which starts its work in a later task.
StartTask(t, s) ==
  /\ Live(s)
  /\ status[t] = "none"
  /\ Cardinality({u \in Tasks : status[u] # "none"}) < MaxStarted
  /\ t \in Subagents => s = "root"
  /\ status' = [status EXCEPT ![t] = "running"]
  /\ process' = [process EXCEPT ![t] = IF t \in Subagents THEN "launching" ELSE "active"]
  /\ starter' = [starter EXCEPT ![t] = s]
  /\ owner' = [owner EXCEPT ![t] = s]
  /\ UNCHANGED <<killed, timedOut, reminders, readOutputs, childLives, admitted, resumable,
                 announced>>

\* run of the admission: rejected if already cancelled, started, or queued.
Launch(t) ==
  /\ process[t] = "launching"
  /\ \/ t \in killed /\ process' = [process EXCEPT ![t] = "over"] /\ UNCHANGED admitted
     \/ /\ t \notin killed
        /\ Cardinality(Active) < MaxConcurrent
        /\ process' = [process EXCEPT ![t] = "active"]
        /\ UNCHANGED admitted
     \/ /\ t \notin killed
        /\ Cardinality(Active) >= MaxConcurrent
        /\ process' = [process EXCEPT ![t] = "queued"]
        /\ admitted' = Append(admitted, t)
  /\ UNCHANGED <<status, killed, timedOut, starter, owner, reminders, readOutputs,
                 childLives, resumable, announced>>

\* kill: cancelled at once; a queued subagent leaves the queue, a running process ends later.
Kill(t) ==
  /\ status[t] = "running"
  /\ Live(owner[t])
  /\ killed' = killed \cup {t}
  /\ status' = [status EXCEPT ![t] = "cancelled"]
  /\ admitted' = RemoveFirst(admitted, t)
  /\ process' = [process EXCEPT ![t] = IF @ = "queued" THEN "over" ELSE @]
  /\ UNCHANGED <<timedOut, starter, owner, reminders, readOutputs, childLives, resumable,
                 announced>>

\* The timer of a command given a time.
TimeOut(t) ==
  /\ t \notin Subagents
  /\ status[t] = "running"
  /\ process[t] = "active"
  /\ timedOut' = timedOut \cup {t}
  /\ UNCHANGED <<status, processes, killed, starter, owner, reminders, readOutputs,
                 childLives, announced>>

\* finish: a kill stands whatever the process did, and so does a time that ran out.
EndedAs(t, end) ==
  IF t \in killed THEN "cancelled" ELSE IF t \in timedOut THEN "timed_out" ELSE end

\* start's finally of the admission, forgetting those that wait.
FreedOnly(t) ==
  /\ process' = [process EXCEPT ![t] = "over"]
  /\ UNCHANGED admitted

\* start's finally of the admission: the slot goes to the first that waits.
Freed(t) ==
  IF t \in Subagents /\ admitted # <<>>
  THEN /\ process' = [process EXCEPT ![t] = "over", ![Head(admitted)] = "active"]
       /\ admitted' = Tail(admitted)
  ELSE FreedOnly(t)

\* A process ends, and with it the run of a subagent: its stored session is complete unless
\* it was aborted, when it counts as running for good.
ProcessEnds(t) ==
  /\ process[t] = "active"
  /\ \E end \in {"completed", "failed"} : status' = [status EXCEPT ![t] = EndedAs(t, end)]
  /\ resumable' = IF t \in Subagents \ killed THEN resumable \cup {t} ELSE resumable
  /\ Freed(t)
  /\ UNCHANGED <<killed, timedOut, starter, owner, reminders, readOutputs, childLives,
                 announced>>

-----------------------------------------------------------------------------
\* watchBackgroundCompletion, watchSubagentCompletion and the end of a monitor: a reminder
\* for the session the task belongs to by now, unless it was killed or (but for a monitor)
\* its starter's agent read the output.  A monitor's end drops its events still untold.
AnnounceTo(t, s) ==
  reminders' =
    [reminders EXCEPT ![s] =
       {r \in @ : t \notin Monitors \/ r.task # t} \cup {[task |-> t, about |-> "end"]}]

AnnounceToStarter(t) == AnnounceTo(t, starter[t])
AnnounceToOwner(t) == AnnounceTo(t, owner[t])

Announce(t) ==
  /\ process[t] = "over"
  /\ process' = [process EXCEPT ![t] = "told"]
  /\ IF t \in killed \/ (t \notin Monitors /\ t \in readOutputs[starter[t]])
     THEN UNCHANGED reminders
     ELSE AnnounceToOwner(t)
  /\ UNCHANGED <<status, killed, timedOut, starter, owner, readOutputs, childLives, admitted,
                 resumable, announced>>

\* A line of a monitor's output (reminderSink).
MonitorEvent(t) ==
  /\ t \in Monitors
  /\ process[t] = "active"
  /\ reminders' = [reminders EXCEPT ![owner[t]] = @ \cup {[task |-> t, about |-> "event"]}]
  /\ UNCHANGED <<status, processes, killed, timedOut, starter, owner, readOutputs, childLives,
                 announced>>

\* drainSystemReminders before a sample, of everything or of the monitors' events only, and
\* takeSystemReminders for a synthetic turn about one task's end.
Give(s, given) ==
  /\ given # {}
  /\ reminders' = [reminders EXCEPT ![s] = @ \ given]
  /\ announced' = announced \cup {r.task : r \in {g \in given : g.about = "end"}}
  /\ UNCHANGED <<status, processes, killed, timedOut, starter, owner, readOutputs, childLives>>

DrainReminders(s) ==
  /\ Live(s)
  /\ \/ Give(s, reminders[s])
     \/ Give(s, {r \in reminders[s] : r.about = "event"})

TakeReminders(t) == Give("root", {r \in reminders["root"] : r.task = t /\ r.about = "end"})

\* What reading the output of ended tasks forgets, leaving their reminders.
ReadOnly(s, t) == UNCHANGED reminders

\* getTaskOutput of an ended task: its reminders are withdrawn.
ReadAndForget(s, t) ==
  reminders' = [reminders EXCEPT ![s] = {r \in @ : r.task # t}]

GetOutput(s, t) ==
  /\ Live(s)
  /\ owner[t] = s
  /\ status[t] \in EndStates
  /\ readOutputs' = [readOutputs EXCEPT ![s] = @ \cup {t}]
  /\ ReadAndForget(s, t)
  /\ UNCHANGED <<status, processes, killed, timedOut, starter, owner, childLives, announced>>

\* The child's teardown: reparentBackgroundTasksTo moves what is still running, and what the
\* child had not been told is lost with it.
ChildSessionEnds ==
  /\ childLives
  /\ childLives' = FALSE
  /\ owner' = [t \in Tasks |-> IF t \notin Subagents /\ status[t] = "running"
                               THEN "root" ELSE owner[t]]
  /\ UNCHANGED <<status, processes, killed, timedOut, starter, reminders, readOutputs,
                 announced>>

RegistryNext ==
  \/ \E t \in Tasks, s \in Sessions : StartTask(t, s) \/ GetOutput(s, t)
  \/ \E t \in Tasks : \/ Launch(t)
                      \/ Kill(t)
                      \/ TimeOut(t)
                      \/ ProcessEnds(t)
                      \/ Announce(t)
                      \/ MonitorEvent(t)
                      \/ TakeReminders(t)
  \/ \E s \in Sessions : DrainReminders(s)
  \/ ChildSessionEnds

RegistrySpec == RegistryInit /\ [][RegistryNext]_registryVars

-----------------------------------------------------------------------------
\* The root's agent learns how each of its tasks ended that nobody killed, also of those a
\* child left it: the end was announced, waits to be, or its output was read (finish,
\* reparentBackgroundTasksTo, reminderSink, getTaskOutput).
EveryEndIsTold ==
  \A t \in Tasks :
    (process[t] = "told" /\ owner[t] = "root" /\ t \notin killed) =>
      \/ t \in announced \cup UNION {readOutputs[s] : s \in Sessions}
      \/ [task |-> t, about |-> "end"] \in reminders["root"]

\* What an agent has read is not announced to it afterwards.  Left out are monitors, whose
\* end is always announced, and tasks that moved, whose watcher asks the child's records.
ReadEndIsNotAnnounced ==
  \A t \in Tasks \ Monitors :
    t \in readOutputs[owner[t]] /\ owner[t] = starter[t] =>
      [task |-> t, about |-> "end"] \notin reminders[owner[t]]

\* Admission wastes no slot and gives none twice: a subagent waits only while the limit is
\* reached, and the queue is exactly those that wait (run, start, drain, abort).
AdmissionIsFull ==
  /\ Cardinality(Active) <= MaxConcurrent
  /\ admitted # <<>> => Cardinality(Active) = MaxConcurrent
  /\ ToSet(admitted) = {t \in Subagents : process[t] = "queued"}
  /\ IsInjective(admitted)
=============================================================================
