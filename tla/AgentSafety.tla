------------------------------ MODULE AgentSafety ------------------------------
(***************************************************************************)
(* Proofs about the components the browser agent is made of, each for any  *)
(* values of its constants: its scheduler (Scheduler), the registry of its *)
(* tasks (TaskRegistry), its workflows (Workflows), the loop of a session  *)
(* (AgentLoop), the gate of its tool calls (ToolGate), its subagents'      *)
(* tools (SubagentRuns), its telemetry (Telemetry), the development relay  *)
(* (DevRelay) and both ends of the messenger (PhoneLink, Messenger).  The  *)
(* components share no variable; MCAgents puts them side by side.          *)
(* The types of the three with the longest invariants follow at the end.   *)
(***************************************************************************)
EXTENDS MCAgents, Integers, SequenceTheorems, FiniteSetTheorems, WellFoundedInduction, TLAPS

(***************************************************************************)
(* The scheduler                                                           *)
(***************************************************************************)

\* Identifiers are not reused: what is known of a task, in memory, in the file or as a
\* removal, is of one that was handed out.
KnownIds ==
  /\ DOMAIN schedTasks \cup DOMAIN schedFile \cup gone \subseteq usedIds
  /\ {removal, expiring} \subseteq usedIds \cup {NoSchedule}
  /\ usedIds \subseteq ScheduleIds
  /\ attempt # "none" => removal # NoSchedule

\* A task that is being removed is not in memory, and when its consumer is asked it is not
\* in the file any more, so that nothing brings it back once it is accepted.
RemovedIsOut ==
  /\ removal \notin DOMAIN schedTasks
  /\ attempt = "barrier" => removal \notin DOMAIN schedFile
  /\ expiring \notin DOMAIN schedTasks \cup DOMAIN schedFile

\* The inductive invariant of the scheduler.
RemovalInv == KnownIds /\ RemovedIsOut /\ RemovalIsFinal

\* What put, drop, update and the file do to the tasks that there are.
LEMMA TaskDomains ==
  /\ \A tasks, t, entry : DOMAIN Put(tasks, t, entry) = DOMAIN tasks \cup {t}
  /\ \A tasks, t : DOMAIN Drop(tasks, t) = DOMAIN tasks \ {t}
  /\ \A tasks : DOMAIN Stored(tasks) = DOMAIN tasks
  /\ \A tasks, t, entry : DOMAIN [tasks EXCEPT ![t] = entry] = DOMAIN tasks
  BY DEF Put, Drop, Stored

\* A step that writes what is in memory, or nothing, and brings nothing into memory but
\* a new task.
LEMMA WritesKeepRemovals ==
  ASSUME RemovalInv,
         NEW t \in ScheduleIds,
         \/ DOMAIN schedTasks' \subseteq DOMAIN schedTasks /\ usedIds' = usedIds
         \/ /\ DOMAIN schedTasks' = DOMAIN schedTasks \cup {t}
            /\ t \notin usedIds
            /\ usedIds' = usedIds \cup {t},
         DOMAIN schedFile' \in {DOMAIN schedTasks', DOMAIN schedFile},
         UNCHANGED <<removal, expiring, attempt, gone>>
  PROVE  RemovalInv'
  BY SchedulerAssumption DEF RemovalInv, KnownIds, RemovedIsOut, RemovalIsFinal

\* Every step keeps the invariant.
LEMMA RemovalStep ==
  ASSUME RemovalInv, SchedulerNext
  PROVE  RemovalInv'
<1> USE SchedulerAssumption
<1>1. ASSUME NEW t \in ScheduleIds, Elapse(t) \/ ChildEnds(t)
      PROVE  RemovalInv'
  <2>1. /\ DOMAIN schedTasks' = DOMAIN schedTasks
        /\ UNCHANGED <<schedFile, removal, expiring, attempt, gone, usedIds>>
    BY <1>1, TaskDomains DEF Elapse, ChildEnds
  <2> QED
    BY <2>1, WritesKeepRemovals
<1>2. ASSUME NEW t \in ScheduleIds, Create(t)
      PROVE  RemovalInv'
  <2>1. UNCHANGED <<removal, expiring, attempt, gone>> /\ usedIds' = usedIds \cup {t}
    BY <1>2 DEF Create
  <2>2. \/ t \notin usedIds /\ DOMAIN schedTasks' = DOMAIN schedTasks \cup {t}
        \/ t \in DOMAIN schedTasks /\ DOMAIN schedTasks' = DOMAIN schedTasks
    <3>1. PICK prompt \in Prompts, flag \in BOOLEAN :
            \/ t \notin usedIds /\ schedTasks' = Put(schedTasks, t, NewTask(prompt, flag))
            \/ /\ t \in DOMAIN schedTasks
               /\ schedTasks' = [schedTasks EXCEPT ![t] = UpdatedTask(schedTasks[t], prompt, flag)]
      BY <1>2 DEF Create
    <3>2. PICK new : new = NewTask(prompt, flag)
      OBVIOUS
    <3>3. PICK updated : updated = UpdatedTask(schedTasks[t], prompt, flag)
      OBVIOUS
    <3>4. \/ t \notin usedIds /\ schedTasks' = Put(schedTasks, t, new)
          \/ t \in DOMAIN schedTasks /\ schedTasks' = [schedTasks EXCEPT ![t] = updated]
      BY <3>1, <3>2, <3>3
    <3>5. DOMAIN Put(schedTasks, t, new) = DOMAIN schedTasks \cup {t}
      BY TaskDomains
    <3>6. DOMAIN [schedTasks EXCEPT ![t] = updated] = DOMAIN schedTasks
      BY TaskDomains
    <3> QED
      BY <3>4, <3>5, <3>6
  <2>3. DOMAIN schedFile' \in {DOMAIN schedTasks', DOMAIN schedFile}
    BY <1>2, TaskDomains DEF Create, Persisted, PersistFails
  <2>4. t \in DOMAIN schedTasks => usedIds' = usedIds
    BY <2>1 DEF RemovalInv, KnownIds
  <2> QED
    BY <2>1, <2>2, <2>3, <2>4, WritesKeepRemovals
<1>3. ASSUME NEW t \in ScheduleIds, Delete(t)
      PROVE  RemovalInv'
  <2>1. /\ DOMAIN schedTasks' = DOMAIN schedTasks \ {t} /\ t \in DOMAIN schedTasks
        /\ removal' = t /\ attempt' = "started"
        /\ UNCHANGED <<schedFile, expiring, gone, usedIds>>
    BY <1>3, TaskDomains DEF Delete
  <2> QED
    BY <2>1 DEF RemovalInv, KnownIds, RemovedIsOut, RemovalIsFinal
<1>4. ASSUME NEW t \in ScheduleIds, DeleteAgain(t)
      PROVE  RemovalInv'
  BY <1>4 DEF DeleteAgain, RemovalInv, KnownIds, RemovedIsOut, RemovalIsFinal
<1>5. CASE PerformRemoval
  <2>1. /\ attempt # "none" /\ UNCHANGED <<schedTasks, removal, expiring, gone, usedIds>>
        /\ \/ DOMAIN schedFile' = DOMAIN schedTasks
           \/ schedFile' = schedFile /\ attempt' = "none"
    BY <1>5, TaskDomains DEF PerformRemoval, Persisted, PersistFails
  <2> QED
    BY <2>1 DEF RemovalInv, KnownIds, RemovedIsOut, RemovalIsFinal
<1>6. CASE RemovalAccepted \/ RemovalRefused
  BY <1>6
     DEF RemovalAccepted, RemovalRefused, RemovalInv, KnownIds, RemovedIsOut, RemovalIsFinal
<1>7. CASE TimerFires
  BY <1>7 DEF TimerFires, RemovalInv, KnownIds, RemovedIsOut, RemovalIsFinal
<1>8. CASE LoopTurn
  <2>1. ASSUME NEW t \in ScheduleIds, Fire(t)
        PROVE  RemovalInv'
    <3>1. DOMAIN schedTasks' = DOMAIN schedTasks
      BY <2>1, TaskDomains DEF Fire
    <3>2. DOMAIN schedFile' \in {DOMAIN schedTasks', DOMAIN schedFile}
      BY <2>1, TaskDomains DEF Fire, Persisted, PersistFails
    <3>3. UNCHANGED <<removal, expiring, attempt, gone, usedIds>>
      BY <1>8, <2>1 DEF LoopTurn, Fire
    <3> QED
      BY <3>1, <3>2, <3>3, WritesKeepRemovals
  <2>2. ASSUME NEW t \in ScheduleIds, Expire(t)
        PROVE  RemovalInv'
    <3>1. t \in DOMAIN schedTasks /\ UNCHANGED <<removal, attempt, gone, usedIds>>
      BY <1>8, <2>2 DEF LoopTurn, Expire, OwedTasks
    <3>2. CASE /\ DOMAIN schedTasks' = DOMAIN schedTasks \ {t}
               /\ expiring' = IF t \in DurableIds THEN t ELSE NoSchedule
               /\ \/ DOMAIN schedFile' = DOMAIN schedTasks'
                  \/ t \notin DurableIds /\ schedFile' = schedFile
      BY <3>1, <3>2 DEF RemovalInv, KnownIds, RemovedIsOut, RemovalIsFinal
    <3>3. CASE UNCHANGED <<schedTasks, expiring, schedFile>>
      BY <3>1, <3>3 DEF RemovalInv, KnownIds, RemovedIsOut, RemovalIsFinal
    <3> QED
      BY <2>2, <3>2, <3>3, TaskDomains DEF Expire, Persisted, PersistFails
  <2>3. ASSUME UNCHANGED <<schedTasks, schedFile, expiring, gone>>
        PROVE  RemovalInv'
    BY <1>8, <2>3 DEF LoopTurn, RemovalInv, KnownIds, RemovedIsOut, RemovalIsFinal
  <2> QED
    BY <1>8, <2>1, <2>2, <2>3 DEF LoopTurn
<1>9. CASE LoopResumes
  BY <1>9 DEF LoopResumes, RemovalInv, KnownIds, RemovedIsOut, RemovalIsFinal
<1>10. CASE SchedulerRestarts
  BY <1>10 DEF SchedulerRestarts, RemovalInv, KnownIds, RemovedIsOut, RemovalIsFinal
<1> QED
  BY <1>1, <1>2, <1>3, <1>4, <1>5, <1>6, <1>7, <1>8, <1>9, <1>10 DEF SchedulerNext

\* However writes fail, consumers refuse and pages restart, a task whose removal was
\* accepted is in neither memory nor the file (grok-build-scheduler.ts delete, expireTask,
\* restore).
THEOREM RemovalsAreFinal == SchedulerSpec => []RemovalIsFinal
<1>1. SchedulerInit => RemovalInv
  BY SchedulerAssumption
     DEF SchedulerInit, NoTasks, RemovalInv, KnownIds, RemovedIsOut, RemovalIsFinal
<1>2. RemovalInv /\ [SchedulerNext]_schedulerVars => RemovalInv'
  <2>1. ASSUME RemovalInv, UNCHANGED schedulerVars
        PROVE  RemovalInv'
    BY <2>1 DEF schedulerVars, RemovalInv, KnownIds, RemovedIsOut, RemovalIsFinal
  <2> QED
    BY <2>1, RemovalStep
<1>3. RemovalInv => RemovalIsFinal
  BY DEF RemovalInv
<1> QED
  BY <1>1, <1>2, <1>3, PTL DEF SchedulerSpec


-----------------------------------------------------------------------------
(***************************************************************************)
(* The registry of tasks                                                   *)
(***************************************************************************)

\* The types of what the registry records of tasks and sessions.
RecordsTyped ==
  /\ status \in [Tasks -> {"none", "running"} \cup EndStates]
  /\ process \in [Tasks -> {"none", "launching", "queued", "active", "over", "told"}]
  /\ starter \in [Tasks -> Sessions] /\ owner \in [Tasks -> Sessions]
  /\ reminders \in [Sessions -> SUBSET Reminder]
  /\ readOutputs \in [Sessions -> SUBSET Tasks]

\* A task that was killed has ended, and one that is running has work that has not: so a
\* task whose end was announced is not moved to another session.
StatusFollows ==
  \A t \in Tasks :
    /\ t \in killed => status[t] \in EndStates
    /\ status[t] = "running" => process[t] \notin {"over", "told"}

EndReminder(t) == [task |-> t, about |-> "end"]

\* Somebody knows how t ended, or its reminder waits for the root's agent.
EndKnown(t) ==
  \/ t \in announced
  \/ \E s \in Sessions : t \in readOutputs[s]
  \/ EndReminder(t) \in reminders["root"]

\* The inductive invariant of the registry.
RegistryInv ==
  /\ RecordsTyped
  /\ StatusFollows
  /\ \A t \in Tasks : process[t] = "told" /\ owner[t] = "root" /\ t \notin killed => EndKnown(t)

\* A step that announces no end, moves no ended task and withdraws only reminders of ends
\* that are known otherwise.
LEMMA KnownStays ==
  ASSUME RegistryInv, RecordsTyped', StatusFollows',
         \A t \in Tasks : process'[t] = "told" /\ owner'[t] = "root" /\ t \notin killed' =>
           /\ process[t] = "told" /\ owner[t] = "root" /\ t \notin killed
           /\ EndReminder(t) \in reminders["root"] => EndKnown(t)',
         announced \subseteq announced',
         \A s \in Sessions : readOutputs[s] \subseteq readOutputs'[s]
  PROVE  RegistryInv'
<1> SUFFICES ASSUME NEW t \in Tasks,
                    process'[t] = "told" /\ owner'[t] = "root" /\ t \notin killed'
             PROVE  EndKnown(t)'
  BY DEF RegistryInv
<1>1. EndKnown(t)
  BY DEF RegistryInv
<1> QED
  BY <1>1 DEF EndKnown

\* Starting, launching, killing and timing tasks out.
LEMMA TaskStepKeepsInv ==
  ASSUME RegistryInv, NEW t \in Tasks,
         (\E s \in Sessions : StartTask(t, s)) \/ Launch(t) \/ Kill(t) \/ TimeOut(t)
  PROVE  RegistryInv'
<1> USE DEF RegistryInv
<1>1. ASSUME NEW s \in Sessions, StartTask(t, s)
      PROVE  RegistryInv'
  <2>1. RecordsTyped' /\ StatusFollows'
    BY <1>1 DEF StartTask, RecordsTyped, StatusFollows, EndStates
  <2>2. UNCHANGED <<killed, reminders, readOutputs, announced>>
    BY <1>1 DEF StartTask
  <2>3. /\ process'[t] # "told"
        /\ \A u \in Tasks \ {t} : process'[u] = process[u] /\ owner'[u] = owner[u]
    BY <1>1 DEF StartTask, RecordsTyped
  <2> QED
    BY <2>1, <2>2, <2>3 DEF EndKnown
<1>2. ASSUME Launch(t)
      PROVE  RegistryInv'
  <2>1. RecordsTyped' /\ StatusFollows'
    BY <1>2 DEF Launch, RecordsTyped, StatusFollows, EndStates
  <2>2. UNCHANGED <<killed, reminders, readOutputs, announced, owner>>
    BY <1>2 DEF Launch
  <2>3. process'[t] # "told" /\ \A u \in Tasks \ {t} : process'[u] = process[u]
    BY <1>2 DEF Launch, RecordsTyped
  <2> QED
    BY <2>1, <2>2, <2>3 DEF EndKnown
<1>3. ASSUME Kill(t)
      PROVE  RegistryInv'
  <2>1. RecordsTyped' /\ StatusFollows'
    BY <1>3 DEF Kill, RecordsTyped, StatusFollows, EndStates
  <2>2. UNCHANGED <<reminders, readOutputs, announced, owner>> /\ killed' = killed \cup {t}
    BY <1>3 DEF Kill
  <2>3. \A u \in Tasks \ {t} : process'[u] = process[u]
    BY <1>3 DEF Kill, RecordsTyped
  <2> QED
    BY <2>1, <2>2, <2>3 DEF EndKnown
<1>4. ASSUME TimeOut(t)
      PROVE  RegistryInv'
  <2>1. UNCHANGED <<status, process, killed, starter, owner, reminders, readOutputs, announced>>
    BY <1>4 DEF TimeOut, processes
  <2> QED
    BY <2>1 DEF RecordsTyped, StatusFollows, EndKnown
<1> QED
  BY <1>1, <1>2, <1>3, <1>4

\* The end of a task's work, and of what waits for its slot.
LEMMA EndStepKeepsInv ==
  ASSUME RegistryInv, NEW t \in Tasks, ProcessEnds(t)
  PROVE  RegistryInv'
<1> USE DEF RegistryInv
<1>1. PICK next : process' \in {[process EXCEPT ![t] = "over"],
                                [process EXCEPT ![t] = "over", ![next] = "active"]}
  BY DEF ProcessEnds, Freed, FreedOnly
<1>2. PICK end \in {"completed", "failed"} : status' = [status EXCEPT ![t] = EndedAs(t, end)]
  BY DEF ProcessEnds
<1>3. EndedAs(t, end) \in EndStates
  BY DEF EndedAs, EndStates
<1>4. UNCHANGED <<killed, starter, owner, reminders, readOutputs, announced>>
  BY DEF ProcessEnds
<1>5. \A u \in Tasks : /\ process'[u] \in {"over", "active", process[u]}
                       /\ u # t => process'[u] \in {"active", process[u]}
  BY <1>1 DEF RecordsTyped
<1>6. process' \in [Tasks -> {"none", "launching", "queued", "active", "over", "told"}]
  BY <1>1 DEF RecordsTyped
<1>7. RecordsTyped' /\ StatusFollows'
  BY <1>2, <1>3, <1>4, <1>5, <1>6 DEF RecordsTyped, StatusFollows, EndStates
<1> QED
  BY <1>4, <1>5, <1>7 DEF EndKnown

\* What is announced, given to an agent and read.
LEMMA ReminderStepKeepsInv ==
  ASSUME RegistryInv,
         \/ \E t \in Tasks : Announce(t) \/ MonitorEvent(t) \/ TakeReminders(t)
         \/ \E t \in Tasks, s \in Sessions : GetOutput(s, t)
         \/ \E s \in Sessions : DrainReminders(s)
  PROVE  RegistryInv'
<1> USE DEF RegistryInv
<1>1. ASSUME NEW t \in Tasks, Announce(t)
      PROVE  RegistryInv'
  <2>1. /\ UNCHANGED <<status, killed, starter, owner, readOutputs, announced>>
        /\ process' = [process EXCEPT ![t] = "told"] /\ process[t] = "over"
    BY <1>1 DEF Announce
  <2>2. StatusFollows'
    BY <2>1 DEF StatusFollows, RecordsTyped
  <2>3. CASE /\ reminders' = reminders
             /\ t \in killed \/ \E s \in Sessions : t \in readOutputs[s]
    <3>1. RecordsTyped'
      BY <2>1, <2>3 DEF RecordsTyped
    <3> QED
      BY <2>1, <2>2, <2>3, <3>1 DEF EndKnown, RecordsTyped
  <2>4. CASE AnnounceTo(t, owner[t])
    <3> DEFINE s == owner[t]
    <3>1. EndReminder(t) \in Reminder /\ s \in Sessions
      BY DEF EndReminder, Reminder, RecordsTyped
    <3>2. PICK others \in SUBSET reminders[s] :
            /\ reminders' = [reminders EXCEPT ![s] = others \cup {EndReminder(t)}]
            /\ \A u \in Tasks \ {t} : EndReminder(u) \in reminders[s] => EndReminder(u) \in others
      <4>1. \A u : EndReminder(u).task = u
        BY DEF EndReminder
      <4>2. PICK others : others = {r \in reminders[s] : t \notin Monitors \/ r.task # t}
        OBVIOUS
      <4>3. reminders' = [reminders EXCEPT ![s] = others \cup {EndReminder(t)}]
        BY <2>4, <4>2 DEF AnnounceTo, EndReminder
      <4> QED
        BY <4>1, <4>2, <4>3
    <3>3. RecordsTyped'
      BY <2>1, <3>1, <3>2 DEF RecordsTyped
    <3>4. \A u \in Tasks \ {t} :
            EndReminder(u) \in reminders["root"] => EndReminder(u) \in reminders'["root"]
      BY <3>2 DEF RecordsTyped, Sessions
    <3>5. owner[t] = "root" => EndReminder(t) \in reminders'["root"]
      BY <3>1, <3>2 DEF RecordsTyped
    <3> QED
      BY <2>1, <2>2, <3>3, <3>4, <3>5 DEF EndKnown, RecordsTyped
  <2> QED
    BY <1>1, <2>3, <2>4 DEF Announce, AnnounceToOwner, RecordsTyped
<1>2. ASSUME NEW t \in Tasks, MonitorEvent(t)
      PROVE  RegistryInv'
  <2>1. /\ UNCHANGED <<status, process, killed, starter, owner, readOutputs, announced>>
        /\ reminders' = [reminders EXCEPT ![owner[t]] = @ \cup {[task |-> t, about |-> "event"]}]
    BY <1>2 DEF MonitorEvent, processes
  <2>2. [task |-> t, about |-> "event"] \in Reminder
    BY DEF Reminder
  <2>3. RecordsTyped' /\ reminders["root"] \subseteq reminders'["root"]
    BY <2>1, <2>2 DEF RecordsTyped, Sessions
  <2> QED
    BY <2>1, <2>3 DEF StatusFollows, EndKnown
<1>3. ASSUME NEW s \in Sessions, NEW given \in SUBSET reminders[s], Give(s, given)
      PROVE  RegistryInv'
  <2>1. /\ UNCHANGED <<status, process, killed, starter, owner, readOutputs>>
        /\ reminders' = [reminders EXCEPT ![s] = @ \ given]
        /\ announced' = announced \cup {r.task : r \in {g \in given : g.about = "end"}}
    BY <1>3 DEF Give, processes
  <2>2. RecordsTyped' /\ StatusFollows'
    BY <2>1 DEF RecordsTyped, StatusFollows
  <2>3. ASSUME NEW t \in Tasks, EndReminder(t) \in reminders["root"]
        PROVE  EndKnown(t)'
    <3>1. CASE EndReminder(t) \in given
      <4>1. EndReminder(t).task = t /\ EndReminder(t).about = "end"
        BY DEF EndReminder
      <4> QED
        BY <2>1, <3>1, <4>1 DEF EndKnown
    <3>2. CASE EndReminder(t) \notin given
      BY <2>1, <2>3, <3>2 DEF EndKnown, RecordsTyped, Sessions
    <3> QED
      BY <3>1, <3>2
  <2> QED
    BY <2>1, <2>2, <2>3, KnownStays
<1>4. ASSUME NEW t \in Tasks, TakeReminders(t)
      PROVE  RegistryInv'
  BY <1>3, <1>4 DEF TakeReminders, Sessions
<1>5. ASSUME NEW s \in Sessions, DrainReminders(s)
      PROVE  RegistryInv'
  BY <1>3, <1>5 DEF DrainReminders
<1>6. ASSUME NEW t \in Tasks, NEW s \in Sessions, GetOutput(s, t)
      PROVE  RegistryInv'
  <2>1. /\ UNCHANGED <<status, process, killed, starter, owner, announced>>
        /\ readOutputs' = [readOutputs EXCEPT ![s] = @ \cup {t}]
        /\ reminders' = [reminders EXCEPT ![s] = {r \in @ : r.task # t}]
    BY <1>6 DEF GetOutput, ReadAndForget, processes
  <2>2. RecordsTyped' /\ StatusFollows'
    BY <2>1 DEF RecordsTyped, StatusFollows
  <2>3. ASSUME NEW u \in Tasks, EndReminder(u) \in reminders["root"]
        PROVE  EndKnown(u)'
    <3>1. CASE u = t
      BY <2>1, <3>1 DEF EndKnown, RecordsTyped
    <3>2. CASE u # t
      <4>1. EndReminder(u).task = u
        BY DEF EndReminder
      <4> QED
        BY <2>1, <2>3, <3>2, <4>1 DEF EndKnown, RecordsTyped, Sessions
    <3> QED
      BY <3>1, <3>2
  <2>4. \A r \in Sessions : readOutputs[r] \subseteq readOutputs'[r]
    BY <2>1 DEF RecordsTyped
  <2> QED
    BY <2>1, <2>2, <2>3, <2>4, KnownStays
<1> QED
  BY <1>1, <1>2, <1>4, <1>5, <1>6

\* A child that ends leaves the root what still runs, and nothing whose end was announced.
LEMMA ChildEndKeepsInv ==
  ASSUME RegistryInv, ChildSessionEnds
  PROVE  RegistryInv'
<1> USE DEF RegistryInv
<1>1. /\ UNCHANGED <<status, process, killed, starter, reminders, readOutputs, announced>>
      /\ owner' = [t \in Tasks |-> IF t \notin Subagents /\ status[t] = "running"
                                   THEN "root" ELSE owner[t]]
  BY DEF ChildSessionEnds, processes
<1>2. RecordsTyped' /\ StatusFollows'
  BY <1>1 DEF RecordsTyped, StatusFollows, Sessions
<1>3. \A t \in Tasks : process[t] = "told" => owner'[t] = owner[t]
  BY <1>1 DEF StatusFollows
<1> QED
  BY <1>1, <1>2, <1>3 DEF EndKnown

\* The root's agent learns how each of its tasks ended that nobody killed, in any order of
\* ends, announcements, reads, reminders and the end of the child that started them
\* (grok-build-background-tasks.ts finish, reparentBackgroundTasksTo, getTaskOutput).
THEOREM EndsAreTold == RegistrySpec => []EveryEndIsTold
<1>1. RegistryInit => RegistryInv
  BY DEF RegistryInit, RegistryInv, RecordsTyped, StatusFollows, Sessions, EndStates
<1>2. RegistryInv /\ [RegistryNext]_registryVars => RegistryInv'
  <2>1. ASSUME RegistryInv, UNCHANGED registryVars
        PROVE  RegistryInv'
    BY <2>1
       DEF registryVars, processes, RegistryInv, RecordsTyped, StatusFollows, EndKnown
  <2> QED
    BY <2>1, TaskStepKeepsInv, EndStepKeepsInv, ReminderStepKeepsInv, ChildEndKeepsInv
       DEF RegistryNext
<1>3. RegistryInv => EveryEndIsTold
  BY DEF RegistryInv, EveryEndIsTold, EndKnown, EndReminder
<1> QED
  BY <1>1, <1>2, <1>3, PTL DEF RegistrySpec


-----------------------------------------------------------------------------
(***************************************************************************)
(* Workflows                                                               *)
(***************************************************************************)

Journal == Seq(AgentResults)
Drivers == 1 .. MaxDrivers

RunRecord == [known: BOOLEAN, epoch: Nat, resumable: BOOLEAN, budget: Nat,
              outcome: {"none", "interrupted"} \cup Outcomes]
ManifestRecord == [status: {"absent", "active", "interrupted"} \cup Outcomes, budget: Nat]
DriverRecord == [pc: {"off", "ready", "calling"}, journal: Journal, aborted: BOOLEAN]

\* The types of the run, its files and its drivers, with journals of any length.
RunTyped ==
  /\ wfRun \in RunRecord
  /\ wfManifest \in ManifestRecord
  /\ wfFile \in Journal
  /\ wfDriver \in [Drivers -> DriverRecord]

\* g drives the script and nobody has told it to stop.
Driving(g) == wfDriver[g].pc # "off" /\ ~wfDriver[g].aborted

\* At most one driver was not told to stop: that of the run's epoch, while the run cannot
\* be resumed, and it goes by the journal that is in the file.
OneDrives ==
  \A g \in Drivers : Driving(g) =>
    /\ wfRun.known /\ wfRun.epoch = g /\ ~wfRun.resumable
    /\ wfDriver[g].journal = wfFile

\* The journals in memory and in the file are one.
OneJournal == wfMemory \in {<<>>, <<wfFile>>}

\* What an agent answered stays in the journal, where the script finds it.
KeptInJournal == \A k \in wfKept : k \in 1 .. Len(wfFile) /\ wfFile[k] = "ok"

\* Without a manifest the run was never started.
FirstStart ==
  /\ wfRun.known => wfManifest.status # "absent"
  /\ wfManifest.status = "absent" => wfKept = {} /\ wfFile = <<>>

\* The inductive invariant of a workflow.
JournalInv == RunTyped /\ OneDrives /\ OneJournal /\ KeptInJournal /\ FirstStart

\* A pruned journal is one, and holds every answer that was kept.
LEMMA PrunedJournal ==
  ASSUME NEW j \in Journal
  PROVE  /\ Pruned(j) \in Journal
         /\ \A k \in 1 .. Len(j) : j[k] = "ok" => k \in 1 .. Len(Pruned(j)) /\ Pruned(j)[k] = "ok"
<1>1. CASE j # <<>> /\ j[Len(j)] = "error"
  <2> DEFINE n == Len(j) - 1
  <2>1. n \in Nat /\ Len(j) \in Nat /\ n + 1 = Len(j)
    BY <1>1, EmptySeq, LenProperties DEF Journal
  <2>2. SubSeq(j, 1, n) = [i \in 1 .. n |-> j[i]]
    BY <2>1 DEF Journal
  <2>3. SubSeq(j, 1, n) \in Journal /\ Len(SubSeq(j, 1, n)) = n
    BY <2>1, SubSeqProperties DEF Journal
  <2>4. \A k \in 1 .. Len(j) : j[k] = "ok" => k \in 1 .. n
    BY <1>1, <2>1
  <2> QED
    BY <1>1, <2>2, <2>3, <2>4 DEF Pruned
<1>2. CASE ~(j # <<>> /\ j[Len(j)] = "error")
  BY <1>2 DEF Pruned
<1> QED
  BY <1>1, <1>2


\* A run that is launched from a journal, when no driver is at work.
LEMMA LaunchKeepsInv ==
  ASSUME RunTyped, \A g \in Drivers : ~Driving(g), NEW budget \in Nat,
         LaunchRun(budget, wfFile'), wfFile' \in Journal,
         wfMemory' \in {<<>>, <<wfFile'>>}, KeptInJournal',
         wfManifest.status = "absent" => wfKept' = {} /\ wfFile' = <<>>
  PROVE  JournalInv'
<1> DEFINE g == wfRun.epoch + 1
           driver == [pc |-> "ready", journal |-> wfFile', aborted |-> FALSE]
<1> USE DEF RunTyped
<1>1. CASE /\ wfRun' = [known |-> TRUE, epoch |-> g, resumable |-> FALSE, budget |-> budget,
                        outcome |-> "none"]
           /\ wfManifest' = [status |-> "active", budget |-> budget]
           /\ wfDriver' = [wfDriver EXCEPT ![g] = driver]
  <2>1. driver \in DriverRecord /\ g \in Nat
    BY DEF DriverRecord, RunRecord
  <2>2. wfRun' \in RunRecord /\ wfManifest' \in ManifestRecord
    BY <1>1, <2>1 DEF RunRecord, ManifestRecord
  <2>3. wfDriver' \in [Drivers -> DriverRecord]
    BY <1>1, <2>1
  <2>4. ASSUME NEW h \in Drivers, wfDriver'[h].pc # "off", ~wfDriver'[h].aborted
        PROVE  h = g /\ wfDriver'[h].journal = wfFile'
    BY <1>1, <2>4 DEF Driving
  <2>5. OneDrives'
    BY <1>1, <2>4 DEF OneDrives, Driving
  <2>6. FirstStart'
    BY <1>1 DEF FirstStart
  <2> QED
    BY <2>2, <2>3, <2>5, <2>6 DEF JournalInv, OneJournal
<1>2. CASE wfRun' = [wfRun EXCEPT !.known = FALSE] /\ UNCHANGED <<wfManifest, wfDriver>>
  <2>1. wfRun' \in RunRecord /\ ~wfRun'.known
    BY <1>2 DEF RunRecord
  <2>2. OneDrives' /\ FirstStart'
    BY <1>2, <2>1 DEF OneDrives, Driving, FirstStart
  <2> QED
    BY <1>2, <2>1, <2>2 DEF JournalInv, OneJournal
<1> QED
  BY <1>1, <1>2 DEF LaunchRun

\* A run that is concluded, when no driver is at work any more.
LEMMA ConcludedKeepsInv ==
  ASSUME JournalInv, NEW o \in Outcomes, NEW again \in BOOLEAN, wfRun.known,
         Concluded(o, again),
         wfDriver' \in [Drivers -> DriverRecord], \A g \in Drivers : ~Driving(g)',
         UNCHANGED <<wfFile, wfMemory, wfKept>>
  PROVE  JournalInv'
<1>1. wfRun.budget \in Nat /\ wfManifest.status # "absent"
  BY DEF JournalInv, RunTyped, RunRecord, FirstStart
<1>2. wfRun' \in RunRecord /\ wfRun'.known
  BY DEF Concluded, JournalInv, RunTyped, RunRecord
<1>3. wfManifest' \in ManifestRecord /\ wfManifest'.status # "absent"
  BY <1>1 DEF Concluded, JournalInv, RunTyped, ManifestRecord, Outcomes
<1> QED
  BY <1>2, <1>3 DEF JournalInv, RunTyped, OneDrives, OneJournal, KeptInJournal, FirstStart

\* Who leaves, and who is told to stop, does not drive; the others go on as they were.
LEMMA OthersDrive ==
  ASSUME JournalInv, NEW g \in Drivers
  PROVE  /\ Leaves(g) => /\ wfDriver' \in [Drivers -> DriverRecord]
                         /\ ~Driving(g)'
                         /\ \A h \in Drivers \ {g} : wfDriver'[h] = wfDriver[h]
         /\ wfRun.epoch = g => \A h \in Drivers \ {g} : ~Driving(h)
         /\ Driving(g) => \A h \in Drivers \ {g} : ~Driving(h)
<1>1. NoDriver \in DriverRecord /\ NoDriver.pc = "off"
  <2>1. <<>> \in Journal
    BY DEF Journal
  <2> QED
    BY <2>1 DEF NoDriver, DriverRecord
<1> QED
  BY <1>1 DEF JournalInv, RunTyped, OneDrives, Leaves, Driving

\* A step after which the same drivers drive, or fewer, and the run is as it was.
LEMMA FewerDrive ==
  ASSUME JournalInv, wfDriver' \in [Drivers -> DriverRecord],
         \A g \in Drivers : Driving(g)' => Driving(g) /\ wfDriver'[g].journal = wfDriver[g].journal,
         UNCHANGED <<wfRun, wfManifest, wfFile, wfMemory, wfKept>>
  PROVE  JournalInv'
  BY DEF JournalInv, RunTyped, OneDrives, OneJournal, KeptInJournal, FirstStart

\* An aborted driver finds its run in other hands, or concludes it.
LEMMA AbortKeepsInv ==
  ASSUME JournalInv, NEW g \in Drivers, ~Driving(g), AbortEnds(g),
         UNCHANGED <<wfFile, wfMemory, wfKept>>
  PROVE  JournalInv'
<1>1. /\ wfDriver' \in [Drivers -> DriverRecord]
      /\ ~Driving(g)'
      /\ \A h \in Drivers \ {g} : wfDriver'[h] = wfDriver[h]
  BY OthersDrive DEF AbortEnds
<1>2. CASE wfRun.known /\ wfRun.epoch = g /\ wfRun.outcome # "cancelled"
  <2>1. \A h \in Drivers : ~Driving(h)'
    BY <1>1, <1>2, OthersDrive DEF Driving
  <2> QED
    BY <1>1, <1>2, <2>1, ConcludedKeepsInv DEF AbortEnds, Outcomes
<1>3. CASE ~(wfRun.known /\ wfRun.epoch = g /\ wfRun.outcome # "cancelled")
  <2>1. UNCHANGED <<wfRun, wfManifest>>
    BY <1>3 DEF AbortEnds
  <2>2. \A h \in Drivers : Driving(h)' => Driving(h) /\ wfDriver'[h].journal = wfDriver[h].journal
    BY <1>1 DEF Driving
  <2> QED
    BY <1>1, <2>1, <2>2, FewerDrive
<1> QED
  BY <1>2, <1>3

\* Evaluating the script.
LEMMA EvaluateKeepsInv ==
  ASSUME JournalInv, NEW g \in Drivers, Evaluate(g)
  PROVE  JournalInv'
<1> DEFINE d == wfDriver[g]
<1>1. UNCHANGED <<wfFile, wfMemory, wfKept>> /\ d.pc = "ready"
  BY DEF Evaluate
<1>2. CASE d.aborted /\ AbortEnds(g)
  BY <1>1, <1>2, AbortKeepsInv DEF Driving
<1>3. ASSUME ~d.aborted, NEW o \in Outcomes, DriveEnds(g, o)
      PROVE  JournalInv'
  <2>1. Driving(g) /\ wfRun.known
    BY <1>1, <1>3 DEF Driving, JournalInv, OneDrives
  <2>2. wfDriver' \in [Drivers -> DriverRecord] /\ \A h \in Drivers : ~Driving(h)'
    BY <1>3, <2>1, OthersDrive DEF DriveEnds, Driving
  <2>3. Concluded(o, o \in CanResume) /\ (o \in CanResume) \in BOOLEAN
    BY <1>3 DEF DriveEnds
  <2> QED
    BY <1>1, <2>1, <2>2, <2>3, ConcludedKeepsInv
<1>4. CASE ~d.aborted /\ wfDriver' = [wfDriver EXCEPT ![g].pc = "calling"] /\ UNCHANGED <<wfRun, wfManifest>>
  <2>1. /\ wfDriver' \in [Drivers -> DriverRecord]
        /\ \A h \in Drivers : /\ wfDriver'[h].journal = wfDriver[h].journal
                              /\ wfDriver'[h].aborted = wfDriver[h].aborted
                              /\ h # g => wfDriver'[h].pc = wfDriver[h].pc
    BY <1>4 DEF JournalInv, RunTyped, DriverRecord
  <2> QED
    BY <1>1, <1>4, <2>1, FewerDrive DEF Driving
<1> QED
  BY <1>2, <1>3, <1>4 DEF Evaluate, Outcomes

\* Answers of the host.
LEMMA AnswersKeepInv ==
  ASSUME JournalInv, NEW g \in Drivers, HostAnswers(g)
  PROVE  JournalInv'
<1> DEFINE d == wfDriver[g]
<1>1. CASE d.aborted /\ AbortEnds(g) /\ UNCHANGED <<wfMemory, wfFile, wfKept>>
  BY <1>1, AbortKeepsInv DEF Driving
<1>2. ASSUME ~d.aborted, d.pc = "calling", NEW answer \in AgentResults, NEW j, j = Append(d.journal, answer),
             wfDriver' = [wfDriver EXCEPT ![g] = [@ EXCEPT !.pc = "ready", !.journal = j]],
             wfFile' = j, wfMemory' = <<j>>,
             wfKept' = IF answer = "ok" THEN wfKept \cup {Len(j)} ELSE wfKept,
             UNCHANGED <<wfRun, wfManifest>>
      PROVE  JournalInv'
  <2>1. Driving(g) /\ wfFile \in Journal /\ d.journal = wfFile /\ wfRun.known
    BY <1>2 DEF Driving, JournalInv, OneDrives, RunTyped
  <2>2. /\ j \in Journal /\ Len(j) = Len(wfFile) + 1
        /\ \A k \in 1 .. Len(wfFile) : j[k] = wfFile[k]
        /\ j[Len(wfFile) + 1] = answer
        /\ Len(wfFile) \in Nat
    BY <1>2, <2>1, AppendProperties, LenProperties DEF Journal
  <2>3. KeptInJournal'
    BY <1>2, <2>2 DEF JournalInv, KeptInJournal
  <2>4. wfDriver' \in [Drivers -> DriverRecord]
    BY <1>2, <2>2 DEF JournalInv, RunTyped, DriverRecord
  <2>5. wfDriver'[g].journal = j
    BY <1>2 DEF JournalInv, RunTyped, DriverRecord
  <2>6. \A h \in Drivers : Driving(h)' => h = g
    BY <1>2, <2>1, OthersDrive DEF Driving, JournalInv, RunTyped
  <2>7. OneDrives'
    BY <1>2, <2>1, <2>5, <2>6 DEF JournalInv, OneDrives
  <2>8. FirstStart'
    BY <1>2, <2>1 DEF JournalInv, FirstStart
  <2> QED
    BY <1>2, <2>2, <2>3, <2>4, <2>7, <2>8 DEF JournalInv, RunTyped, OneJournal
<1>3. CASE /\ ~d.aborted /\ d.pc = "calling"
           /\ Leaves(g)
           /\ wfRun' = [wfRun EXCEPT !.outcome = "failed", !.resumable = TRUE]
           /\ wfManifest' = [status |-> "failed", budget |-> wfRun.budget]
           /\ UNCHANGED <<wfMemory, wfFile, wfKept>>
  <2>1. Driving(g) /\ wfRun.known
    BY <1>3 DEF Driving, JournalInv, OneDrives
  <2>2. wfDriver' \in [Drivers -> DriverRecord] /\ \A h \in Drivers : ~Driving(h)'
    BY <1>3, <2>1, OthersDrive DEF Driving
  <2>3. wfRun' \in RunRecord /\ wfManifest' \in ManifestRecord
    BY <1>3 DEF JournalInv, RunTyped, RunRecord, ManifestRecord, Outcomes
  <2> QED
    BY <1>3, <2>2, <2>3
       DEF JournalInv, RunTyped, OneDrives, OneJournal, KeptInJournal, FirstStart
<1> QED
  BY <1>1, <1>2, <1>3 DEF HostAnswers, Leaves

\* Starts and resumptions.
LEMMA LaunchesKeepInv ==
  ASSUME JournalInv, Start \/ Resume
  PROVE  JournalInv'
<1> USE WorkflowAssumption DEF JournalInv
<1>1. CASE Start
  <2>1. \A g \in Drivers : ~Driving(g)
    BY <1>1 DEF Start, OneDrives
  <2>2. wfKept = {} /\ wfFile = <<>> /\ UNCHANGED <<wfMemory, wfFile, wfKept>>
    BY <1>1 DEF Start, FirstStart
  <2>3. PICK b \in Budgets : LaunchRun(b, wfFile')
    BY <1>1, <2>2 DEF Start
  <2>4. b \in Nat
    OBVIOUS
  <2> QED
    BY <2>1, <2>2, <2>3, <2>4, LaunchKeepsInv DEF RunTyped, OneJournal, KeptInJournal
<1>2. CASE Resume
  <2>1. \A g \in Drivers : ~Driving(g)
    BY <1>2 DEF Resume, OneDrives
  <2>2. Resumed = wfFile /\ wfManifest.status # "absent" /\ UNCHANGED wfKept
    BY <1>2 DEF Resume, Resumed, OneJournal, FirstStart
  <2>3. PICK b \in Budgets :
          \/ UNCHANGED <<wfMemory, wfFile>> /\ LaunchRun(ResumeBudget(b), wfFile)
          \/ /\ wfFile' = Pruned(wfFile)
             /\ wfMemory' = IF wfMemory = <<>> THEN <<>> ELSE <<Pruned(wfMemory[1])>>
             /\ LaunchRun(ResumeBudget(b), Pruned(wfFile))
    BY <1>2, <2>2 DEF Resume
  <2>4. ResumeBudget(b) \in Nat
    BY DEF ResumeBudget, RunTyped, RunRecord
  <2>5. /\ wfFile' \in Journal
        /\ wfMemory' \in {<<>>, <<wfFile'>>}
        /\ KeptInJournal'
    <3>1. CASE UNCHANGED <<wfMemory, wfFile>>
      BY <2>2, <3>1 DEF RunTyped, OneJournal, KeptInJournal
    <3>2. CASE /\ wfFile' = Pruned(wfFile)
               /\ wfMemory' = IF wfMemory = <<>> THEN <<>> ELSE <<Pruned(wfMemory[1])>>
      BY <2>2, <3>2, PrunedJournal DEF RunTyped, OneJournal, KeptInJournal
    <3> QED
      BY <2>3, <3>1, <3>2
  <2>6. LaunchRun(ResumeBudget(b), wfFile')
    BY <2>3
  <2> QED
    BY <2>1, <2>2, <2>4, <2>5, <2>6, LaunchKeepsInv
<1> QED
  BY <1>1, <1>2

\* Stops and reloads.
LEMMA StopsKeepInv ==
  ASSUME JournalInv, StopWorkflow \/ StopTurn \/ ReloadRuns
  PROVE  JournalInv'
<1>1. CASE StopWorkflow
  <2>1. wfDriver' \in [Drivers -> DriverRecord] /\ \A g \in Drivers : ~Driving(g)'
    <3>1. wfDriver' = [g \in Drivers |-> IF g = wfRun.epoch /\ wfDriver[g].pc # "off"
                                         THEN [wfDriver[g] EXCEPT !.aborted = TRUE]
                                         ELSE wfDriver[g]]
      BY <1>1 DEF StopWorkflow, Drivers
    <3>2. \A g \in Drivers : [wfDriver[g] EXCEPT !.aborted = TRUE] \in DriverRecord
      BY DEF JournalInv, RunTyped, DriverRecord
    <3>3. \A g \in Drivers : [wfDriver[g] EXCEPT !.aborted = TRUE].aborted
      BY DEF JournalInv, RunTyped, DriverRecord
    <3> QED
      BY <3>1, <3>2, <3>3 DEF JournalInv, RunTyped, OneDrives, Driving
  <2> QED
    BY <1>1, <2>1, ConcludedKeepsInv DEF StopWorkflow, Outcomes
<1>2. CASE StopTurn
  <2>1. PICK g \in Drivers : wfDriver' = [wfDriver EXCEPT ![g].aborted = TRUE]
    BY <1>2 DEF StopTurn, Drivers
  <2>2. /\ wfDriver' \in [Drivers -> DriverRecord]
        /\ \A h \in Drivers : Driving(h)' => Driving(h) /\ wfDriver'[h].journal = wfDriver[h].journal
    BY <2>1 DEF JournalInv, RunTyped, DriverRecord, Driving
  <2> QED
    BY <1>2, <2>2, FewerDrive DEF StopTurn
<1>3. CASE ReloadRuns
  <2>1. NoDriver \in DriverRecord /\ NoDriver.pc = "off"
    <3>1. <<>> \in Journal
      BY DEF Journal
    <3> QED
      BY <3>1 DEF NoDriver, DriverRecord
  <2>2. /\ wfDriver' = [g \in Drivers |-> NoDriver]
        /\ wfMemory' = <<>> /\ UNCHANGED <<wfFile, wfKept>>
    BY <1>3 DEF ReloadRuns, Drivers
  <2>3. PICK status2 \in {"absent", "active", "interrupted"} \cup Outcomes :
          /\ status2 = (IF wfManifest.status = "active" THEN "interrupted" ELSE wfManifest.status)
          /\ status2 # "active"
    BY DEF JournalInv, RunTyped, ManifestRecord, Outcomes
  <2>4. /\ wfManifest' = [wfManifest EXCEPT !.status = status2]
        /\ wfRun' = [known |-> status2 # "absent", epoch |-> 0,
                     resumable |-> status2 \in CanResume, budget |-> wfManifest.budget,
                     outcome |-> IF status2 = "absent" THEN "none" ELSE status2]
    BY <1>3, <2>3 DEF ReloadRuns
  <2>5. /\ wfManifest' \in ManifestRecord /\ wfManifest'.status = status2
        /\ wfRun' \in RunRecord /\ (wfRun'.known <=> status2 # "absent")
    <3>1. wfManifest \in ManifestRecord /\ wfManifest.budget \in Nat
      BY DEF JournalInv, RunTyped, ManifestRecord
    <3>2. PICK known \in BOOLEAN : known <=> status2 # "absent"
      OBVIOUS
    <3>3. PICK again \in BOOLEAN : again <=> status2 \in CanResume
      OBVIOUS
    <3>4. PICK outcome \in {"none", "interrupted"} \cup Outcomes :
            outcome = IF status2 = "absent" THEN "none" ELSE status2
      BY <2>3
    <3>5. wfRun' = [known |-> known, epoch |-> 0, resumable |-> again,
                    budget |-> wfManifest.budget, outcome |-> outcome]
      BY <2>4, <3>2, <3>3, <3>4
    <3>6. wfRun' \in RunRecord /\ (wfRun'.known <=> status2 # "absent")
      BY <3>1, <3>2, <3>5 DEF RunRecord
    <3> QED
      BY <2>3, <2>4, <3>1, <3>6 DEF ManifestRecord
  <2>6. status2 = "absent" => wfManifest.status = "absent"
    BY <2>3
  <2> QED
    BY <2>1, <2>2, <2>5, <2>6
       DEF JournalInv, RunTyped, OneDrives, Driving, OneJournal, KeptInJournal, FirstStart
<1> QED
  BY <1>1, <1>2, <1>3

\* An agent whose answer was journaled is never asked for again, whichever drivers, stops,
\* resumptions, reloads and failing writes come between (grok-build-workflow-engine.ts
\* drive, load, pruneTrailingHostError).
THEOREM JournaledOnce == WorkflowSpec => []JournaledIsNotRepeated
<1>1. WorkflowInit => JournalInv
  <2> SUFFICES ASSUME WorkflowInit
               PROVE  JournalInv
    OBVIOUS
  <2>1. <<>> \in Journal
    BY DEF Journal
  <2>2. NoDriver \in DriverRecord /\ NoDriver.pc = "off"
    BY <2>1 DEF NoDriver, DriverRecord
  <2>3. wfRun \in RunRecord /\ wfManifest \in ManifestRecord
    BY DEF WorkflowInit, RunRecord, ManifestRecord
  <2>4. wfDriver = [g \in Drivers |-> NoDriver]
    BY DEF WorkflowInit, Drivers
  <2> QED
    BY <2>1, <2>2, <2>3, <2>4
       DEF WorkflowInit, JournalInv, RunTyped, OneDrives, Driving, OneJournal, KeptInJournal,
           FirstStart
<1>2. JournalInv /\ [WorkflowNext]_wfVars => JournalInv'
  <2>1. ASSUME JournalInv, UNCHANGED wfVars
        PROVE  JournalInv'
    BY <2>1
       DEF wfVars, JournalInv, RunTyped, OneDrives, Driving, OneJournal, KeptInJournal,
           FirstStart
  <2> QED
    BY <2>1, EvaluateKeepsInv, AnswersKeepInv, LaunchesKeepInv, StopsKeepInv
       DEF WorkflowNext, Drivers
<1>3. JournalInv => JournaledIsNotRepeated
  <2> SUFFICES ASSUME JournalInv, NEW g \in Drivers, wfDriver[g].pc = "calling",
                      ~wfDriver[g].aborted
               PROVE  Len(wfDriver[g].journal) + 1 \notin wfKept
    BY DEF JournaledIsNotRepeated, Drivers
  <2>1. wfDriver[g].journal = wfFile /\ Len(wfFile) \in Nat
    BY LenProperties DEF JournalInv, RunTyped, OneDrives, Driving, Journal
  <2> QED
    BY <2>1 DEF JournalInv, KeptInJournal
<1> QED
  BY <1>1, <1>2, <1>3, PTL DEF WorkflowSpec

-----------------------------------------------------------------------------
(***************************************************************************)
(* The loop of a session                                                   *)
(***************************************************************************)

CallOf == [call : Nat, path : ToolPaths \cup {NoPath}, writes : BOOLEAN,
           at : {"waiting", "running", "ended"}]

\* Calls on a file that the batch writes begin in order, each when those before it have ended.
InOrder(calls) ==
  \A i, j \in DOMAIN calls :
    /\ i < j /\ calls[i].path = calls[j].path
    /\ calls[i].writes \/ calls[j].writes
    /\ calls[j].at # "waiting"
    => calls[i].at = "ended"

\* The inductive invariant of a batch.
BatchInv == callCount \in Nat /\ batch \in Seq(CallOf) /\ InOrder(batch)

\* A call that goes on replaces its own entry only.
LEMMA CallMoves ==
  ASSUME BatchInv, NEW i \in DOMAIN batch, NEW stage \in {"waiting", "running", "ended"},
         batch' = [batch EXCEPT ![i].at = stage]
  PROVE  /\ batch' \in Seq(CallOf)
         /\ DOMAIN batch' = DOMAIN batch
         /\ batch'[i].at = stage
         /\ \A j \in DOMAIN batch : /\ batch'[j].call = batch[j].call
                                    /\ batch'[j].path = batch[j].path
                                    /\ batch'[j].writes = batch[j].writes
                                    /\ j # i => batch'[j].at = batch[j].at
<1>1. batch[i] \in CallOf
  BY DEF BatchInv
<1>2. PICK call : call = [batch[i] EXCEPT !.at = stage]
  OBVIOUS
<1>3. /\ call \in CallOf /\ call.at = stage
      /\ call.call = batch[i].call /\ call.path = batch[i].path /\ call.writes = batch[i].writes
  BY <1>1, <1>2 DEF CallOf
<1>4. batch' = [batch EXCEPT ![i] = call]
  BY <1>2 DEF BatchInv
<1>5. batch' \in Seq(CallOf)
  BY <1>3, <1>4 DEF BatchInv
<1> QED
  BY <1>3, <1>4, <1>5

\* Every step keeps the order of the calls.
LEMMA BatchStep ==
  ASSUME BatchInv, LoopNext \/ UNCHANGED loopVars
  PROVE  BatchInv'
<1>1. ASSUME batch' \in {batch, <<>>}, callCount' = callCount
      PROVE  BatchInv'
  <2>1. CASE batch' = batch
    BY <1>1, <2>1 DEF BatchInv, InOrder
  <2>2. CASE batch' = <<>>
    BY <1>1, <2>2 DEF BatchInv, InOrder
  <2> QED
    BY <1>1, <2>1, <2>2
<1>2. ASSUME CallsTools
      PROVE  BatchInv'
  <2>1. PICK n \in 1 .. BatchLimit, paths \in [1 .. BatchLimit -> ToolPaths \cup {NoPath}],
             writing \in SUBSET (1 .. BatchLimit) :
          /\ batch' = [i \in 1 .. n |-> [call |-> callCount + i, path |-> paths[i],
                                         writes |-> i \in writing /\ paths[i] # NoPath,
                                         at |-> "waiting"]]
          /\ callCount' = callCount + n
    BY <1>2 DEF CallsTools
  <2>2. n \in Nat /\ callCount' \in Nat
    BY <2>1, AgentLoopAssumption DEF BatchInv
  <2>3. ASSUME NEW i \in 1 .. n
        PROVE  batch'[i] \in CallOf /\ batch'[i].at = "waiting"
    <3>0. i \in 1 .. BatchLimit /\ callCount + i \in Nat
      BY <2>2, AgentLoopAssumption DEF BatchInv
    <3>1. PICK path, w, call :
            /\ path = paths[i] /\ w = (i \in writing /\ paths[i] # NoPath)
            /\ call = callCount + i
      OBVIOUS
    <3>3. path \in ToolPaths \cup {NoPath} /\ w \in BOOLEAN /\ call \in Nat
      BY <2>1, <3>0, <3>1
    <3>2. batch'[i] = [call |-> call, path |-> path, writes |-> w, at |-> "waiting"]
      BY <2>1, <3>1
    <3> QED
      BY <3>2, <3>3 DEF CallOf
  <2>4. DOMAIN batch' = 1 .. n /\ batch' = [i \in 1 .. n |-> batch'[i]]
    BY <2>1
  <2>5. batch' \in Seq(CallOf)
    BY <2>2, <2>3, <2>4
  <2> QED
    BY <2>2, <2>3, <2>4, <2>5 DEF BatchInv, InOrder
<1>3. ASSUME NEW i \in DOMAIN batch, CallStarts(i)
      PROVE  BatchInv'
  <2>1. batch' = [batch EXCEPT ![i].at = "running"] /\ callCount' = callCount
    BY <1>3 DEF CallStarts
  <2>2. /\ batch' \in Seq(CallOf)
        /\ DOMAIN batch' = DOMAIN batch
        /\ batch'[i].at = "running"
        /\ \A j \in DOMAIN batch : /\ batch'[j].path = batch[j].path
                                   /\ batch'[j].writes = batch[j].writes
                                   /\ j # i => batch'[j].at = batch[j].at
    BY <2>1, CallMoves
  <2>3. DOMAIN batch \subseteq Nat
    BY DEF BatchInv
  <2>4. ASSUME NEW j \in DOMAIN batch, j < i, batch[j].path = batch[i].path,
               batch[j].writes \/ batch[i].writes
        PROVE  batch[j].at = "ended"
    <3>1. ~MustWait(i) /\ Locked(batch[i].path)
      BY <1>3, <2>4 DEF CallStarts, Locked
    <3>2. j \in 1 .. i - 1
      BY <2>4 DEF BatchInv
    <3> QED
      BY <2>4, <3>1, <3>2 DEF MustWait
  <2>5. batch[i].at = "waiting"
    BY <1>3 DEF CallStarts
  <2>6. ASSUME NEW k \in DOMAIN batch, NEW j \in DOMAIN batch, k < j,
               batch'[k].path = batch'[j].path, batch'[k].writes \/ batch'[j].writes,
               batch'[j].at # "waiting"
        PROVE  batch'[k].at = "ended"
    <3>1. CASE j = i
      BY <2>2, <2>3, <2>4, <2>6, <3>1
    <3>2. CASE j # i
      <4>1. batch[k].at = "ended"
        BY <2>2, <2>6, <3>2 DEF BatchInv, InOrder
      <4> QED
        BY <2>2, <2>5, <4>1
    <3> QED
      BY <3>1, <3>2
  <2>7. InOrder(batch')
    BY <2>2, <2>6 DEF InOrder
  <2> QED
    BY <2>1, <2>2, <2>7 DEF BatchInv, InOrder
<1>4. ASSUME NEW i \in DOMAIN batch, CallEnds(i)
      PROVE  BatchInv'
  <2>1. /\ batch' = [batch EXCEPT ![i].at = "ended"] /\ callCount' = callCount
        /\ batch[i].at = "running"
    BY <1>4 DEF CallEnds
  <2>2. /\ batch' \in Seq(CallOf)
        /\ DOMAIN batch' = DOMAIN batch
        /\ batch'[i].at = "ended"
        /\ \A j \in DOMAIN batch : /\ batch'[j].path = batch[j].path
                                   /\ batch'[j].writes = batch[j].writes
                                   /\ j # i => batch'[j].at = batch[j].at
    BY <2>1, CallMoves
  <2>3. InOrder(batch')
    BY <2>1, <2>2 DEF BatchInv, InOrder
  <2> QED
    BY <2>1, <2>2, <2>3 DEF BatchInv, InOrder
<1>5. CASE Run \/ Titled \/ ResumeRun \/ Enqueue \/ TurnBegins
  BY <1>1, <1>5 DEF Run, Titled, ResumeRun, Enqueue, TurnBegins, RunEnds
<1>6. CASE RequestFails \/ SummaryFails \/ Replies
  BY <1>1, <1>6 DEF RequestFails, SummaryFails, Replies, RunEnds
<1>7. CASE Summarized \/ CompactNow
  BY <1>1, <1>7 DEF Summarized, CompactNow, Compact
<1>8. CASE BatchEnds \/ StopRun \/ Restore
  BY <1>1, <1>8 DEF BatchEnds, StopRun, Restore, RunEnds
<1>9. CASE UNCHANGED loopVars
  BY <1>1, <1>9 DEF loopVars
<1> QED
  BY <1>2, <1>3, <1>4, <1>5, <1>6, <1>7, <1>8, <1>9 DEF LoopNext, ToolStep

\* Calls in their order are alone when they write.
LEMMA InOrderIsAlone == BatchInv => WritesAreAlone
<1> SUFFICES ASSUME BatchInv, NEW i \in DOMAIN batch, NEW j \in DOMAIN batch, i # j,
                    batch[i].at = "running", batch[j].at = "running", batch[i].writes,
                    batch[i].path = batch[j].path
             PROVE  FALSE
  BY DEF WritesAreAlone
<1>1. i < j \/ j < i
  BY DEF BatchInv
<1> QED
  BY <1>1 DEF BatchInv, InOrder

\* A set of numbers that is not empty has a least one.
LEMMA LeastNumber == ASSUME NEW T, T \subseteq Nat, T # {} PROVE \E x \in T : \A y \in T : x <= y
<1>1. PICK x \in T : \A y \in T : ~(<<y, x>> \in OpToRel(<, Nat))
  BY WFMin, NatLessThanWellFounded
<1>2. \A y \in T : ~(y < x)
  BY <1>1 DEF OpToRel
<1> QED BY <1>2

\* A set of numbers up to n has a greatest one.
LEMMA GreatestNumber ==
  ASSUME NEW n \in Nat, NEW T, T \subseteq 0 .. n, T # {}
  PROVE  \E x \in T : \A y \in T : y <= x
<1> DEFINE Rest == {n - x : x \in T}
<1>1. Rest \subseteq Nat /\ Rest # {}
  <2>1. PICK x \in T : TRUE
    OBVIOUS
  <2>2. n - x \in Rest
    BY <2>1
  <2>3. \A y \in T : n - y \in Nat
    OBVIOUS
  <2> QED BY <2>2, <2>3
<1>2. PICK r \in Rest : \A y \in Rest : r <= y
  <2> HIDE DEF Rest
  <2> QED BY <1>1, LeastNumber
<1>3. PICK x \in T : r = n - x
  BY <1>2
<1>4. ASSUME NEW y \in T PROVE y <= x
  <2>1. n - y \in Rest
    OBVIOUS
  <2>2. r <= n - y
    BY <1>2, <2>1
  <2> QED BY <1>3, <2>2
<1> QED BY <1>4

\* findLastRealUserIndex gives the last text, or 0 where there is none.
LEMMA LastUserIsLast ==
  ASSUME NEW t, conversation \in Seq(t)
  PROVE  /\ LastUser \in 0 .. Len(conversation)
         /\ LastUser # 0 => IsText(conversation[LastUser])
         /\ \A i \in LastUser + 1 .. Len(conversation) : ~IsText(conversation[i])
<1> DEFINE Texts == {i \in 1 .. Len(conversation) : IsText(conversation[i])}
<1>0. Len(conversation) \in Nat /\ Texts \subseteq 0 .. Len(conversation)
  BY LenProperties
<1>1. LastUser = IF Texts # {} THEN CHOOSE x \in Texts : \A y \in Texts : x >= y ELSE 0
  BY Zenon DEF LastUser, SelectLastInSeq, Max
<1>2. CASE Texts = {}
  BY <1>0, <1>1, <1>2
<1>3. CASE Texts # {}
  <2>1. \E x \in Texts : \A y \in Texts : y <= x
    <3> HIDE DEF Texts
    <3> QED BY <1>0, <1>3, GreatestNumber
  <2>2. \E x \in Texts : \A y \in Texts : x >= y
    BY <2>1, <1>0
  <2>3. LastUser \in Texts /\ \A y \in Texts : LastUser >= y
    <3> HIDE DEF Texts
    <3> QED BY <1>1, <1>3, <2>2
  <2> QED BY <1>0, <2>3
<1> QED BY <1>2, <1>3

\* What follows the last text is replies, calls and outputs: the history that is kept is all of it.
LEMMA RecentIsAll ==
  ASSUME NEW t, conversation \in Seq(t),
         \A i \in LastUser + 1 .. Len(conversation) :
           conversation[i][1] \in {"reply", "call", "output"}
  PROVE  Recent = SubSeq(conversation, LastUser + 1, Len(conversation))
<1> DEFINE after == SubSeq(conversation, LastUser + 1, Len(conversation))
           upTo == CHOOSE f : f = [i \in 0 .. Len(after) |->
             IF i = 0 THEN <<>>
             ELSE IF after[i][1] \in {"reply", "call", "output"} THEN Append(f[i - 1], after[i])
             ELSE f[i - 1]]
           g == [i \in 0 .. Len(after) |-> SubSeq(after, 1, i)]
<1>0. LastUser \in Nat /\ LastUser <= Len(conversation) /\ Len(conversation) \in Nat
  BY LastUserIsLast, LenProperties
<1>1. /\ after \in Seq(t) /\ Len(after) = Len(conversation) - LastUser
      /\ \A i \in 1 .. Len(after) : after[i] = conversation[LastUser + i]
  <2>1. \A i \in LastUser + 1 .. Len(conversation) : conversation[i] \in t
    BY <1>0, ElementOfSeq
  <2>2. /\ after \in Seq(t)
        /\ Len(after) = IF LastUser + 1 <= Len(conversation) THEN Len(conversation) - (LastUser + 1) + 1 ELSE 0
        /\ \A i \in 1 .. Len(conversation) - (LastUser + 1) + 1 : after[i] = conversation[LastUser + 1 + i - 1]
    BY <1>0, <2>1, SubSeqProperties
  <2>3. Len(after) = Len(conversation) - LastUser
    BY <1>0, <2>2
  <2>4. \A i \in 1 .. Len(after) : after[i] = conversation[LastUser + i]
    BY <1>0, <2>2, <2>3
  <2> QED BY <2>2, <2>3, <2>4
<1>2. Recent = upTo[Len(after)]
  BY Zenon DEF Recent, Kept
<1>3. ASSUME NEW i \in 1 .. Len(after) PROVE after[i][1] \in {"reply", "call", "output"}
  <2>1. LastUser + i \in LastUser + 1 .. Len(conversation) /\ after[i] = conversation[LastUser + i]
    BY <1>0, <1>1
  <2> HIDE DEF after
  <2> QED BY <2>1
<1> HIDE DEF after
<1>4. Len(after) \in Nat
  BY <1>1, LenProperties
<1>5. ASSUME NEW i \in 1 .. Len(after) PROVE SubSeq(after, 1, i) = Append(SubSeq(after, 1, i - 1), after[i])
  <2>1. 1 \in 1 .. Len(after) /\ i \in 1 .. Len(after) /\ i - 1 \in 0 .. Len(after)
    BY <1>4
  <2>2. SubSeq(after, 1, i) = SubSeq(after, 1, i - 1) \o <<after[i]>>
    BY <1>1, <2>1, SubSeqRecursiveSecond
  <2>3. SubSeq(after, 1, i - 1) \in Seq(t) /\ after[i] \in t
    BY <1>1, <1>4, SubSeqProperties, ElementOfSeq
  <2> QED BY <2>2, <2>3, AppendIsConcat
<1>6. SubSeq(after, 1, 0) = <<>>
  BY SubSeqEmpty
<1>7. \A i \in 0 .. Len(after) :
        g[i] = IF i = 0 THEN <<>>
               ELSE IF after[i][1] \in {"reply", "call", "output"} THEN Append(g[i - 1], after[i])
               ELSE g[i - 1]
  <2> TAKE i \in 0 .. Len(after)
  <2>1. CASE i = 0
    BY <1>6, <2>1
  <2>2. CASE i # 0
    <3>1. i \in 1 .. Len(after) /\ i - 1 \in 0 .. Len(after)
      BY <1>4, <2>2
    <3>2. after[i][1] \in {"reply", "call", "output"}
      BY <1>3, <3>1
    <3>3. g[i] = Append(g[i - 1], after[i])
      BY <1>5, <3>1
    <3> QED BY <2>2, <3>2, <3>3
  <2> QED BY <2>1, <2>2
<1>8. g = [i \in 0 .. Len(after) |->
             IF i = 0 THEN <<>>
             ELSE IF after[i][1] \in {"reply", "call", "output"} THEN Append(g[i - 1], after[i])
             ELSE g[i - 1]]
  BY <1>7
<1> HIDE DEF g
<1>9. upTo = [i \in 0 .. Len(after) |->
             IF i = 0 THEN <<>>
             ELSE IF after[i][1] \in {"reply", "call", "output"} THEN Append(upTo[i - 1], after[i])
             ELSE upTo[i - 1]]
  BY <1>8
<1> HIDE DEF upTo
<1> DEFINE Bad == {i \in 0 .. Len(after) : upTo[i] # g[i]}
<1>10. Bad = {}
  <2> SUFFICES ASSUME Bad # {} PROVE FALSE
    OBVIOUS
  <2>1. PICK n \in Bad : \A y \in Bad : n <= y
    <3>1. Bad \subseteq Nat
      BY <1>4
    <3> HIDE DEF Bad
    <3> QED BY <3>1, LeastNumber
  <2>2. n \in 0 .. Len(after) /\ upTo[n] # g[n]
    BY <2>1
  <2>3. n # 0
    BY <1>7, <1>9, <2>2
  <2>4. n - 1 \in 0 .. Len(after) /\ n - 1 \notin Bad
    BY <1>4, <2>1, <2>2, <2>3
  <2>5. upTo[n - 1] = g[n - 1]
    BY <2>4
  <2>6. upTo[n] = IF after[n][1] \in {"reply", "call", "output"} THEN Append(upTo[n - 1], after[n])
                  ELSE upTo[n - 1]
    BY <1>9, <2>2, <2>3
  <2>7. g[n] = IF after[n][1] \in {"reply", "call", "output"} THEN Append(g[n - 1], after[n])
               ELSE g[n - 1]
    BY <1>7, <2>2, <2>3
  <2> QED BY <2>2, <2>5, <2>6, <2>7
<1>11. upTo[Len(after)] = g[Len(after)] /\ g[Len(after)] = SubSeq(after, 1, Len(after))
  <2>1. Len(after) \in 0 .. Len(after) /\ Len(after) \notin Bad
    BY <1>4, <1>10
  <2> QED BY <2>1 DEF g
<1> QED BY <1>1, <1>2, <1>11, SubSeqFull DEF after

\* The conversation's items, of any number of runs and calls.
LoopKinds == {"query", "note", "summary", "call", "output", "reply"}
LoopItems == LoopKinds \X Nat

\* The calls of a batch that have not ended.
OpenOf(calls) == {calls[j].call : j \in {k \in DOMAIN calls : calls[k].at # "ended"}}

\* A call that is not open is answered later; an answer and a call that is open are in one
\* stretch with their call, which no text divides, so that what follows a text can be kept alone.
Answers(s, open) ==
  /\ \A i \in 1 .. Len(s) : \A c \in Nat \ open :
       s[i] = <<"call", c>> => \E j \in i + 1 .. Len(s) : s[j] = <<"output", c>>
  /\ \A j \in 1 .. Len(s) : \A c \in Nat :
       s[j] = <<"output", c>> =>
         \E i \in 1 .. j : s[i] = <<"call", c>> /\ \A k \in i .. j : ~IsText(s[k])
  /\ \A c \in open : \E i \in 1 .. Len(s) :
       s[i] = <<"call", c>> /\ \A k \in i .. Len(s) : ~IsText(s[k])

\* The inductive invariant of the loop.
LoopInv ==
  /\ BatchInv
  /\ runs \in Nat /\ splitBatch \in BOOLEAN
  /\ conversation \in Seq(LoopItems) /\ saved \in Seq(LoopItems)
  /\ phase # "tools" => batch = <<>>
  /\ ~splitBatch => Answers(conversation, OpenOf(batch)) /\ Answers(saved, OpenOf(batch))

\* Items are of the six kinds, and a text is none of a call, an output and a reply.
LEMMA ItemKinds ==
  /\ \A c \in Nat : <<"call", c>> \in LoopItems /\ <<"output", c>> \in LoopItems
                    /\ <<"query", c>> \in LoopItems
                    /\ ~IsText(<<"call", c>>) /\ ~IsText(<<"output", c>>) /\ IsText(<<"query", c>>)
  /\ Note \in LoopItems /\ <<"reply", 0>> \in LoopItems /\ <<"summary", 0>> \in LoopItems
  /\ IsText(Note) /\ IsText(<<"summary", 0>>) /\ ~IsText(<<"reply", 0>>)
  /\ \A item \in LoopItems : ~IsText(item) => item[1] \in {"reply", "call", "output"}
  BY DEF LoopItems, LoopKinds, IsText, Note

LEMMA ItemsDiffer ==
  ASSUME NEW c \in Nat, NEW d \in Nat
  PROVE  /\ <<"call", c>> # <<"output", d>>
         /\ <<"call", c>> = <<"call", d>> => c = d
         /\ <<"output", c>> = <<"output", d>> => c = d
  OBVIOUS

\* What is added at the end is after what there was.
LEMMA EndsWith ==
  ASSUME NEW s \in Seq(LoopItems), NEW item \in LoopItems
  PROVE  /\ Append(s, item) \in Seq(LoopItems)
         /\ Len(s) \in Nat /\ Len(Append(s, item)) = Len(s) + 1
         /\ Append(s, item)[Len(s) + 1] = item
         /\ \A i \in 1 .. Len(s) : Append(s, item)[i] = s[i]
  BY AppendProperties, LenProperties

\* A text may come when no call is open.
LEMMA TextKeeps ==
  ASSUME NEW s \in Seq(LoopItems), NEW item \in LoopItems, IsText(item), Answers(s, {})
  PROVE  Answers(Append(s, item), {})
<1> DEFINE t == Append(s, item)
<1>1. /\ Len(s) \in Nat /\ Len(t) = Len(s) + 1 /\ t[Len(s) + 1] = item
      /\ \A i \in 1 .. Len(s) : t[i] = s[i]
  BY EndsWith
<1> HIDE DEF t
<1>2. \A c \in Nat : item # <<"call", c>> /\ item # <<"output", c>>
  BY ItemKinds
<1>3. ASSUME NEW i \in 1 .. Len(t), NEW c \in Nat, t[i] = <<"call", c>>
      PROVE  \E j \in i + 1 .. Len(t) : t[j] = <<"output", c>>
  <2>1. i \in 1 .. Len(s) /\ s[i] = <<"call", c>>
    <3>1. i = Len(s) + 1 => item = <<"call", c>>
      BY <1>1, <1>3
    <3>2. i # Len(s) + 1
      BY <1>2, <3>1
    <3> QED BY <1>1, <1>3, <3>2
  <2>2. PICK j \in i + 1 .. Len(s) : s[j] = <<"output", c>>
    BY <2>1 DEF Answers
  <2>3. j \in i + 1 .. Len(t) /\ t[j] = <<"output", c>>
    BY <1>1, <2>1, <2>2
  <2> QED BY <2>3
<1>4. ASSUME NEW j \in 1 .. Len(t), NEW c \in Nat, t[j] = <<"output", c>>
      PROVE  \E i \in 1 .. j : t[i] = <<"call", c>> /\ \A k \in i .. j : ~IsText(t[k])
  <2>1. j \in 1 .. Len(s) /\ s[j] = <<"output", c>>
    <3>1. j = Len(s) + 1 => item = <<"output", c>>
      BY <1>1, <1>4
    <3>2. j # Len(s) + 1
      BY <1>2, <3>1
    <3> QED BY <1>1, <1>4, <3>2
  <2>2. PICK i \in 1 .. j : s[i] = <<"call", c>> /\ \A k \in i .. j : ~IsText(s[k])
    BY <2>1 DEF Answers
  <2>3. t[i] = <<"call", c>> /\ \A k \in i .. j : ~IsText(t[k])
    BY <1>1, <2>1, <2>2
  <2> QED BY <2>3
<1> QED BY <1>3, <1>4 DEF Answers, t

\* A reply may come at any time.
LEMMA ReplyKeeps ==
  ASSUME NEW s \in Seq(LoopItems), NEW open, Answers(s, open), 
         NEW item \in LoopItems, item[1] = "reply"
  PROVE  Answers(Append(s, item), open)
<1> DEFINE t == Append(s, item)
<1>1. /\ Len(s) \in Nat /\ Len(t) = Len(s) + 1 /\ t[Len(s) + 1] = item
      /\ \A i \in 1 .. Len(s) : t[i] = s[i]
  BY EndsWith, ItemKinds
<1> HIDE DEF t
<1>2. (\A c \in Nat : item # <<"call", c>> /\ item # <<"output", c>>) /\ ~IsText(item)
  BY DEF IsText
<1>3. ASSUME NEW i \in 1 .. Len(t), NEW c \in Nat \ open, t[i] = <<"call", c>>
      PROVE  \E j \in i + 1 .. Len(t) : t[j] = <<"output", c>>
  <2>1. i \in 1 .. Len(s) /\ s[i] = <<"call", c>>
    BY <1>1, <1>2, <1>3
  <2>2. PICK j \in i + 1 .. Len(s) : s[j] = <<"output", c>>
    BY <2>1 DEF Answers
  <2>3. j \in i + 1 .. Len(t) /\ t[j] = <<"output", c>>
    BY <1>1, <2>1, <2>2
  <2> QED BY <2>3
<1>4. ASSUME NEW j \in 1 .. Len(t), NEW c \in Nat, t[j] = <<"output", c>>
      PROVE  \E i \in 1 .. j : t[i] = <<"call", c>> /\ \A k \in i .. j : ~IsText(t[k])
  <2>1. j \in 1 .. Len(s) /\ s[j] = <<"output", c>>
    BY <1>1, <1>2, <1>4
  <2>2. PICK i \in 1 .. j : s[i] = <<"call", c>> /\ \A k \in i .. j : ~IsText(s[k])
    BY <2>1 DEF Answers
  <2>3. t[i] = <<"call", c>> /\ \A k \in i .. j : ~IsText(t[k])
    BY <1>1, <2>1, <2>2
  <2> QED BY <2>3
<1>5. ASSUME NEW c \in open
      PROVE  \E i \in 1 .. Len(t) : t[i] = <<"call", c>> /\ \A k \in i .. Len(t) : ~IsText(t[k])
  <2>1. PICK i \in 1 .. Len(s) : s[i] = <<"call", c>> /\ \A k \in i .. Len(s) : ~IsText(s[k])
    BY DEF Answers
  <2>2. t[i] = <<"call", c>> /\ i \in 1 .. Len(t)
    BY <1>1, <2>1
  <2>3. \A k \in i .. Len(t) : ~IsText(t[k])
    BY <1>1, <1>2, <2>1
  <2> QED BY <2>2, <2>3
<1> QED BY <1>3, <1>4, <1>5 DEF Answers, t

\* A call that ends is answered at the end, in the stretch it is in.
LEMMA OutputKeeps ==
  ASSUME NEW s \in Seq(LoopItems), NEW open, Answers(s, open), NEW d \in Nat, d \in open,
         NEW still, open \ {d} \subseteq still, still \subseteq open
  PROVE  Answers(Append(s, <<"output", d>>), still)
<1> DEFINE t == Append(s, <<"output", d>>)
<1>1. /\ Len(s) \in Nat /\ Len(t) = Len(s) + 1 /\ t[Len(s) + 1] = <<"output", d>>
      /\ \A i \in 1 .. Len(s) : t[i] = s[i]
  BY EndsWith, ItemKinds
<1> HIDE DEF t
<1>2. ~IsText(<<"output", d>>)
  BY ItemKinds
<1>3. ASSUME NEW i \in 1 .. Len(t), NEW c \in Nat \ still, t[i] = <<"call", c>>
      PROVE  \E j \in i + 1 .. Len(t) : t[j] = <<"output", c>>
  <2>1. i \in 1 .. Len(s) /\ s[i] = <<"call", c>>
    BY <1>1, <1>3, ItemsDiffer
  <2>2. CASE c = d
    <3>1. Len(s) + 1 \in i + 1 .. Len(t)
      BY <1>1, <2>1
    <3> QED BY <1>1, <2>2, <3>1
  <2>3. CASE c # d
    <3>1. PICK j \in i + 1 .. Len(s) : s[j] = <<"output", c>>
      BY <2>1, <2>3 DEF Answers
    <3>2. j \in i + 1 .. Len(t) /\ t[j] = <<"output", c>>
      BY <1>1, <2>1, <3>1
    <3> QED BY <3>2
  <2> QED BY <2>2, <2>3
<1>4. ASSUME NEW c \in open
      PROVE  \E i \in 1 .. Len(s) : t[i] = <<"call", c>> /\ \A k \in i .. Len(t) : ~IsText(t[k])
  <2>1. PICK i \in 1 .. Len(s) : s[i] = <<"call", c>> /\ \A k \in i .. Len(s) : ~IsText(s[k])
    BY DEF Answers
  <2>2. t[i] = <<"call", c>>
    BY <1>1, <2>1
  <2>3. \A k \in i .. Len(t) : ~IsText(t[k])
    BY SMTT(20), <1>1, <1>2, <2>1
  <2> QED BY <2>2, <2>3
<1>5. ASSUME NEW j \in 1 .. Len(t), NEW c \in Nat, t[j] = <<"output", c>>
      PROVE  \E i \in 1 .. j : t[i] = <<"call", c>> /\ \A k \in i .. j : ~IsText(t[k])
  <2>1. CASE j = Len(s) + 1
    <3>1. c = d
      BY <1>1, <1>5, <2>1, ItemsDiffer
    <3>2. PICK i \in 1 .. Len(s) : t[i] = <<"call", c>> /\ \A k \in i .. Len(t) : ~IsText(t[k])
      BY <1>4, <3>1
    <3>3. i \in 1 .. j /\ \A k \in i .. j : ~IsText(t[k])
      BY <1>1, <2>1, <3>2
    <3> QED BY <3>2, <3>3
  <2>2. CASE j # Len(s) + 1
    <3>1. j \in 1 .. Len(s) /\ s[j] = <<"output", c>>
      BY <1>1, <1>5, <2>2
    <3>2. PICK i \in 1 .. j : s[i] = <<"call", c>> /\ \A k \in i .. j : ~IsText(s[k])
      BY <3>1 DEF Answers
    <3>3. t[i] = <<"call", c>> /\ \A k \in i .. j : ~IsText(t[k])
      BY <1>1, <3>1, <3>2
    <3> QED BY <3>3
  <2> QED BY <2>1, <2>2
<1>6. ASSUME NEW c \in still
      PROVE  \E i \in 1 .. Len(t) : t[i] = <<"call", c>> /\ \A k \in i .. Len(t) : ~IsText(t[k])
  <2>1. PICK i \in 1 .. Len(s) : t[i] = <<"call", c>> /\ \A k \in i .. Len(t) : ~IsText(t[k])
    BY <1>4
  <2>2. i \in 1 .. Len(t)
    BY <1>1
  <2> QED BY <2>1, <2>2
<1> QED BY <1>3, <1>5, <1>6 DEF Answers, t

\* The calls of a reply are items.
LEMMA CallsTyped ==
  ASSUME NEW n \in Nat, NEW made \in Nat
  PROVE  /\ [i \in 1 .. n |-> <<"call", made + i>>] \in Seq(LoopItems)
         /\ Len([i \in 1 .. n |-> <<"call", made + i>>]) = n
<1> DEFINE more == [i \in 1 .. n |-> <<"call", made + i>>]
<1>1. \A i \in 1 .. n : made + i \in Nat
  OBVIOUS
<1>2. \A i \in 1 .. n : <<"call", made + i>> \in LoopItems
  BY <1>1, ItemKinds
<1>3. more \in [1 .. n -> LoopItems]
  BY <1>2
<1> HIDE DEF more
<1>4. DOMAIN more = 1 .. n /\ \A i \in 1 .. n : more[i] \in LoopItems
  BY <1>3
<1>5. more \in Seq(LoopItems) /\ Len(more) = n
  BY <1>3, <1>4
<1> QED BY <1>5 DEF more

\* The calls of a reply are open when they are made.
LEMMA CallsKeep ==
  ASSUME NEW s \in Seq(LoopItems), Answers(s, {}), NEW n \in Nat, NEW made \in Nat
  PROVE  Answers(s \o [i \in 1 .. n |-> <<"call", made + i>>], {made + i : i \in 1 .. n})
<1> DEFINE more == [i \in 1 .. n |-> <<"call", made + i>>]
           t == s \o more
           open == {made + i : i \in 1 .. n}
<1>1. more \in Seq(LoopItems) /\ Len(more) = n
  BY CallsTyped
<1>2. \A i \in 1 .. n : more[i] = <<"call", made + i>>
  OBVIOUS
<1> HIDE DEF more
<1>3. /\ t \in Seq(LoopItems) /\ Len(s) \in Nat /\ Len(t) = Len(s) + n
      /\ \A i \in 1 .. Len(s) : t[i] = s[i]
      /\ \A i \in Len(s) + 1 .. Len(t) : i - Len(s) \in 1 .. n /\ t[i] = <<"call", made + (i - Len(s))>>
  <2>1. /\ t \in Seq(LoopItems) /\ Len(t) = Len(s) + Len(more)
        /\ \A i \in 1 .. Len(s) + Len(more) : t[i] = IF i <= Len(s) THEN s[i] ELSE more[i - Len(s)]
    BY <1>1, ConcatProperties
  <2>2. Len(s) \in Nat
    BY LenProperties
  <2>3. \A i \in 1 .. Len(s) : t[i] = s[i]
    BY <1>1, <2>1, <2>2
  <2>4. ASSUME NEW i \in Len(s) + 1 .. Len(t)
        PROVE  i - Len(s) \in 1 .. n /\ t[i] = <<"call", made + (i - Len(s))>>
    <3>1. i - Len(s) \in 1 .. n /\ ~(i <= Len(s)) /\ i \in 1 .. Len(s) + Len(more)
      BY <1>1, <2>1, <2>2
    <3>2. t[i] = more[i - Len(s)]
      BY <2>1, <3>1
    <3> QED BY <1>2, <3>1, <3>2
  <2> QED BY <1>1, <2>1, <2>2, <2>3, <2>4
<1> HIDE DEF t
<1>4. ASSUME NEW i \in 1 .. Len(t), NEW c \in Nat \ open, t[i] = <<"call", c>>
      PROVE  \E j \in i + 1 .. Len(t) : t[j] = <<"output", c>>
  <2>1. i \in 1 .. Len(s)
    <3> SUFFICES ASSUME i \notin 1 .. Len(s) PROVE FALSE
      OBVIOUS
    <3>1. i \in Len(s) + 1 .. Len(t)
      BY <1>3
    <3>2. i - Len(s) \in 1 .. n /\ c = made + (i - Len(s))
      BY <1>3, <1>4, <3>1, ItemsDiffer
    <3> QED BY <3>2
  <2>2. s[i] = <<"call", c>>
    BY <1>3, <1>4, <2>1
  <2>3. PICK j \in i + 1 .. Len(s) : s[j] = <<"output", c>>
    BY <2>1, <2>2 DEF Answers
  <2>4. j \in i + 1 .. Len(t) /\ t[j] = <<"output", c>>
    BY <1>3, <2>1, <2>3
  <2> QED BY <2>4
<1>5. ASSUME NEW j \in 1 .. Len(t), NEW c \in Nat, t[j] = <<"output", c>>
      PROVE  \E i \in 1 .. j : t[i] = <<"call", c>> /\ \A k \in i .. j : ~IsText(t[k])
  <2>1. j \in 1 .. Len(s)
    <3> SUFFICES ASSUME j \notin 1 .. Len(s) PROVE FALSE
      OBVIOUS
    <3>1. j \in Len(s) + 1 .. Len(t)
      BY <1>3
    <3>2. j - Len(s) \in 1 .. n /\ t[j] = <<"call", made + (j - Len(s))>>
      BY <1>3, <3>1
    <3>3. made + (j - Len(s)) \in Nat
      BY <3>2
    <3> QED BY <1>5, <3>2, <3>3, ItemsDiffer
  <2>2. s[j] = <<"output", c>>
    BY <1>3, <1>5, <2>1
  <2>3. PICK i \in 1 .. j : s[i] = <<"call", c>> /\ \A k \in i .. j : ~IsText(s[k])
    BY <2>1, <2>2 DEF Answers
  <2>4. \A k \in i .. j : k \in 1 .. Len(s) /\ t[k] = s[k]
    BY <1>3, <2>1, <2>3
  <2>5. i \in i .. j
    BY <1>3, <2>1, <2>3
  <2> QED BY <2>3, <2>4, <2>5
<1>6. ASSUME NEW c \in open
      PROVE  \E i \in 1 .. Len(t) : t[i] = <<"call", c>> /\ \A k \in i .. Len(t) : ~IsText(t[k])
  <2>1. PICK m \in 1 .. n : c = made + m
    OBVIOUS
  <2> DEFINE i == Len(s) + m
  <2>2. i \in Len(s) + 1 .. Len(t) /\ i \in 1 .. Len(t) /\ i - Len(s) = m
    BY <1>3, <2>1
  <2>3. t[i] = <<"call", c>>
    BY <1>3, <2>1, <2>2
  <2>4. \A k \in i .. Len(t) : k \in Len(s) + 1 .. Len(t)
    BY <2>2
  <2>5. ASSUME NEW k \in i .. Len(t) PROVE ~IsText(t[k])
    <3>1. k - Len(s) \in 1 .. n /\ t[k] = <<"call", made + (k - Len(s))>>
      BY <1>3, <2>4
    <3>2. made + (k - Len(s)) \in Nat
      BY SMTT(20), <3>1
    <3> QED BY <3>1, <3>2, ItemKinds
  <2> QED BY <2>2, <2>3, <2>5
<1> QED BY <1>3, <1>4, <1>5, <1>6 DEF Answers, t, more

LEMMA SuffixTyped ==
  ASSUME NEW s \in Seq(LoopItems), NEW l \in 1 .. Len(s)
  PROVE  SubSeq(s, l, Len(s)) \in Seq(LoopItems)
<1>1. Len(s) \in Nat
  BY LenProperties
<1>2. \A i \in l .. Len(s) : s[i] \in LoopItems
  BY <1>1, ElementOfSeq
<1> QED BY <1>1, <1>2, SubSeqProperties

\* What is kept from a text on.
LEMMA SuffixKeeps ==
  ASSUME NEW s \in Seq(LoopItems), Answers(s, {}), NEW l \in 1 .. Len(s), IsText(s[l])
  PROVE  SubSeq(s, l, Len(s)) \in Seq(LoopItems) /\ Answers(SubSeq(s, l, Len(s)), {})
<1> DEFINE t == SubSeq(s, l, Len(s))
<1>1. /\ t \in Seq(LoopItems) /\ Len(s) \in Nat /\ l \in Nat /\ Len(t) = Len(s) - l + 1
      /\ \A i \in 1 .. Len(t) : l + i - 1 \in 1 .. Len(s) /\ t[i] = s[l + i - 1]
  <2>1. Len(s) \in Nat
    BY LenProperties
  <2>2. \A i \in l .. Len(s) : s[i] \in LoopItems
    BY <2>1, ElementOfSeq
  <2>3. /\ t \in Seq(LoopItems)
        /\ Len(t) = IF l <= Len(s) THEN Len(s) - l + 1 ELSE 0
        /\ \A i \in 1 .. Len(s) - l + 1 : t[i] = s[l + i - 1]
    BY <2>1, <2>2, SubSeqProperties
  <2> QED BY SMTT(20), <2>1, <2>3
<1> HIDE DEF t
<1>2. \A i \in l .. Len(s) : i - l + 1 \in 1 .. Len(t) /\ t[i - l + 1] = s[i]
  <2> SUFFICES ASSUME NEW i \in l .. Len(s) PROVE i - l + 1 \in 1 .. Len(t) /\ t[i - l + 1] = s[i]
    OBVIOUS
  <2>1. i - l + 1 \in 1 .. Len(t) /\ l + (i - l + 1) - 1 = i
    BY <1>1
  <2> QED BY <1>1, <2>1
<1>3. ASSUME NEW i \in 1 .. Len(t), NEW c \in Nat, t[i] = <<"call", c>>
      PROVE  \E j \in i + 1 .. Len(t) : t[j] = <<"output", c>>
  <2>1. l + i - 1 \in 1 .. Len(s) /\ s[l + i - 1] = <<"call", c>>
    BY <1>1, <1>3
  <2>2. PICK j \in l + i - 1 + 1 .. Len(s) : s[j] = <<"output", c>>
    BY <2>1 DEF Answers
  <2>3. j \in Int /\ l + i <= j /\ j <= Len(s) /\ i \in Nat /\ 1 <= i
    BY <1>1, <2>2
  <2>6. j \in l .. Len(s) /\ j - l + 1 \in i + 1 .. Len(t)
    BY <1>1, <2>3
  <2>4. t[j - l + 1] = <<"output", c>>
    BY <1>2, <2>2, <2>6
  <2> QED BY <2>4, <2>6
<1>4. ASSUME NEW j \in 1 .. Len(t), NEW c \in Nat, t[j] = <<"output", c>>
      PROVE  \E i \in 1 .. j : t[i] = <<"call", c>> /\ \A k \in i .. j : ~IsText(t[k])
  <2>1. l + j - 1 \in 1 .. Len(s) /\ s[l + j - 1] = <<"output", c>>
    BY <1>1, <1>4
  <2>2. PICK i \in 1 .. l + j - 1 : s[i] = <<"call", c>> /\ \A k \in i .. l + j - 1 : ~IsText(s[k])
    BY <2>1 DEF Answers
  <2>3. ~(l \in i .. l + j - 1)
    BY <2>2
  <2>4. i \in l .. Len(s) /\ i - l + 1 \in 1 .. j
    BY <1>1, <2>1, <2>2, <2>3
  <2>5. t[i - l + 1] = <<"call", c>>
    BY <1>2, <2>2, <2>4
  <2>6. ASSUME NEW k \in i - l + 1 .. j PROVE ~IsText(t[k])
    <3>1. k \in 1 .. Len(t) /\ l + k - 1 \in i .. l + j - 1
      BY <1>1, <2>4
    <3> QED BY <1>1, <2>2, <3>1
  <2> QED BY <2>4, <2>5, <2>6
<1> QED BY <1>1, <1>3, <1>4 DEF Answers, t

\* Nothing was said yet.
LEMMA NothingSaid == <<>> \in Seq(LoopItems) /\ Answers(<<>>, {})
<1>1. <<>> \in Seq(LoopItems) /\ Len(<<>>) = 0
  OBVIOUS
<1> QED BY <1>1 DEF Answers

\* What is drained before a sample is nothing or one note.
LEMMA DrainedIsOne == Drained(0) = <<>> /\ Drained(1) = <<Note>>
<1>1. Drained(0) = <<>>
  <2>1. [i \in 1 .. 0 |-> Note] = <<>>
    OBVIOUS
  <2> QED BY <2>1 DEF Drained
<1>2. Drained(1) = <<Note>>
  <2>1. [i \in 1 .. 1 |-> Note] = <<Note>>
    OBVIOUS
  <2> QED BY <2>1 DEF Drained
<1> QED BY <1>1, <1>2

\* What is said one after the other.
LEMMA SaysAppend ==
  ASSUME NEW s \in Seq(LoopItems), NEW a \in LoopItems, NEW b \in LoopItems
  PROVE  /\ s \o <<a>> = Append(s, a)
         /\ s \o (<<a>> \o <<b>>) = Append(Append(s, a), b)
         /\ s \o (<<a>> \o <<>>) = Append(s, a)
         /\ s \o <<>> = s
<1>1. <<a>> \in Seq(LoopItems) /\ <<b>> \in Seq(LoopItems)
  OBVIOUS
<1>2. \A q \in Seq(LoopItems), x \in LoopItems : Append(q, x) = q \o <<x>> /\ Append(q, x) \in Seq(LoopItems)
  BY AppendIsConcat, AppendProperties
<1>3. s \o (<<a>> \o <<b>>) = (s \o <<a>>) \o <<b>>
  BY <1>1, ConcatAssociative
<1>4. s \o <<>> = s /\ <<a>> \o <<>> = <<a>>
  BY <1>1, ConcatEmptySeq
<1> QED BY <1>2, <1>3, <1>4

\* What a compaction keeps is what follows the last text, and a summary.
LEMMA CompactedIsTail ==
  ASSUME conversation \in Seq(LoopItems), LastUser # 0
  PROVE  /\ LastUser \in 1 .. Len(conversation) /\ IsText(conversation[LastUser])
         /\ Compacted = Append(SubSeq(conversation, LastUser, Len(conversation)), <<"summary", 0>>)
<1> DEFINE tail == SubSeq(conversation, LastUser, Len(conversation))
           told == <<"summary", 0>>
<1>1. /\ LastUser \in 1 .. Len(conversation) /\ IsText(conversation[LastUser])
      /\ \A i \in LastUser + 1 .. Len(conversation) : ~IsText(conversation[i])
      /\ Len(conversation) \in Nat
  <2>1. LastUser \in 0 .. Len(conversation) /\ Len(conversation) \in Nat
    BY LastUserIsLast, LenProperties
  <2> QED BY <2>1, LastUserIsLast
<1>2. tail \in Seq(LoopItems)
  BY <1>1, SuffixTyped
<1>3. Compacted = Append(tail, told)
  <2>1. \A i \in LastUser + 1 .. Len(conversation) : conversation[i][1] \in {"reply", "call", "output"}
    <3> SUFFICES ASSUME NEW i \in LastUser + 1 .. Len(conversation)
                 PROVE  conversation[i][1] \in {"reply", "call", "output"}
      OBVIOUS
    <3>1. i \in 1 .. Len(conversation)
      BY <1>1
    <3>2. conversation[i] \in LoopItems /\ ~IsText(conversation[i])
      BY <1>1, <3>1, ElementOfSeq
    <3> QED BY <3>2, ItemKinds
  <2>2. Recent = SubSeq(conversation, LastUser + 1, Len(conversation))
    BY <2>1, RecentIsAll
  <2>3. tail = <<conversation[LastUser]>> \o SubSeq(conversation, LastUser + 1, Len(conversation))
    <3>1. Len(conversation) \in LastUser .. Len(conversation)
      BY <1>1
    <3> QED BY <1>1, <3>1, SubSeqRecursiveFirst
  <2>4. Compacted = tail \o <<told>>
    BY <2>2, <2>3 DEF Compacted
  <2>5. told \in LoopItems
    BY ItemKinds
  <2> HIDE DEF tail, told
  <2> QED BY <1>2, <2>4, <2>5, SaysAppend
<1> QED BY <1>1, <1>3

\* The history that is kept may be followed by a note.
LEMMA CompactionKeeps ==
  ASSUME conversation \in Seq(LoopItems), LastUser # 0,
         NEW reminded, reminded \in {<<>>, <<Note>>}
  PROVE  /\ Compacted \o reminded \in Seq(LoopItems)
         /\ Answers(conversation, {}) => Answers(Compacted \o reminded, {})
<1> DEFINE tail == SubSeq(conversation, LastUser, Len(conversation))
           told == <<"summary", 0>>
<1>1. LastUser \in 1 .. Len(conversation) /\ IsText(conversation[LastUser])
  BY CompactedIsTail
<1>2. tail \in Seq(LoopItems) /\ (Answers(conversation, {}) => Answers(tail, {}))
  BY <1>1, SuffixKeeps, SuffixTyped
<1>3. Compacted = Append(tail, told)
  BY CompactedIsTail
<1> HIDE DEF tail
<1>4. Compacted \in Seq(LoopItems) /\ (Answers(conversation, {}) => Answers(Compacted, {}))
  <2>1. told \in LoopItems /\ IsText(told)
    BY ItemKinds
  <2> HIDE DEF told
  <2>2. Append(tail, told) \in Seq(LoopItems)
    BY <1>2, <2>1, EndsWith
  <2> QED BY <1>2, <1>3, <2>1, <2>2, TextKeeps
<1>5. CASE reminded = <<>>
  BY <1>4, <1>5, SaysAppend, ItemKinds
<1>6. CASE reminded = <<Note>>
  <2>1. Compacted \o reminded = Append(Compacted, Note) /\ Note \in LoopItems /\ IsText(Note)
    BY <1>4, <1>6, SaysAppend, ItemKinds
  <2> QED BY <1>4, <2>1, TextKeeps, EndsWith
<1> QED BY <1>5, <1>6

LEMMA NoneOpen == OpenOf(<<>>) = {} /\ (LoopInv /\ phase # "tools" => OpenOf(batch) = {})
<1>1. DOMAIN <<>> = {}
  OBVIOUS
<1>2. OpenOf(<<>>) = {}
  BY <1>1 DEF OpenOf
<1> QED BY <1>2 DEF LoopInv

\* A step that leaves no batch, and a history all of whose calls are answered.
LEMMA RestKeeps ==
  ASSUME LoopInv, BatchInv', runs' \in Nat, OpenOf(batch) = {}, batch' = <<>>,
         splitBatch' = splitBatch, conversation' \in Seq(LoopItems),
         ~splitBatch => Answers(conversation', {}),
         saved' \in {saved, conversation'}
  PROVE  LoopInv'
<1>1. saved' \in Seq(LoopItems) /\ splitBatch' \in BOOLEAN
  BY DEF LoopInv
<1>2. OpenOf(batch') = {}
  BY NoneOpen
<1>3. ASSUME ~splitBatch' PROVE Answers(conversation', {}) /\ Answers(saved', {})
  <2>1. Answers(saved, {}) /\ Answers(conversation', {})
    BY <1>3 DEF LoopInv
  <2> QED BY <2>1
<1>4. ~splitBatch' => Answers(conversation', OpenOf(batch')) /\ Answers(saved', OpenOf(batch'))
  BY <1>2, <1>3
<1> QED BY <1>1, <1>4 DEF LoopInv

\* A history that a text, or nothing, is added to while no call is open.
LEMMA SaidKeeps ==
  ASSUME LoopInv, OpenOf(batch) = {}, NEW item \in LoopItems, IsText(item),
         conversation' \in {conversation, conversation \o <<item>>}
  PROVE  /\ conversation' \in Seq(LoopItems)
         /\ ~splitBatch => Answers(conversation', {})
<1>1. conversation \in Seq(LoopItems) /\ (~splitBatch => Answers(conversation, {}))
  BY DEF LoopInv
<1>2. conversation \o <<item>> = Append(conversation, item)
  BY <1>1, SaysAppend
<1>3. Append(conversation, item) \in Seq(LoopItems)
  BY <1>1, EndsWith
<1>4. ~splitBatch => Answers(Append(conversation, item), {})
  BY <1>1, TextKeeps
<1> QED BY <1>1, <1>2, <1>3, <1>4

\* Every step keeps the invariant.
LEMMA LoopStep ==
  ASSUME LoopInv, LoopNext \/ UNCHANGED loopVars
  PROVE  LoopInv'
<1>0. BatchInv' /\ runs \in Nat /\ conversation \in Seq(LoopItems) /\ Note \in LoopItems /\ IsText(Note)
  BY BatchStep, ItemKinds DEF LoopInv
<1>1. ASSUME phase # "tools" PROVE OpenOf(batch) = {} /\ batch = <<>>
  BY <1>1, NoneOpen DEF LoopInv
<1>2. ASSUME phase # "tools", UNCHANGED <<conversation, splitBatch>>, saved' \in {saved, conversation'},
             runs' \in Nat, batch' \in {batch, <<>>}
      PROVE  LoopInv'
  <2>1. ~splitBatch => Answers(conversation', {})
    BY <1>1, <1>2 DEF LoopInv
  <2>2. OpenOf(batch) = {} /\ batch' = <<>> /\ splitBatch' = splitBatch /\ conversation' \in Seq(LoopItems)
    BY <1>0, <1>1, <1>2
  <2> QED BY <1>0, <1>2, <2>1, <2>2, RestKeeps
<1>3. ASSUME phase # "tools", Asks, runs' \in Nat, UNCHANGED <<batch, splitBatch>> PROVE LoopInv'
  <2>1. conversation' = conversation \o <<<<"query", runs'>>>> /\ saved' = conversation'
    BY <1>3 DEF Asks, Says, Checkpoint
  <2>2. <<"query", runs'>> \in LoopItems /\ IsText(<<"query", runs'>>)
    BY <1>3, ItemKinds
  <2>3. conversation' \in Seq(LoopItems) /\ (~splitBatch => Answers(conversation', {}))
    BY <1>1, <1>3, <2>1, <2>2, SaidKeeps
  <2> QED BY <1>0, <1>1, <1>3, <2>1, <2>3, RestKeeps
<1>4. CASE Run
  <2>1. phase # "tools" /\ runs' \in Nat /\ UNCHANGED <<batch, splitBatch>>
    BY <1>0, <1>4 DEF Run
  <2>2. Asks \/ UNCHANGED <<conversation, saved>>
    BY <1>4 DEF Run
  <2> QED BY <1>2, <1>3, <2>1, <2>2
<1>5. CASE Titled
  BY <1>0, <1>3, <1>5 DEF Titled
<1>6. CASE ResumeRun
  BY <1>0, <1>2, <1>6 DEF ResumeRun, Checkpoint
<1>7. CASE Enqueue
  <2>1. /\ conversation' = conversation \o <<Note>> /\ saved' = conversation' /\ UNCHANGED <<phase, runs, batch>>
        /\ splitBatch' = (splitBatch \/ phase = "tools")
    BY <1>7 DEF Enqueue, Says, Checkpoint
  <2>2. CASE phase = "tools"
    <3>1. splitBatch' = TRUE
      BY <2>1, <2>2
    <3>2. conversation' \in Seq(LoopItems)
      BY <1>0, <2>1, SaysAppend, EndsWith
    <3> QED BY <1>0, <2>1, <2>2, <3>1, <3>2 DEF LoopInv
  <2>3. CASE phase # "tools"
    <3>1. splitBatch' = splitBatch
      BY <2>1, <2>3 DEF LoopInv
    <3>2. conversation' \in Seq(LoopItems) /\ (~splitBatch => Answers(conversation', {}))
      BY <1>0, <1>1, <2>1, <2>3, SaidKeeps
    <3> QED BY <1>0, <1>1, <2>1, <2>3, <3>1, <3>2, RestKeeps
  <2> QED BY <2>2, <2>3
<1>8. CASE TurnBegins
  <2>1. phase # "tools" /\ UNCHANGED <<saved, runs, splitBatch>> /\ batch' \in {batch, <<>>}
    BY <1>8 DEF TurnBegins, RunEnds
  <2>2. CASE conversation' = conversation
    BY <1>0, <1>2, <2>1, <2>2
  <2>3. CASE conversation' # conversation
    <3>1. PICK n \in 0 .. 1 : conversation' = conversation \o Drained(n)
      BY <1>8, <2>3 DEF TurnBegins, Says
    <3>2. conversation' \in {conversation, conversation \o <<Note>>}
      BY SMTT(20), <1>0, <3>1, DrainedIsOne, SaysAppend
    <3>3. conversation' \in Seq(LoopItems) /\ (~splitBatch => Answers(conversation', {}))
      BY <1>0, <1>1, <2>1, <3>2, SaidKeeps
    <3> QED BY <1>0, <1>1, <2>1, <3>3, RestKeeps
  <2> QED BY <2>2, <2>3
<1>9. CASE RequestFails \/ SummaryFails
  <2>1. /\ phase # "tools" /\ UNCHANGED <<conversation, splitBatch, saved, runs>>
        /\ batch' \in {batch, <<>>}
    BY <1>9 DEF RequestFails, SummaryFails, RunEnds
  <2> QED BY <1>0, <1>2, <2>1
<1>10. CASE Summarized \/ CompactNow
  <2>1. /\ phase # "tools" /\ LastUser # 0 /\ UNCHANGED <<splitBatch, batch, runs>> /\ saved' = conversation'
        /\ \E reminded \in {<<>>, <<Note>>} : conversation' = Compacted \o reminded
    BY <1>10 DEF Summarized, CompactNow, Compact, Checkpoint
  <2>2. CASE splitBatch
    <3>1. conversation' \in Seq(LoopItems)
      BY <1>0, <2>1, CompactionKeeps
    <3> QED BY <1>0, <1>1, <2>1, <2>2, <3>1, RestKeeps
  <2>3. CASE ~splitBatch
    <3>1. Answers(conversation, {})
      BY <1>1, <2>1, <2>3 DEF LoopInv
    <3>2. conversation' \in Seq(LoopItems) /\ Answers(conversation', {})
      BY <1>0, <2>1, <3>1, CompactionKeeps
    <3> QED BY <1>0, <1>1, <2>1, <3>2, RestKeeps
  <2> QED BY <2>2, <2>3
<1>11. CASE Replies
  <2>1. /\ phase # "tools" /\ UNCHANGED <<splitBatch, runs>> /\ saved' = conversation' /\ batch' \in {batch, <<>>}
        /\ \E n \in 0 .. 1 : conversation' = conversation \o (<<<<"reply", 0>>>> \o Drained(n))
    BY <1>11 DEF Replies, Says, Checkpoint, RunEnds
  <2>2. PICK reply \in LoopItems : reply = <<"reply", 0>>
    BY ItemKinds
  <2>3. PICK q \in Seq(LoopItems) : q = Append(conversation, reply)
    BY <1>0, EndsWith
  <2>4. ~splitBatch => Answers(q, {})
    <3>1. ~splitBatch => Answers(conversation, {})
      BY <1>1, <2>1 DEF LoopInv
    <3>2. reply[1] = "reply"
      BY <2>2
    <3> QED BY <1>0, <2>3, <3>1, <3>2, ReplyKeeps
  <2>5. conversation' \in {q, Append(q, Note)}
    <3>1. conversation' = conversation \o (<<reply>> \o <<>>) \/ conversation' = conversation \o (<<reply>> \o <<Note>>)
      BY <2>1, <2>2, DrainedIsOne
    <3> QED BY <1>0, <2>3, <3>1, SaysAppend
  <2>6. Append(q, Note) \in Seq(LoopItems) /\ (~splitBatch => Answers(Append(q, Note), {}))
    BY <1>0, <2>4, TextKeeps, EndsWith
  <2>7. conversation' \in Seq(LoopItems) /\ (~splitBatch => Answers(conversation', {}))
    BY <2>4, <2>5, <2>6
  <2> QED BY <1>0, <1>1, <2>1, <2>7, RestKeeps
<1>12. CASE CallsTools
  <2>0. /\ phase # "tools" /\ UNCHANGED <<splitBatch, runs>> /\ saved' = conversation' /\ phase' = "tools"
    BY <1>12 DEF CallsTools, Checkpoint
  <2>1. PICK n \in 1 .. BatchLimit, paths \in [1 .. BatchLimit -> ToolPaths \cup {NoPath}],
             writing \in SUBSET (1 .. BatchLimit) :
          /\ batch' = [i \in 1 .. n |-> [call |-> callCount + i, path |-> paths[i],
                                         writes |-> i \in writing /\ paths[i] # NoPath,
                                         at |-> "waiting"]]
          /\ conversation' = conversation \o [i \in 1 .. n |-> <<"call", callCount + i>>]
    BY <1>12 DEF CallsTools, Says
  <2>2. n \in Nat /\ callCount \in Nat
    BY <2>1, AgentLoopAssumption DEF BatchInv, LoopInv
  <2>3. DOMAIN batch' = 1 .. n /\ \A i \in 1 .. n : batch'[i].call = callCount + i /\ batch'[i].at = "waiting"
    BY <2>1
  <2>4. OpenOf(batch') = {callCount + i : i \in 1 .. n}
    BY <2>3 DEF OpenOf
  <2>5. CASE splitBatch
    <3>1. conversation' \in Seq(LoopItems)
      BY <1>0, <2>1, <2>2, CallsTyped, ConcatProperties
    <3> QED BY <1>0, <2>0, <2>5, <3>1 DEF LoopInv
  <2>6. CASE ~splitBatch
    <3>1. Answers(conversation, {})
      BY <1>1, <2>0, <2>6 DEF LoopInv
    <3>2. conversation' \in Seq(LoopItems) /\ Answers(conversation', OpenOf(batch'))
      BY <1>0, <2>1, <2>2, <2>4, <3>1, CallsKeep, CallsTyped, ConcatProperties
    <3> QED BY <1>0, <2>0, <2>6, <3>2 DEF LoopInv
  <2> QED BY <2>5, <2>6
<1>13. ASSUME phase = "tools", NEW i \in DOMAIN batch, CallStarts(i) PROVE LoopInv'
  <2>1. /\ batch' = [batch EXCEPT ![i].at = "running"] /\ batch[i].at = "waiting"
        /\ UNCHANGED <<phase, runs, conversation, saved, splitBatch>>
    BY <1>13 DEF CallStarts
  <2>2. OpenOf(batch') = OpenOf(batch)
    <3>1. /\ DOMAIN batch' = DOMAIN batch
          /\ \A j \in DOMAIN batch : batch'[j].call = batch[j].call /\ (batch'[j].at # "ended" <=> batch[j].at # "ended")
      BY <2>1, CallMoves DEF LoopInv
    <3> QED BY <3>1 DEF OpenOf
  <2> QED BY <1>0, <1>13, <2>1, <2>2 DEF LoopInv
<1>14. ASSUME phase = "tools", NEW i \in DOMAIN batch, CallEnds(i) PROVE LoopInv'
  <2>1. /\ batch' = [batch EXCEPT ![i].at = "ended"] /\ batch[i].at = "running"
        /\ UNCHANGED <<phase, runs>> /\ saved' = conversation'
    BY <1>14 DEF CallEnds, Checkpoint
  <2>2. PICK n \in 0 .. 1 :
          /\ conversation' = conversation \o (<<<<"output", batch[i].call>>>> \o Drained(n))
          /\ splitBatch' = (splitBatch \/ (n > 0 /\ \E j \in DOMAIN batch \ {i} : batch[j].at # "ended"))
    BY <1>14 DEF CallEnds, Says
  <2> DEFINE d == batch[i].call
  <2>3. /\ DOMAIN batch' = DOMAIN batch /\ batch'[i].at = "ended"
        /\ \A j \in DOMAIN batch : batch'[j].call = batch[j].call
        /\ \A j \in DOMAIN batch \ {i} : batch'[j].at = batch[j].at
    BY <2>1, CallMoves DEF LoopInv
  <2>4. d \in Nat
    <3>1. batch[i] \in CallOf
      BY DEF LoopInv, BatchInv
    <3> QED BY <3>1 DEF CallOf
  <2>5. /\ d \in OpenOf(batch) /\ OpenOf(batch) \ {d} \subseteq OpenOf(batch')
        /\ OpenOf(batch') \subseteq OpenOf(batch)
    <3>1. d \in OpenOf(batch)
      BY <2>1 DEF OpenOf
    <3>2. OpenOf(batch') \subseteq OpenOf(batch)
      BY <2>3 DEF OpenOf
    <3>3. ASSUME NEW c \in OpenOf(batch), c # d PROVE c \in OpenOf(batch')
      <4>1. PICK j \in DOMAIN batch : batch[j].at # "ended" /\ c = batch[j].call
        BY DEF OpenOf
      <4>2. j # i
        BY <3>3, <4>1
      <4> QED BY <2>3, <4>1, <4>2 DEF OpenOf
    <3> QED BY <3>1, <3>2, <3>3
  <2>6. PICK output \in LoopItems : output = <<"output", d>>
    BY <2>4, ItemKinds
  <2>7. PICK q \in Seq(LoopItems) : q = Append(conversation, output)
    BY <1>0, EndsWith
  <2>8. ~splitBatch => Answers(q, OpenOf(batch'))
    <3>1. ~splitBatch => Answers(conversation, OpenOf(batch))
      BY DEF LoopInv
    <3> QED BY <1>0, <2>4, <2>5, <2>6, <2>7, <3>1, OutputKeeps
  <2> HIDE DEF d
  <2>9. CASE n = 0
    <3>1. splitBatch' = splitBatch
      BY <2>2, <2>9 DEF LoopInv
    <3>2. conversation' = q
      BY <1>0, <2>2, <2>6, <2>7, <2>9, DrainedIsOne, SaysAppend DEF d
    <3> QED BY <1>0, <1>14, <2>1, <2>8, <3>1, <3>2 DEF LoopInv
  <2>10. CASE n = 1
    <3>1. conversation' = Append(q, Note)
      <4>1. conversation' = conversation \o (<<output>> \o <<Note>>)
        BY <2>2, <2>6, <2>10, DrainedIsOne DEF d
      <4> QED BY <1>0, <2>7, <4>1, SaysAppend
    <3>2. conversation' \in Seq(LoopItems) /\ splitBatch' \in BOOLEAN
      <4>1. conversation' \in Seq(LoopItems)
        <5>1. q \in Seq(LoopItems) /\ Note \in LoopItems
          BY <1>0, <2>8
        <5> QED BY <3>1, <5>1, EndsWith
      <4>2. splitBatch' \in BOOLEAN
        <5> DEFINE others == n > 0 /\ \E j \in DOMAIN batch \ {i} : batch[j].at # "ended"
        <5>1. splitBatch' = (splitBatch \/ others)
          BY <2>2
        <5> HIDE DEF others
        <5> QED BY <5>1 DEF LoopInv
      <4> QED BY <4>1, <4>2
    <3>3. ASSUME ~splitBatch' PROVE Answers(conversation', OpenOf(batch'))
      <4>0. n > 0 /\ splitBatch \in BOOLEAN
        BY <2>10 DEF LoopInv
      <4>1. ~splitBatch /\ \A j \in DOMAIN batch \ {i} : batch[j].at = "ended"
        BY <2>2, <3>3, <4>0
      <4>2. OpenOf(batch') = {}
        BY <2>3, <4>1 DEF OpenOf
      <4> QED BY <1>0, <2>8, <3>1, <4>1, <4>2, TextKeeps
    <3> QED BY <1>0, <1>14, <2>1, <3>2, <3>3 DEF LoopInv
  <2> QED BY <2>9, <2>10
<1>15. CASE BatchEnds
  <2>1. /\ \A i \in DOMAIN batch : batch[i].at = "ended"
        /\ batch' = <<>> /\ UNCHANGED <<runs, conversation, saved, splitBatch>>
    BY <1>15 DEF BatchEnds, RunEnds
  <2>2. OpenOf(batch) = {}
    BY <2>1 DEF OpenOf
  <2>3. ~splitBatch => Answers(conversation', {})
    BY <2>1, <2>2 DEF LoopInv
  <2> QED BY <1>0, <2>1, <2>2, <2>3, RestKeeps
<1>16. CASE StopRun
  <2>1. UNCHANGED <<runs, conversation, saved, splitBatch>>
    BY <1>16 DEF StopRun
  <2>2. (phase' = phase /\ batch' = batch) \/ (phase # "tools" /\ batch' = <<>>)
    BY <1>16 DEF StopRun, RunEnds
  <2>3. CASE phase' = phase /\ batch' = batch
    BY <1>0, <2>1, <2>3 DEF LoopInv
  <2>4. CASE phase # "tools" /\ batch' = <<>>
    BY <1>0, <1>2, <2>1, <2>4
  <2> QED BY <2>2, <2>3, <2>4
<1>17. CASE Restore
  <2>1. /\ conversation' = saved /\ UNCHANGED <<saved, runs>> /\ batch' = <<>>
        /\ splitBatch' = (splitBatch \/ phase = "tools")
    BY <1>17 DEF Restore, RunEnds
  <2>2. CASE phase = "tools"
    <3>1. splitBatch' = TRUE
      BY <2>1, <2>2
    <3> QED BY <1>0, <2>1, <3>1 DEF LoopInv
  <2>3. CASE phase # "tools"
    <3>1. splitBatch' = splitBatch
      BY <2>1, <2>3 DEF LoopInv
    <3>2. conversation' \in Seq(LoopItems) /\ (~splitBatch => Answers(conversation', {}))
      BY <1>1, <2>1, <2>3 DEF LoopInv
    <3> QED BY <1>0, <1>1, <2>1, <2>3, <3>1, <3>2, RestKeeps
  <2> QED BY <2>2, <2>3
<1>18. CASE UNCHANGED loopVars
  <2>1. UNCHANGED <<phase, runs, conversation, saved, batch, splitBatch>>
    BY <1>18 DEF loopVars
  <2> QED BY <1>0, <2>1 DEF LoopInv
<1> QED
  BY <1>4, <1>5, <1>6, <1>7, <1>8, <1>9, <1>10, <1>11, <1>12, <1>13, <1>14, <1>15, <1>16, <1>17, <1>18
     DEF LoopNext, ToolStep

\* For every instance, files and lengths of its batches: what a session's loop keeps is fit to be sent -
\* a file that a call writes is no other call's meanwhile, and a sample is asked for with every
\* call answered and no answer alone, across compactions, retries, stops and reloads
\* (grok-build-agent.ts runInternal, grok-build-compaction.ts).
THEOREM CallsStayAnswered == LoopSpec => []LoopKeepsItsCalls
<1>1. LoopInit => LoopInv
  <2> SUFFICES ASSUME LoopInit PROVE LoopInv
    OBVIOUS
  <2>1. conversation = <<>> /\ saved = <<>> /\ batch = <<>> /\ runs = 0 /\ splitBatch = FALSE /\ callCount = 0
    BY DEF LoopInit
  <2>2. BatchInv
    BY <2>1 DEF BatchInv, InOrder
  <2> QED BY <2>1, <2>2, NothingSaid, NoneOpen DEF LoopInv
<1>2. LoopInv /\ [LoopNext]_loopVars => LoopInv'
  BY LoopStep
<1>3. LoopInv => LoopKeepsItsCalls
  <2> SUFFICES ASSUME LoopInv PROVE LoopKeepsItsCalls
    OBVIOUS
  <2>1. WritesAreAlone
    BY InOrderIsAlone DEF LoopInv
  <2>2. CallsAreAnswered
    <3> SUFFICES ASSUME phase = "sampling", ~splitBatch, NEW c \in 1 .. callCount, NEW i \in DOMAIN conversation
                 PROVE  /\ conversation[i] = <<"call", c>> => \E j \in i .. Len(conversation) : conversation[j] = <<"output", c>>
                        /\ conversation[i] = <<"output", c>> => \E j \in 1 .. i : conversation[j] = <<"call", c>>
      BY DEF CallsAreAnswered
    <3>1. Answers(conversation, {}) /\ i \in 1 .. Len(conversation) /\ Len(conversation) \in Nat /\ c \in Nat
      BY NoneOpen, LenProperties DEF LoopInv, BatchInv
    <3>2. ASSUME conversation[i] = <<"call", c>> PROVE \E j \in i .. Len(conversation) : conversation[j] = <<"output", c>>
      <4>1. PICK j \in i + 1 .. Len(conversation) : conversation[j] = <<"output", c>>
        BY <3>1, <3>2 DEF Answers
      <4>2. j \in i .. Len(conversation)
        BY <3>1, <4>1
      <4> QED BY <4>1, <4>2
    <3>3. ASSUME conversation[i] = <<"output", c>> PROVE \E j \in 1 .. i : conversation[j] = <<"call", c>>
      BY <3>1, <3>3 DEF Answers
    <3> QED BY <3>2, <3>3
  <2> QED BY <2>1, <2>2 DEF LoopKeepsItsCalls
<1> QED BY <1>1, <1>2, <1>3, PTL DEF LoopSpec

-----------------------------------------------------------------------------
(***************************************************************************)
(* The gate of tool calls                                                  *)
(***************************************************************************)

\* The inductive invariant: what was rejected for good is denied, in memory and in what the
\* manager persisted last, which a reload makes the memory of the next page.
GateInv ==
  /\ at \in [GateCalls -> Stages]
  /\ DOMAIN request = GateCalls
  /\ rejected \subseteq denied
  /\ rejected \subseteq stored.denied

\* The turn of a prompt only asks one call; every other stays where it stands.
LEMMA TurnsAsk ==
  ASSUME NEW stages \in [GateCalls -> Stages], NEW slots
  PROVE  /\ Turns(stages, slots) \in [GateCalls -> Stages]
         /\ \A c \in GateCalls :
              \/ Turns(stages, slots)[c] = stages[c]
              \/ stages[c] = "waits" /\ Turns(stages, slots)[c] = "asked"
  BY DEF Turns, Stages

\* Whatever the person answers, what was rejected stays denied.
LEMMA GrantsKeepDenials ==
  ASSUME GateInv, NEW outcome, NEW r, Grant(outcome, r)
  PROVE  rejected' \subseteq denied' /\ rejected' \subseteq stored'.denied
<1>1. ASSUME Persist
      PROVE  stored'.denied = denied'
  BY <1>1 DEF Persist
<1>2. CASE outcome = "reject-always"
  BY <1>1, <1>2 DEF Grant, GateInv
<1>3. CASE outcome = "allow-always"
  BY <1>1, <1>3 DEF Grant, GateInv
<1>4. CASE outcome \notin {"reject-always", "allow-always"}
  BY <1>4 DEF Grant, GateInv, grants
<1> QED
  BY <1>2, <1>3, <1>4

\* Only a command has segments, and one with a rejected segment is not run unasked while it
\* is denied, but for those who approve everything.
LEMMA DeniedIsNotRun ==
  ASSUME GateInv, NEW r, r.kind = "bash", r.parts \cap rejected # {}, Decision(r) = "ran"
  PROVE  alwaysApprove \/ policy.bypass
<1>1. IsDenied(r)
  BY DEF GateInv, IsDenied
<1> QED
  BY <1>1 DEF Decision

\* What a call comes to when it is made.
LEMMA ExecuteKeeps ==
  ASSUME GateInv, NEW c \in GateCalls, Execute(c)
  PROVE  /\ at' \in [GateCalls -> Stages]
         /\ DOMAIN request' = GateCalls
         /\ UNCHANGED grants
         /\ \A d \in GateCalls :
              at[d] = "new" /\ at'[d] = "ran" /\ request'[d].parts \cap rejected # {} =>
                alwaysApprove \/ policy.bypass
<1>1. PICK r \in Request :
        /\ r.kind = "bash" <=> r.parts # {}
        /\ request' = [request EXCEPT ![c] = r]
        /\ Gated(c, r) \/ Entering(c, r) \/ Presents(c, r)
  BY DEF Execute
<1>2. /\ DOMAIN request' = GateCalls
      /\ request'[c] = r
  BY <1>1 DEF GateInv
<1>3. UNCHANGED grants
  BY <1>1 DEF Gated, Entering, Presents
<1>4. ASSUME NEW stage \in Stages, at' = [at EXCEPT ![c] = stage]
      PROVE  /\ at' \in [GateCalls -> Stages]
             /\ at'[c] = stage
             /\ \A d \in GateCalls \ {c} : at'[d] = at[d]
  BY <1>4 DEF GateInv
<1>5. CASE Entering(c, r) \/ Presents(c, r)
  <2>1. /\ at' \in [GateCalls -> Stages]
        /\ at'[c] # "ran"
        /\ \A d \in GateCalls \ {c} : at'[d] = at[d]
    BY <1>4, <1>5 DEF Entering, Presents, Stages
  <2> QED
    BY <1>2, <1>3, <2>1
<1>6. CASE Gated(c, r)
  <2>1. CASE planMode /\ OtherEdit(r)
    <3>1. at' = [at EXCEPT ![c] = "refused"]
      BY <1>6, <2>1 DEF Gated
    <3> QED
      BY <1>2, <1>3, <1>4, <3>1 DEF Stages
  <2>2. CASE /\ ~(planMode /\ OtherEdit(r))
             /\ (planMode /\ PlanEdit(r)) \/ Decision(r) = "ran"
    <3>1. at' = [at EXCEPT ![c] = "ran"]
      BY <1>6, <2>2 DEF Gated, Runs
    <3>2. /\ at' \in [GateCalls -> Stages]
          /\ \A d \in GateCalls \ {c} : at'[d] = at[d]
      BY <1>4, <3>1 DEF Stages
    <3>3. r.parts \cap rejected # {} => alwaysApprove \/ policy.bypass
      BY <1>1, <2>2, DeniedIsNotRun DEF PlanEdit
    <3> QED
      BY <1>2, <1>3, <3>2, <3>3
  <2>3. CASE /\ ~(planMode /\ OtherEdit(r))
             /\ ~((planMode /\ PlanEdit(r)) \/ Decision(r) = "ran")
    <3>1. PICK waiting : waiting = [at EXCEPT ![c] = "waits"]
      OBVIOUS
    <3>2. /\ waiting \in [GateCalls -> Stages] /\ waiting[c] = "waits"
          /\ \A d \in GateCalls \ {c} : waiting[d] = at[d]
      BY <3>1 DEF GateInv, Stages
    <3>3. at' \in {Turns(waiting, line'), [at EXCEPT ![c] = "refused"]}
      BY <1>6, <2>3, <3>1 DEF Gated
    <3>4. /\ at' \in [GateCalls -> Stages]
          /\ at'[c] # "ran"
          /\ \A d \in GateCalls \ {c} : at'[d] = at[d] \/ at'[d] = "asked"
      <4>1. CASE at' = Turns(waiting, line')
        BY <3>2, <4>1, TurnsAsk
      <4>2. CASE at' = [at EXCEPT ![c] = "refused"]
        BY <1>4, <4>2 DEF Stages
      <4> QED
        BY <3>3, <4>1, <4>2
    <3> QED
      BY <1>2, <1>3, <3>4
  <2> QED
    BY <2>1, <2>2, <2>3
<1> QED
  BY <1>1, <1>5, <1>6

\* A step that makes no call starts none, and a grant is all that changes what is denied.
LEMMA OthersStartNothing ==
  ASSUME GateInv,
         \/ \E c \in GateCalls : AnswerPrompt(c) \/ AnswerEntry(c) \/ AnswerExit(c) \/ ExitIsLost(c)
         \/ \E s \in Signals : Abort(s)
         \/ ReloadPage \/ FirstRun \/ ResumeAnswered \/ ToggleApprove
  PROVE  /\ GateInv'
         /\ \A d \in GateCalls : at[d] = "new" => at'[d] # "ran"
<1>1. ASSUME NEW c \in GateCalls, AnswerPrompt(c)
      PROVE  /\ GateInv'
             /\ \A d \in GateCalls : at[d] = "new" => at'[d] # "ran"
  <2>1. PICK outcome \in Offered(request[c]), stage \in {"ran", "refused"} :
          /\ at' = Turns([at EXCEPT ![c] = stage], line')
          /\ Grant(outcome, request[c])
    BY <1>1 DEF AnswerPrompt
  <2>2. PICK stages : stages = [at EXCEPT ![c] = stage]
    OBVIOUS
  <2>3. /\ stages \in [GateCalls -> Stages]
        /\ \A d \in GateCalls \ {c} : stages[d] = at[d]
    BY <2>2 DEF GateInv, Stages
  <2>4. /\ at' \in [GateCalls -> Stages]
        /\ \A d \in GateCalls : at'[d] \in {stages[d], "asked"}
    BY <2>1, <2>2, <2>3, TurnsAsk
  <2>5. DOMAIN request' = GateCalls
    BY <1>1 DEF AnswerPrompt, GateInv
  <2>6. rejected' \subseteq denied' /\ rejected' \subseteq stored'.denied
    BY <2>1, GrantsKeepDenials
  <2> QED
    BY <1>1, <2>3, <2>4, <2>5, <2>6 DEF AnswerPrompt, GateInv
<1>2. ASSUME NEW c \in GateCalls, AnswerEntry(c) \/ AnswerExit(c) \/ ExitIsLost(c)
      PROVE  /\ GateInv'
             /\ \A d \in GateCalls : at[d] = "new" => at'[d] # "ran"
  <2>1. PICK stage \in {"ran", "refused"} : at' = [at EXCEPT ![c] = stage]
    BY <1>2 DEF AnswerEntry, AnswerExit, ExitIsLost
  <2>2. UNCHANGED <<request, grants>>
    BY <1>2 DEF AnswerEntry, AnswerExit, ExitIsLost
  <2>3. at[c] # "new"
    BY <1>2 DEF AnswerEntry, AnswerExit, ExitIsLost
  <2>4. at' \in [GateCalls -> Stages]
    BY <2>1 DEF GateInv, Stages
  <2> QED
    BY <2>1, <2>2, <2>3, <2>4 DEF GateInv, grants
<1>3. ASSUME NEW s \in Signals, Abort(s)
      PROVE  /\ GateInv'
             /\ \A d \in GateCalls : at[d] = "new" => at'[d] # "ran"
  <2>1. PICK leaving, stages :
          /\ leaving \subseteq {c \in GateCalls : at[c] \in Open}
          /\ stages = [c \in GateCalls |-> IF c \in leaving THEN "refused" ELSE at[c]]
          /\ at' = Turns(stages, line')
    BY <1>3 DEF Abort
  <2>2. /\ stages \in [GateCalls -> Stages]
        /\ \A d \in GateCalls : at[d] = "new" => stages[d] = "new"
    BY <2>1 DEF GateInv, Stages, Open
  <2>3. /\ at' \in [GateCalls -> Stages]
        /\ \A d \in GateCalls : at'[d] \in {stages[d], "asked"}
    BY <2>1, <2>2, TurnsAsk
  <2>4. UNCHANGED <<request, grants>>
    BY <1>3 DEF Abort
  <2> QED
    BY <2>2, <2>3, <2>4 DEF GateInv, grants
<1>4. CASE ReloadPage
  <2>1. /\ at' \in [GateCalls -> Stages]
        /\ \A d \in GateCalls : at[d] = "new" => at'[d] = "new"
    BY <1>4 DEF ReloadPage, GateInv, Stages, Open
  <2> QED
    BY <1>4, <2>1 DEF ReloadPage, GateInv
<1>5. CASE FirstRun \/ ResumeAnswered \/ ToggleApprove
  BY <1>5 DEF FirstRun, ResumeAnswered, ToggleApprove, GateInv, grants
<1> QED
  BY <1>1, <1>2, <1>3, <1>4, <1>5

\* The invariant, and the property of one step.
LEMMA GateStep ==
  ASSUME GateInv, GateNext
  PROVE  /\ GateInv'
         /\ \A c \in GateCalls :
              at[c] = "new" /\ at'[c] = "ran" /\ request'[c].parts \cap rejected # {} =>
                alwaysApprove \/ policy.bypass
<1>1. CASE \E c \in GateCalls : Execute(c)
  BY <1>1, ExecuteKeeps DEF GateInv, grants
<1>2. CASE ~\E c \in GateCalls : Execute(c)
  <2>1. /\ GateInv'
        /\ \A d \in GateCalls : at[d] = "new" => at'[d] # "ran"
    BY <1>2, OthersStartNothing DEF GateNext
  <2> QED
    BY <2>1
<1> QED
  BY <1>1, <1>2

\* RejectedIsAskedFirst for any commands, any number of calls under way and any settings.
THEOREM RejectionsHold == GateSpec => RejectedIsAskedFirst
<1>1. GateInit => GateInv
  BY DEF GateInit, GateInv, Stages
<1>2. GateInv /\ [GateNext]_gateVars => GateInv'
  <2>1. GateInv /\ UNCHANGED gateVars => GateInv'
    BY DEF GateInv, gateVars, grants
  <2> QED
    BY <2>1, GateStep
<1>3. GateInv /\ [GateNext]_gateVars =>
        [\A c \in GateCalls :
           at[c] = "new" /\ at'[c] = "ran" /\ request'[c].parts \cap rejected # {} =>
             alwaysApprove \/ policy.bypass]_gateVars
  BY GateStep
<1> QED
  BY <1>1, <1>2, <1>3, PTL DEF GateSpec, RejectedIsAskedFirst

-----------------------------------------------------------------------------
(***************************************************************************)
(* Subagents' tools                                                        *)
(***************************************************************************)

\* What a mode may be where modes meet, and what a run is given.
AnyMode == Modes \cup {Unset}
Giving == [tools : SUBSET AllTools, ceilings : SUBSET Modes, memory : BOOLEAN]
RunStages  == {"none", "reserved", "admitted", "hooks", "prompt", "sampling", "judged",
               "stopping", "done", "over"}
RunResults == {"none", "called", "uncalled", "limit", "failed", "broken"}
RunOf == [at : RunStages, given : Giving, requires : BOOLEAN, result : RunResults,
          retries : Nat, rounds : Nat]

\* The property of one run.
Ceiled(given) ==
  \A mode \in given.ceilings :
    given.tools \ Within(mode) \subseteq (IF given.memory THEN MemoryTools ELSE {})

\* The inductive invariant: what a run was given, whatever it is doing.
CeilingInv ==
  /\ subRun \in [SubRuns -> RunOf]
  /\ \A r \in SubRuns : Ceiled(subRun[r].given)

\* Where two modes meet, neither lets a tool through that the other forbids.
LEMMA MeetsBelowBoth ==
  ASSUME NEW a \in AnyMode, NEW b \in AnyMode
  PROVE  /\ Intersect(a, b) \in AnyMode
         /\ Within(Intersect(a, b)) \subseteq Within(a)
         /\ Within(Intersect(a, b)) \subseteq Within(b)
<1>1. CASE Intersect(a, b) = a
  BY <1>1 DEF AnyMode, Modes, Unset, Intersect, Within, AllTools
<1>2. CASE Intersect(a, b) = b
  BY <1>2 DEF AnyMode, Modes, Unset, Intersect, Within, AllTools
<1>3. CASE Intersect(a, b) = "read-only"
  BY <1>3 DEF AnyMode, Modes, Within, AllTools
<1> QED
  BY <1>1, <1>2, <1>3 DEF AnyMode, Modes, Unset, Intersect

\* A definition that is found is well formed: its own mode is one a file may name.
LEMMA FoundIsWellFormed ==
  ASSUME NEW type \in Types, NEW p \in FileDefinitions, NEW u \in FileDefinitions,
         Discovered(type, p, u) # Absent
  PROVE  /\ Discovered(type, p, u).ceiling \in AnyMode
         /\ Discovered(type, p, u).memory \in BOOLEAN
         /\ Discovered(type, p, u).requires \in BOOLEAN
<1>1. \A f \in FileDefinitions : ReadDefinition(f) \in Definitions \cup {Absent}
  BY DEF ReadDefinition, WellFormed, FileDefinitions
<1>2. Discovered(type, p, u) \in Definitions \cup {Plain}
  BY <1>1 DEF Discovered
<1>3. /\ Plain.ceiling \in AnyMode
      /\ Plain.memory \in BOOLEAN /\ Plain.requires \in BOOLEAN
  BY DEF Plain, AnyMode
<1>4. ASSUME NEW d \in Definitions
      PROVE  /\ d.ceiling \in AnyMode
             /\ d.memory \in BOOLEAN /\ d.requires \in BOOLEAN
  <2>1. CASE d = [Plain EXCEPT !.ceiling = "read-write", !.requires = TRUE]
    BY <2>1 DEF Plain, AnyMode, Modes
  <2>2. CASE d = [Plain EXCEPT !.injects = FALSE,
                               !.listed = {"search_replace", "run_terminal_command"}]
    BY <2>2 DEF Plain, AnyMode
  <2>3. CASE d = [Plain EXCEPT !.ceiling = "read-only", !.memory = TRUE, !.denied = {"grep"},
                               !.listed = {"run_terminal_command", "unknown"}]
    BY <2>3 DEF Plain, AnyMode, Modes
  <2> QED
    BY <1>4, <2>1, <2>2, <2>3 DEF Definitions
<1> QED
  BY <1>2, <1>3, <1>4

\* A role's file names no other mode either.
LEMMA RolesHaveModes == RoleModes \subseteq AnyMode
  BY DEF RoleModes, RoleMode, AnyMode, Modes, Unset

\* The tools of a mode and a definition: within the mode, but for the files of a memory.
LEMMA ToolsOfMode ==
  ASSUME NEW type \in Types, NEW mode, NEW d
  PROVE  /\ ToolNames(type, mode, d) \subseteq AllTools
         /\ ToolNames(type, mode, d) \ Within(mode)
              \subseteq (IF d.memory THEN MemoryTools ELSE {})
<1>1. MemoryTools \subseteq AllTools
  BY DEF MemoryTools, AllTools, ReadTools, WriteTools
<1>2. Within(mode) \subseteq AllTools
  BY DEF Within, AllTools
<1> QED
  BY <1>1, <1>2 DEF ToolNames

\* What a run is given when it resolves its definition keeps within every mode that is set.
LEMMA GivenIsCeiled ==
  ASSUME NEW q \in SubRequests, NEW roleMode \in RoleModes,
         NEW p \in FileDefinitions, NEW u \in FileDefinitions, NEW d,
         d = Discovered(q.type, p, u), d # Absent,
         NEW given,
         given = [tools    |-> ToolNames(q.type, ModeFor(q.mode, roleMode, d), d),
                  ceilings |-> {q.mode, roleMode, d.ceiling} \ {Unset},
                  memory   |-> d.memory]
  PROVE  given \in Giving /\ Ceiled(given)
<1>1. q.type \in Types /\ q.mode \in AnyMode
  BY DEF SubRequests, AnyMode, Modes
<1>2. d.ceiling \in AnyMode /\ d.memory \in BOOLEAN
  BY <1>1, FoundIsWellFormed
<1>3. roleMode \in AnyMode
  BY RolesHaveModes
<1> DEFINE asked == Intersect(q.mode, roleMode)
           meet  == ModeFor(q.mode, roleMode, d)
<1>4. /\ asked \in AnyMode
      /\ Within(asked) \subseteq Within(q.mode) \cap Within(roleMode)
  BY <1>1, <1>3, MeetsBelowBoth
<1>5. Within(meet) \subseteq Within(asked) \cap Within(d.ceiling)
  BY <1>2, <1>4, MeetsBelowBoth DEF ModeFor
<1>6. /\ given.tools \subseteq AllTools
      /\ given.tools \ Within(meet) \subseteq (IF given.memory THEN MemoryTools ELSE {})
  <2>1. given.tools = ToolNames(q.type, meet, d) /\ given.memory = d.memory
    OBVIOUS
  <2> QED
    BY <1>1, <2>1, ToolsOfMode
<1>7. given.ceilings = {q.mode, roleMode, d.ceiling} \ {Unset}
  OBVIOUS
<1>8. Ceiled(given)
  <2> HIDE DEF asked, meet
  <2>1. \A mode \in given.ceilings : Within(meet) \subseteq Within(mode)
    BY <1>4, <1>5, <1>7
  <2> QED
    BY <1>6, <2>1 DEF Ceiled
<1>9. given \in Giving
  <2>1. given.ceilings \subseteq Modes
    BY <1>1, <1>2, <1>3, <1>7 DEF AnyMode
  <2>2. given.memory \in BOOLEAN
    BY <1>2
  <2>3. given.tools \in SUBSET AllTools
    BY <1>6
  <2>4. given = [tools |-> given.tools, ceilings |-> given.ceilings, memory |-> given.memory]
    OBVIOUS
  <2> QED
    BY <2>1, <2>2, <2>3, <2>4 DEF Giving
<1> QED
  BY <1>8, <1>9

\* A step that replaces the record of one run.
LEMMA RunKeepsCeiling ==
  ASSUME CeilingInv, NEW r \in SubRuns, NEW rec \in RunOf, Ceiled(rec.given),
         subRun' = [subRun EXCEPT ![r] = rec]
  PROVE  CeilingInv'
<1>1. subRun' \in [SubRuns -> RunOf]
  BY DEF CeilingInv
<1>2. \A s \in SubRuns : Ceiled(subRun'[s].given)
  BY DEF CeilingInv
<1> QED
  BY <1>1, <1>2 DEF CeilingInv, Ceiled

\* A run that is given nothing is within every mode.
LEMMA NothingIsCeiled == NothingGiven \in Giving /\ Ceiled(NothingGiven)
  BY DEF NothingGiven, Giving, Ceiled

\* A run that is over, or begins, is given nothing.
LEMMA FreshIsCeiled ==
  /\ Fresh \in RunOf /\ Fresh.given = NothingGiven
  /\ [Fresh EXCEPT !.at = "over"] \in RunOf
  /\ [Fresh EXCEPT !.at = "over"].given = NothingGiven
  BY NothingIsCeiled DEF Fresh, RunOf, RunStages, RunResults

\* Every step of a subagent's run keeps the invariant.
LEMMA CeilingStep ==
  ASSUME CeilingInv, SubagentNext \/ UNCHANGED subagentVars
  PROVE  CeilingInv'
<1>1. ASSUME UNCHANGED subRun
      PROVE  CeilingInv'
  BY <1>1 DEF CeilingInv, Ceiled
<1>2. ASSUME NEW r \in SubRuns, SubRunEnds(r)
      PROVE  CeilingInv'
  BY <1>2, RunKeepsCeiling, FreshIsCeiled, NothingIsCeiled DEF SubRunEnds
<1>3. ASSUME NEW r \in SubRuns, NEW rec,
             subRun' = [subRun EXCEPT ![r] = rec],
             rec \in RunOf, rec.given \in {subRun[r].given, NothingGiven}
      PROVE  CeilingInv'
  BY <1>3, RunKeepsCeiling, NothingIsCeiled DEF CeilingInv
<1>4. ASSUME NEW r \in SubRuns, NEW stage \in RunStages, MovesOn(r, stage)
      PROVE  CeilingInv'
  <2>1. subRun[r] \in RunOf
    BY DEF CeilingInv
  <2>2. PICK rec : rec = [subRun[r] EXCEPT !.at = stage]
    OBVIOUS
  <2>3. rec \in RunOf /\ rec.given = subRun[r].given
    BY <2>1, <2>2 DEF RunOf, RunStages, RunResults
  <2>4. subRun' = [subRun EXCEPT ![r] = rec]
    BY <1>4, <2>2 DEF MovesOn, CeilingInv
  <2> QED
    BY <2>3, <2>4, <1>3
<1>5. ASSUME NEW r \in SubRuns,
             NEW q \in SubRequests, NEW roleMode \in RoleModes,
             NEW p \in FileDefinitions, NEW u \in FileDefinitions,
             Resolves(r, q, Discovered(q.type, p, u), roleMode)
      PROVE  CeilingInv'
  <2>1. PICK d : d = Discovered(q.type, p, u)
    OBVIOUS
  <2>2. Resolves(r, q, d, roleMode)
    BY <1>5, <2>1
  <2>3. CASE Refused(r)
    BY <2>3, <1>2 DEF Refused
  <2>4. CASE ~Refused(r)
    <3>1. PICK given : given = [tools    |-> ToolNames(q.type, ModeFor(q.mode, roleMode, d), d),
                                ceilings |-> {q.mode, roleMode, d.ceiling} \ {Unset},
                                memory   |-> d.memory]
      OBVIOUS
    <3>2. d # Absent
      BY <2>2, <2>4 DEF Resolves
    <3>3. given \in Giving /\ Ceiled(given)
      BY <2>1, <3>1, <3>2, GivenIsCeiled
    <3>4. d.requires \in BOOLEAN
      <4>1. q.type \in Types
        BY DEF SubRequests
      <4> QED
        BY <2>1, <3>2, <4>1, FoundIsWellFormed
    <3>5. PICK rec : rec = [Fresh EXCEPT !.at = "hooks", !.requires = d.requires, !.given = given]
      OBVIOUS
    <3>6. rec \in RunOf /\ rec.given = given
      BY <3>3, <3>4, <3>5, FreshIsCeiled DEF RunOf, RunStages, RunResults, Fresh
    <3>7. subRun' = [subRun EXCEPT ![r] = rec]
      BY <2>2, <2>4, <3>1, <3>5 DEF Resolves
    <3> QED
      BY <3>3, <3>6, <3>7, RunKeepsCeiling
  <2> QED
    BY <2>3, <2>4
<1>6. ASSUME NEW r \in SubRuns, SessionStarts(r)
      PROVE  CeilingInv'
  <2>1. subRun[r] \in RunOf
    BY DEF CeilingInv
  <2>2. PICK rec : rec = [subRun[r] EXCEPT !.at = "prompt", !.given = NothingGiven]
    OBVIOUS
  <2>3. rec \in RunOf /\ rec.given = NothingGiven
    BY <2>1, <2>2, NothingIsCeiled DEF RunOf, RunStages, RunResults
  <2>4. subRun' = [subRun EXCEPT ![r] = rec]
    BY <1>6, <2>2 DEF SessionStarts, CeilingInv
  <2> QED
    BY <2>3, <2>4, <1>3
<1>7. ASSUME NEW r \in SubRuns, NEW refuses \in BOOLEAN, PromptGate(r, refuses)
      PROVE  CeilingInv'
  <2>1. subRun[r] \in RunOf
    BY DEF CeilingInv
  <2>2. PICK rec : rec = [subRun[r] EXCEPT !.at = IF refuses THEN "judged" ELSE "sampling",
                                           !.result = IF refuses THEN "failed" ELSE "none"]
    OBVIOUS
  <2>3. rec \in RunOf /\ rec.given = subRun[r].given
    BY <2>1, <2>2 DEF RunOf, RunStages, RunResults
  <2>4. subRun' = [subRun EXCEPT ![r] = rec]
    BY <1>7, <2>2 DEF PromptGate, CeilingInv
  <2> QED
    BY <2>3, <2>4, <1>3
<1>8. ASSUME NEW r \in SubRuns,
             NEW result \in {"called", "uncalled", "limit", "failed", "broken"},
             Samples(r, result)
      PROVE  CeilingInv'
  <2>1. subRun[r] \in RunOf
    BY DEF CeilingInv
  <2>2. PICK rec : rec = [subRun[r] EXCEPT !.at = "judged", !.result = result]
    OBVIOUS
  <2>3. rec \in RunOf /\ rec.given = subRun[r].given
    BY <2>1, <2>2 DEF RunOf, RunStages, RunResults
  <2>4. subRun' = [subRun EXCEPT ![r] = rec]
    BY <1>8, <2>2 DEF Samples, CeilingInv
  <2> QED
    BY <2>3, <2>4, <1>3
<1>9. ASSUME NEW r \in SubRuns, Judged(r)
      PROVE  CeilingInv'
  <2>1. subRun[r] \in RunOf
    BY DEF CeilingInv
  <2>2. CASE Fails(r)
    BY <2>2, <1>2 DEF Fails
  <2>3. CASE subRun' = [subRun EXCEPT ![r].at = "prompt", ![r].retries = @ + 1, ![r].result = "none"]
    <3>1. PICK n \in Nat : n = subRun[r].retries + 1
      BY <2>1 DEF RunOf
    <3>2. PICK rec : rec = [subRun[r] EXCEPT !.at = "prompt", !.retries = n, !.result = "none"]
      OBVIOUS
    <3>3. rec \in RunOf /\ rec.given = subRun[r].given
      BY <2>1, <3>2 DEF RunOf, RunStages, RunResults
    <3>4. subRun' = [subRun EXCEPT ![r] = rec]
      BY <2>3, <3>1, <3>2 DEF CeilingInv
    <3> QED
      BY <3>3, <3>4, <1>3
  <2>4. CASE subRun' = [subRun EXCEPT ![r].at = IF subRun[r].result = "limit" THEN "done" ELSE "stopping",
                                      ![r].result = "none"]
    <3>1. PICK stage : stage = IF subRun[r].result = "limit" THEN "done" ELSE "stopping"
      OBVIOUS
    <3>2. PICK rec : rec = [subRun[r] EXCEPT !.at = stage, !.result = "none"]
      OBVIOUS
    <3>3. stage \in RunStages
      BY <3>1 DEF RunStages
    <3>4. rec \in RunOf /\ rec.given = subRun[r].given
      BY <2>1, <3>2, <3>3 DEF RunOf, RunResults
    <3>5. subRun' = [subRun EXCEPT ![r] = rec]
      BY <2>4, <3>1, <3>2 DEF CeilingInv
    <3> QED
      BY <3>4, <3>5, <1>3
  <2> QED
    BY <1>9, <2>2, <2>3, <2>4 DEF Judged
<1>10. ASSUME NEW r \in SubRuns, NEW sentBack \in BOOLEAN, StopGate(r, sentBack)
       PROVE  CeilingInv'
  <2>1. subRun[r] \in RunOf
    BY DEF CeilingInv
  <2>2. PICK rec : rec = [subRun[r] EXCEPT !.at = IF sentBack THEN "prompt" ELSE "done",
                                           !.rounds = IF sentBack THEN @ + 1 ELSE @,
                                           !.retries = IF sentBack THEN 0 ELSE @]
    OBVIOUS
  <2>3. rec \in RunOf /\ rec.given = subRun[r].given
    <3>1. CASE sentBack
      <4>1. PICK n \in Nat : n = subRun[r].rounds + 1
        BY <2>1 DEF RunOf
      <4>2. rec = [subRun[r] EXCEPT !.at = "prompt", !.rounds = n, !.retries = 0]
        BY <2>2, <3>1, <4>1
      <4> QED
        BY <2>1, <4>2 DEF RunOf, RunStages
    <3>2. CASE ~sentBack
      <4>1. rec = [subRun[r] EXCEPT !.at = "done", !.rounds = @, !.retries = @]
        BY <2>2, <3>2
      <4> QED
        BY <2>1, <4>1 DEF RunOf, RunStages
    <3> QED
      BY <3>1, <3>2
  <2>4. subRun' = [subRun EXCEPT ![r] = rec]
    BY <1>10, <2>2 DEF StopGate, CeilingInv
  <2> QED
    BY <2>3, <2>4, <1>3
<1>11. ASSUME NEW r \in SubRuns, Reserve(r) \/ Admitted(r)
       PROVE  CeilingInv'
  BY <1>11, <1>2, <1>4 DEF Reserve, Admitted, RunStages
<1>12. ASSUME NEW r \in SubRuns, StopsRun(r) \/ Completes(r)
       PROVE  CeilingInv'
  BY <1>12, <1>1, <1>2 DEF StopsRun, Completes
<1> QED
  BY <1>1, <1>5, <1>6, <1>7, <1>8, <1>9, <1>10, <1>11, <1>12 DEF SubagentNext, subagentVars

\* ToolsWithinCeilings for any number of subagents and any limits of their retries.
THEOREM ToolsAreCeiled == SubagentSpec => []ToolsWithinCeilings
<1>1. SubagentInit => CeilingInv
  BY FreshIsCeiled, NothingIsCeiled DEF SubagentInit, CeilingInv
<1>2. CeilingInv /\ [SubagentNext]_subagentVars => CeilingInv'
  BY CeilingStep
<1>3. CeilingInv => ToolsWithinCeilings
  BY DEF CeilingInv, Ceiled, ToolsWithinCeilings
<1> QED
  BY <1>1, <1>2, <1>3, PTL DEF SubagentSpec

-----------------------------------------------------------------------------
(***************************************************************************)
(* Telemetry                                                               *)
(***************************************************************************)

\* A count, of whatever sign: that no delta is negative is not needed.
Tallies == [Counters -> Int]

SpansOf == [session : BOOLEAN, prompt : BOOLEAN, response : BOOLEAN, tools : SUBSET TracedCalls,
            ended : BOOLEAN]
TraceOf == [for : {"none", "person", "wake"}, at : {"idle", "turn", "calling", "told"},
            calls : SUBSET TracedCalls, samples : Nat, stopped : BOOLEAN]

\* Calls run only while a batch of them does, and the telemetry that a reset has forgotten
\* was shut down before.
CallsRunInBatches == traced.at # "calling" => traced.calls = {}
GoneIsClosed == resetting = "gone" => closing # "no"

\* The inductive invariant, in the two parts that do not meet.
CountsInv ==
  /\ {counted, baseline, deltas} \subseteq Tallies
  /\ compacted \in Int
  /\ DeltasAddUp

TracesInv ==
  /\ spans \in SpansOf /\ traced \in TraceOf
  /\ CallsRunInBatches /\ GoneIsClosed /\ SpansAreTheRuns
  /\ ShutIsQuiet

\* What a delta does to the sums.
LEMMA DeltaAddsUp ==
  ASSUME CountsInv, NEW counts \in Tallies, counts["pauses"] = counted["pauses"],
         NEW outcome \in {"completed", "cancelled", "error"}, TakeTurnDelta(counts, outcome)
  PROVE  /\ {counted', baseline', deltas'} \subseteq Tallies
         /\ DeltasAddUp'
<1>1. PICK now \in Tallies :
        /\ now["pauses"] = counted["pauses"]
        /\ counted' = now
        /\ deltas' = [k \in Counters |-> deltas[k] + Delta(now, k)]
        /\ baseline' = [now EXCEPT !["pauses"] = 0]
  <2>1. PICK ks \in SUBSET {"cancels", "errors"} :
          /\ counted' = Plus(counts, ks)
          /\ deltas' = [k \in Counters |-> deltas[k] + Delta(Plus(counts, ks), k)]
          /\ baseline' = [Plus(counts, ks) EXCEPT !["pauses"] = 0]
    BY DEF TakeTurnDelta
  <2>2. /\ Plus(counts, ks) \in Tallies
        /\ Plus(counts, ks)["pauses"] = counts["pauses"]
    BY DEF Plus, Tallies, Counters
  <2> QED
    BY <2>1, <2>2
<1>2. \A k \in Counters : Delta(now, k) \in Int
  BY DEF Delta, CountsInv, Tallies
<1>3. deltas' \in Tallies /\ baseline' \in Tallies
  <2>1. \A k \in Counters : deltas[k] + Delta(now, k) \in Int
    BY <1>2 DEF CountsInv, Tallies
  <2>2. deltas' \in Tallies
    BY <1>1, <2>1 DEF Tallies
  <2>3. baseline' \in Tallies
    <3>1. now \in [Counters -> Int] /\ baseline' = [now EXCEPT !["pauses"] = 0]
      BY <1>1 DEF Tallies
    <3>2. ASSUME NEW f \in [Counters -> Int], NEW n \in Int
          PROVE  [f EXCEPT !["pauses"] = n] \in [Counters -> Int]
      OBVIOUS
    <3> QED
      BY <3>1, <3>2 DEF Tallies
  <2> QED
    BY <2>2, <2>3
<1>4. ASSUME NEW k \in Counters
      PROVE  IF k = "pauses" THEN deltas'[k] + baseline'[k] = counted'[k]
                             ELSE deltas'[k] = baseline'[k]
  <2>1. deltas'[k] = deltas[k] + Delta(now, k)
    BY <1>1
  <2>2. /\ now[k] \in Int /\ deltas[k] \in Int /\ baseline[k] \in Int /\ counted[k] \in Int
    BY DEF CountsInv, Tallies
  <2>3. CASE k = "pauses"
    <3>1. deltas[k] + baseline[k] = counted[k]
      BY <2>3 DEF CountsInv, DeltasAddUp
    <3>2. baseline'[k] = 0 /\ counted'[k] = counted[k] /\ deltas'[k] = deltas[k] + baseline[k]
      BY <1>1, <2>1, <2>3 DEF Delta, Tallies
    <3> QED
      BY <2>2, <2>3, <3>1, <3>2
  <2>4. CASE k # "pauses"
    <3>1. deltas[k] = baseline[k]
      BY <2>4 DEF CountsInv, DeltasAddUp
    <3>2. baseline'[k] = now[k] /\ deltas'[k] = deltas[k] + (now[k] - baseline[k])
      BY <1>1, <2>1, <2>4 DEF Delta, Tallies
    <3> QED
      BY <2>2, <2>4, <3>1, <3>2
  <2> QED
    BY <2>3, <2>4
<1> QED
  BY <1>1, <1>3, <1>4 DEF DeltasAddUp

\* Counting more of anything but pauses changes no sum.
LEMMA CountingKeepsSums ==
  ASSUME CountsInv, counted' \in Tallies, counted'["pauses"] = counted["pauses"],
         UNCHANGED <<baseline, deltas>>, compacted' \in Int
  PROVE  CountsInv'
<1>1. DeltasAddUp'
  BY DEF CountsInv, DeltasAddUp
<1> QED
  BY <1>1 DEF CountsInv

\* Counting leaves every count that is not named as it is.
LEMMA PlusCounts ==
  ASSUME NEW f \in Tallies, NEW ks
  PROVE  /\ Plus(f, ks) \in Tallies
         /\ "pauses" \notin ks => Plus(f, ks)["pauses"] = f["pauses"]
  BY DEF Plus, Tallies, Counters

\* Every step keeps the sums.
LEMMA CountsStep ==
  ASSUME CountsInv, TelemetryNext \/ UNCHANGED telemetryVars
  PROVE  CountsInv'
<1>1. ASSUME UNCHANGED <<counted, baseline, deltas, compacted>>
      PROVE  CountsInv'
  BY <1>1 DEF CountsInv, DeltasAddUp
<1>2. ASSUME NEW ks, "pauses" \notin ks, Counts(ks), UNCHANGED <<baseline, deltas, compacted>>
      PROVE  CountsInv'
  BY <1>2, PlusCounts, CountingKeepsSums DEF Counts, CountsInv
<1>3. ASSUME NEW counts \in Tallies, counts["pauses"] = counted["pauses"],
             NEW outcome \in {"completed", "cancelled", "error"},
             TakeTurnDelta(counts, outcome), UNCHANGED compacted
      PROVE  CountsInv'
  BY <1>3, DeltaAddsUp DEF CountsInv
<1>4. ASSUME NEW for \in {"person", "wake"}, NEW paused \in BOOLEAN, RunIsTraced(for, paused)
      PROVE  CountsInv'
  <2>1. UNCHANGED <<deltas, compacted>>
    BY <1>4 DEF RunIsTraced
  <2>2. CASE ~paused
    BY <1>1, <1>4, <2>1, <2>2 DEF RunIsTraced, StartCounts
  <2>3. CASE paused
    <3>1. /\ counted' = Plus(counted, {"pauses"})
          /\ baseline' = Plus(baseline, {"pauses"})
      BY <1>4, <2>3 DEF RunIsTraced, StartCounts
    <3>2. counted' \in Tallies /\ baseline' \in Tallies
      BY <3>1, PlusCounts DEF CountsInv
    <3>3. ASSUME NEW k \in Counters
          PROVE  IF k = "pauses" THEN deltas'[k] + baseline'[k] = counted'[k]
                                 ELSE deltas'[k] = baseline'[k]
      <4>1. /\ deltas[k] \in Int /\ baseline[k] \in Int /\ counted[k] \in Int
        BY DEF CountsInv, Tallies
      <4>2. CASE k = "pauses"
        <5>1. deltas[k] + baseline[k] = counted[k]
          BY <4>2 DEF CountsInv, DeltasAddUp
        <5>2. /\ baseline'[k] = baseline[k] + 1 /\ counted'[k] = counted[k] + 1
              /\ deltas'[k] = deltas[k]
          BY <2>1, <3>1, <4>2 DEF Plus
        <5> QED
          BY <4>1, <4>2, <5>1, <5>2
      <4>3. CASE k # "pauses"
        BY <2>1, <3>1, <4>3 DEF Plus, CountsInv, DeltasAddUp
      <4> QED
        BY <4>2, <4>3
    <3>4. DeltasAddUp'
      BY <3>3 DEF DeltasAddUp
    <3> QED
      BY <2>1, <3>2, <3>4 DEF CountsInv
  <2> QED
    BY <2>2, <2>3
<1>5. ASSUME NEW calls \in SUBSET TracedCalls, Sampled(calls)
      PROVE  CountsInv'
  BY <1>2, <1>5 DEF Sampled
<1>6. ASSUME NEW c \in TracedCalls, NEW good \in BOOLEAN, ToolIsTraced(c, good)
      PROVE  CountsInv'
  <2>1. PICK ks : /\ ks = IF good THEN {"calls"} ELSE {"calls", "failures", "errors"}
                  /\ Counts(ks)
    BY <1>6 DEF ToolIsTraced
  <2>2. "pauses" \notin ks
    BY <2>1
  <2> QED
    BY <1>2, <1>6, <2>1, <2>2 DEF ToolIsTraced
<1>7. ASSUME RunCompacts
      PROVE  CountsInv'
  <2>1. compacted' \in Int /\ UNCHANGED <<baseline, deltas>>
    BY <1>7 DEF RunCompacts, CountsInv
  <2>2. counted' \in Tallies /\ counted'["pauses"] = counted["pauses"]
    <3>1. CASE resetting = "gone"
      BY <1>7, <3>1 DEF RunCompacts, CountsInv
    <3>2. CASE resetting # "gone"
      <4>1. PICK n \in Int : n = 2 * (compacted + 1)
        BY DEF CountsInv
      <4>2. counted' = [counted EXCEPT !["compactions"] = n]
        BY <1>7, <3>2, <4>1 DEF RunCompacts
      <4> QED
        <5>1. counted \in [Counters -> Int]
          BY DEF CountsInv, Tallies
        <5>2. counted' \in [Counters -> Int]
          BY <4>2, <5>1
        <5>3. counted'["pauses"] = counted["pauses"]
          BY <4>2, <5>1 DEF Counters
        <5> QED
          BY <5>2, <5>3 DEF Tallies
    <3> QED
      BY <3>1, <3>2
  <2> QED
    BY <2>1, <2>2, CountingKeepsSums
<1>8. ASSUME RunCompletes
      PROVE  CountsInv'
  <2>1. /\ Plus(counted, {"messages"}) \in Tallies
        /\ Plus(counted, {"messages"})["pauses"] = counted["pauses"]
    BY PlusCounts DEF CountsInv
  <2> QED
    BY <1>3, <1>8, <2>1 DEF RunCompletes
<1>9. ASSUME NEW outcome \in {"cancelled", "error"}, RunFails(outcome) \/ PrepareFails(outcome)
      PROVE  CountsInv'
  <2>1. UNCHANGED compacted
    BY <1>9 DEF RunFails, PrepareFails
  <2>2. TakeTurnDelta(counted, outcome) \/ UNCHANGED <<counted, baseline, deltas>>
    BY <1>9 DEF RunFails, PrepareFails
  <2> QED
    BY <1>1, <1>3, <2>1, <2>2 DEF CountsInv
<1>10. CASE ConfigSettles \/ SignalsSettle \/ CompletesUntold \/ ResetsLater \/ BootIsAwaited
            \/ SyncSettles \/ ShutdownEnds
            \/ \E summarises \in BOOLEAN : RunReturns(summarises)
            \/ \E reset \in BOOLEAN : ShutdownBegins(reset)
  BY <1>1, <1>10 DEF ConfigSettles, SignalsSettle, CompletesUntold, ResetsLater, BootIsAwaited,
                     SyncSettles, ShutdownEnds, RunReturns, ShutdownBegins
<1>11. CASE SummaryEnds \/ UNCHANGED telemetryVars
  BY <1>1, <1>11 DEF SummaryEnds, telemetryVars
<1> QED
  BY <1>4, <1>5, <1>6, <1>7, <1>8, <1>9, <1>10, <1>11 DEF TelemetryNext

-----------------------------------------------------------------------------
\* What the operators on spans do to those of the prompt and of the calls.
LEMMA SpanShapes ==
  ASSUME NEW s \in SpansOf
  PROVE  /\ ResponseEnds(s) \in SpansOf
         /\ ResponseEnds(s).session = s.session /\ ResponseEnds(s).prompt = s.prompt
         /\ ResponseEnds(s).tools = s.tools
         /\ ResponseStarts(s) \in SpansOf
         /\ ResponseStarts(s).session = s.session /\ ResponseStarts(s).prompt = s.prompt
         /\ ResponseStarts(s).tools = s.tools
         /\ ClosePrompt(s) \in SpansOf
         /\ ClosePrompt(s).session = s.session /\ ClosePrompt(s).tools = {}
         /\ Exported(s) \in SpansOf
         /\ Exported(s).session = s.session /\ Exported(s).prompt = s.prompt
         /\ Exported(s).tools = s.tools
<1>1. /\ ResponseEnds(s) \in SpansOf
      /\ ResponseEnds(s).session = s.session /\ ResponseEnds(s).prompt = s.prompt
      /\ ResponseEnds(s).tools = s.tools
  BY DEF ResponseEnds, SpansOf
<1>2. /\ Exported(s) \in SpansOf
      /\ Exported(s).session = s.session /\ Exported(s).prompt = s.prompt
      /\ Exported(s).tools = s.tools
  BY DEF Exported, SpansOf
<1>3. PICK closed : closed = CloseResponse(s)
  OBVIOUS
<1>4. /\ closed \in SpansOf
      /\ closed.session = s.session /\ closed.prompt = s.prompt /\ closed.tools = s.tools
  <2>1. PICK e \in BOOLEAN : e = (s.ended \/ s.response)
    OBVIOUS
  <2>2. closed = [s EXCEPT !.response = FALSE, !.ended = e]
    BY <1>3, <2>1 DEF CloseResponse
  <2> QED
    BY <2>2 DEF SpansOf
<1>5. /\ ResponseStarts(s) \in SpansOf
      /\ ResponseStarts(s).session = s.session /\ ResponseStarts(s).prompt = s.prompt
      /\ ResponseStarts(s).tools = s.tools
  <2>1. ResponseStarts(s) = [closed EXCEPT !.response = TRUE]
    BY <1>3 DEF ResponseStarts
  <2> QED
    BY <1>4, <2>1 DEF SpansOf
<1>6. /\ ClosePrompt(s) \in SpansOf
      /\ ClosePrompt(s).session = s.session /\ ClosePrompt(s).tools = {}
  <2>1. PICK e \in BOOLEAN : e = (closed.ended \/ s.tools # {} \/ s.prompt)
    OBVIOUS
  <2>2. ClosePrompt(s) = [closed EXCEPT !.tools = {}, !.prompt = FALSE, !.ended = e]
    BY <1>3, <2>1 DEF ClosePrompt
  <2> QED
    BY <1>4, <2>2 DEF SpansOf
<1> QED
  BY <1>1, <1>2, <1>5, <1>6

\* What the operators on spans do when calls start and end.
LEMMA ToolShapes ==
  ASSUME NEW s \in SpansOf, NEW calls \in SUBSET TracedCalls, NEW c, NEW good
  PROVE  /\ OpenTools(s, calls) \in SpansOf
         /\ OpenTools(s, calls).session = s.session /\ OpenTools(s, calls).prompt = s.prompt
         /\ OpenTools(s, calls).tools = s.tools \cup calls
         /\ ToolEnds(s, c, good) \in SpansOf
         /\ ToolEnds(s, c, good).session = s.session
         /\ ToolEnds(s, c, good).prompt = s.prompt
         /\ ToolEnds(s, c, good).tools = s.tools \ {c}
<1>1. /\ OpenTools(s, calls) \in SpansOf
      /\ OpenTools(s, calls).session = s.session /\ OpenTools(s, calls).prompt = s.prompt
      /\ OpenTools(s, calls).tools = s.tools \cup calls
  BY DEF OpenTools, SpansOf
<1>2. CASE c \in s.tools
  <2>1. ToolEnds(s, c, good) = [s EXCEPT !.tools = s.tools \ {c}, !.ended = TRUE]
    BY <1>2 DEF ToolEnds
  <2> QED
    BY <1>1, <2>1 DEF SpansOf
<1>3. CASE c \notin s.tools
  BY <1>1, <1>3 DEF ToolEnds
<1> QED
  BY <1>2, <1>3

\* What the spans of a run are compared with.
Matches(s, one) ==
  s.session => s.tools = one.calls /\ (one.at \in {"turn", "calling"} => s.prompt)

\* A step that only moves the run and its spans.
LEMMA TracesKept ==
  ASSUME TracesInv, UNCHANGED <<resetting, closing, ticking>>,
         spans' \in SpansOf, traced' \in TraceOf, CallsRunInBatches',
         resetting # "gone" => Matches(spans', traced')
  PROVE  TracesInv'
  BY DEF TracesInv, GoneIsClosed, SpansAreTheRuns, ShutIsQuiet, Matches

\* What goes before a run, and what runs of it.
LEMMA TraceShapes ==
  ASSUME NEW one \in TraceOf
  PROVE  /\ NoTrace \in TraceOf /\ NoTrace.at = "idle" /\ NoTrace.calls = {}
         /\ \A stage \in {"idle", "turn", "calling", "told"} :
              /\ [one EXCEPT !.at = stage] \in TraceOf
              /\ [one EXCEPT !.at = stage].at = stage /\ [one EXCEPT !.at = stage].calls = one.calls
  BY DEF NoTrace, TraceOf

\* Every step of a run keeps its spans.
LEMMA RunsKeepTraces ==
  ASSUME TracesInv,
         \/ \E for \in {"person", "wake"}, paused \in BOOLEAN : RunIsTraced(for, paused)
         \/ \E calls \in SUBSET TracedCalls : Sampled(calls)
         \/ \E c \in TracedCalls, good \in BOOLEAN : ToolIsTraced(c, good)
         \/ RunCompacts \/ RunCompletes \/ CompletesUntold \/ SummaryEnds
         \/ \E summarises \in BOOLEAN : RunReturns(summarises)
         \/ \E outcome \in {"cancelled", "error"} : RunFails(outcome) \/ PrepareFails(outcome)
  PROVE  TracesInv'
<1>1. spans \in SpansOf /\ traced \in TraceOf
  BY DEF TracesInv
<1>2. UNCHANGED <<resetting, closing, ticking>>
  BY DEF RunIsTraced, Sampled, ToolIsTraced, RunCompacts, RunCompletes, CompletesUntold,
         SummaryEnds, RunReturns, RunFails, PrepareFails
<1>3. resetting # "gone" => Matches(spans, traced)
  BY DEF TracesInv, SpansAreTheRuns, Matches
<1>4. traced.at # "calling" => traced.calls = {}
  BY DEF TracesInv, CallsRunInBatches
<1>5. NoTrace \in TraceOf /\ NoTrace.at = "idle" /\ NoTrace.calls = {}
  BY <1>1, TraceShapes
<1>6. ASSUME NEW for \in {"person", "wake"}, NEW paused \in BOOLEAN, RunIsTraced(for, paused)
      PROVE  TracesInv'
  <2>0. PICK closed : closed = ClosePrompt(spans)
    OBVIOUS
  <2>1. PICK s : s = [closed EXCEPT !.prompt = TRUE]
    OBVIOUS
  <2>2. s \in SpansOf /\ s.prompt = TRUE /\ s.tools = {}
    <3>1. closed \in SpansOf /\ closed.tools = {}
      BY <1>1, <2>0, SpanShapes
    <3> QED
      BY <2>1, <3>1 DEF SpansOf
  <2>3. spans' \in SpansOf /\ spans'.prompt = TRUE /\ spans'.tools = {}
    BY <1>6, <2>0, <2>1, <2>2, SpanShapes DEF RunIsTraced
  <2>4. PICK one : one = [NoTrace EXCEPT !.for = for, !.at = "turn"]
    OBVIOUS
  <2>5. one \in TraceOf /\ one.at = "turn" /\ one.calls = {}
    BY <2>4 DEF NoTrace, TraceOf
  <2>6. traced' = one
    BY <1>6, <2>4 DEF RunIsTraced
  <2> QED
    BY <1>2, <2>3, <2>5, <2>6, TracesKept DEF CallsRunInBatches, Matches
<1>7. ASSUME NEW calls \in SUBSET TracedCalls, Sampled(calls)
      PROVE  TracesInv'
  <2>1. PICK n \in Nat : n = traced.samples + 1
    BY <1>1 DEF TraceOf
  <2>2. traced' = [traced EXCEPT !.at = "calling", !.calls = calls, !.samples = n]
    BY <1>7, <2>1 DEF Sampled
  <2>3. traced' \in TraceOf /\ traced'.at = "calling" /\ traced'.calls = calls
    BY <1>1, <2>2 DEF TraceOf
  <2>4. PICK s : s = OpenTools(ResponseEnds(spans), calls)
    OBVIOUS
  <2>5. /\ s \in SpansOf /\ s.session = spans.session /\ s.prompt = spans.prompt
        /\ s.tools = spans.tools \cup calls
    BY <1>1, <2>4, SpanShapes, ToolShapes
  <2>6. spans' = IF resetting = "gone" THEN spans ELSE s
    BY <1>7, <2>4 DEF Sampled, Recorded
  <2>7. traced.at = "turn"
    BY <1>7 DEF Sampled
  <2>8. resetting # "gone" => Matches(spans', traced')
    BY <1>3, <1>4, <2>3, <2>5, <2>6, <2>7 DEF Matches
  <2> QED
    BY <1>1, <1>2, <2>3, <2>5, <2>6, <2>8, TracesKept DEF CallsRunInBatches
<1>8. ASSUME NEW c \in TracedCalls, NEW good \in BOOLEAN, ToolIsTraced(c, good)
      PROVE  TracesInv'
  <2>1. PICK left, limited, s :
          /\ left = traced.calls \ {c}
          /\ limited = (left = {} /\ traced.samples = MaxSamples)
          /\ s = ToolEnds(spans, c, good)
    OBVIOUS
  <2>2. /\ traced.at = "calling"
        /\ Recorded(IF limited THEN ClosePrompt(s)
                    ELSE IF left = {} /\ ~traced.stopped THEN ResponseStarts(s) ELSE s)
        /\ traced' = IF limited THEN NoTrace
                     ELSE [traced EXCEPT !.calls = left,
                                         !.at = IF left = {} THEN "turn" ELSE "calling"]
    BY <1>8, <2>1 DEF ToolIsTraced
  <2>3. /\ s \in SpansOf /\ s.session = spans.session /\ s.prompt = spans.prompt
        /\ s.tools = spans.tools \ {c}
    BY <1>1, <2>1, ToolShapes
  <2>4. left \in SUBSET TracedCalls
    BY <1>1, <2>1 DEF TraceOf
  <2>5. CASE limited
    <3>1. traced' = NoTrace
      BY <2>2, <2>5
    <3>2. spans' = IF resetting = "gone" THEN spans ELSE ClosePrompt(s)
      BY <2>2, <2>5 DEF Recorded
    <3>3. spans' \in SpansOf /\ (resetting # "gone" => spans'.tools = {})
      BY <1>1, <2>3, <3>2, SpanShapes
    <3> QED
      BY <1>2, <1>5, <3>1, <3>3, TracesKept DEF CallsRunInBatches, Matches
  <2>6. CASE ~limited
    <3>1. PICK stage \in {"turn", "calling"} :
            stage = IF left = {} THEN "turn" ELSE "calling"
      OBVIOUS
    <3>2. traced' = [traced EXCEPT !.calls = left, !.at = stage]
      BY <2>2, <2>6, <3>1
    <3>3. traced' \in TraceOf /\ traced'.at = stage /\ traced'.calls = left
      BY <1>1, <2>4, <3>2 DEF TraceOf
    <3>4. \/ spans' = s
          \/ spans' = ResponseStarts(s)
          \/ resetting = "gone" /\ spans' = spans
      BY <2>2, <2>6 DEF Recorded
    <3>5. /\ spans' \in SpansOf
          /\ resetting # "gone" => /\ spans'.session = spans.session
                                   /\ spans'.prompt = spans.prompt
                                   /\ spans'.tools = spans.tools \ {c}
      BY <1>1, <2>3, <3>4, SpanShapes
    <3>6. resetting # "gone" => Matches(spans', traced')
      BY <1>3, <2>1, <2>2, <3>3, <3>5 DEF Matches
    <3>7. CallsRunInBatches'
      BY <3>1, <3>3 DEF CallsRunInBatches
    <3> QED
      BY <1>2, <3>3, <3>5, <3>6, <3>7, TracesKept
  <2> QED
    BY <2>5, <2>6
<1>9. ASSUME RunCompacts \/ SummaryEnds
      PROVE  TracesInv'
  <2>1. spans' = (IF resetting = "gone" THEN spans ELSE ResponseEnds(spans)) /\ traced' = traced
    BY <1>9 DEF RunCompacts, SummaryEnds, Recorded
  <2>2. /\ spans' \in SpansOf /\ spans'.session = spans.session
        /\ spans'.prompt = spans.prompt /\ spans'.tools = spans.tools
    BY <1>1, <2>1, SpanShapes
  <2> QED
    BY <1>1, <1>2, <1>3, <1>4, <2>1, <2>2, TracesKept DEF CallsRunInBatches, Matches
<1>10. ASSUME NEW s, s \in {spans, ResponseEnds(spans)}, ReportTurn(ClosePrompt(s)),
              traced' \in TraceOf, traced'.calls = {}, traced'.at \in {"idle", "told"}
       PROVE  TracesInv'
  <2>1. s \in SpansOf
    BY <1>1, <1>10, SpanShapes
  <2>2. ClosePrompt(s) \in SpansOf /\ ClosePrompt(s).tools = {}
    BY <2>1, SpanShapes
  <2>3. spans' \in SpansOf /\ spans'.tools = {}
    BY <1>10, <2>2, SpanShapes DEF ReportTurn
  <2> QED
    BY <1>2, <1>10, <2>3, TracesKept DEF CallsRunInBatches, Matches
<1>11. ASSUME RunCompletes
       PROVE  TracesInv'
  <2>1. traced' \in TraceOf /\ traced'.calls = {} /\ traced'.at = "told"
    BY <1>1, <1>4, <1>11, TraceShapes DEF RunCompletes
  <2> QED
    BY <1>10, <1>11, <2>1 DEF RunCompletes
<1>12. ASSUME CompletesUntold
       PROVE  TracesInv'
  <2>1. traced' \in TraceOf /\ traced'.calls = {} /\ traced'.at = "told"
    BY <1>1, <1>4, <1>12, TraceShapes DEF CompletesUntold
  <2> QED
    BY <1>1, <1>2, <1>12, <2>1, TracesKept DEF CompletesUntold, CallsRunInBatches
<1>13. ASSUME NEW summarises \in BOOLEAN, RunReturns(summarises)
       PROVE  TracesInv'
  <2>1. traced.at = "told" /\ traced' = NoTrace /\ spans' = spans
    BY <1>13 DEF RunReturns
  <2> QED
    BY <1>1, <1>2, <1>3, <1>4, <1>5, <2>1, TracesKept DEF CallsRunInBatches, Matches
<1>14. ASSUME NEW outcome \in {"cancelled", "error"}, RunFails(outcome)
       PROVE  TracesInv'
  <2>1. traced.at = "turn" /\ traced' = NoTrace
    BY <1>14 DEF RunFails
  <2>2. CASE ReportTurn(ClosePrompt(spans))
    BY <1>5, <1>10, <2>1, <2>2
  <2>3. CASE spans' = spans
    BY <1>1, <1>2, <1>3, <1>4, <1>5, <2>1, <2>3, TracesKept DEF CallsRunInBatches, Matches
  <2> QED
    BY <1>14, <2>2, <2>3 DEF RunFails
<1>15. ASSUME NEW outcome \in {"cancelled", "error"}, PrepareFails(outcome)
       PROVE  TracesInv'
  <2>1. traced.at = "idle" /\ traced' = traced /\ ReportTurn(ClosePrompt(spans))
    BY <1>15 DEF PrepareFails
  <2> QED
    BY <1>1, <1>4, <1>10, <2>1
<1> QED
  BY <1>6, <1>7, <1>8, <1>9, <1>11, <1>12, <1>13, <1>14, <1>15

\* So do the steps that start the telemetry and shut it down.
LEMMA ShutdownKeepsTraces ==
  ASSUME TracesInv,
         \/ ConfigSettles \/ SignalsSettle
         \/ \E reset \in BOOLEAN : ShutdownBegins(reset)
         \/ ResetsLater \/ BootIsAwaited \/ SyncSettles \/ ShutdownEnds
  PROVE  TracesInv'
<1>1. spans \in SpansOf /\ traced \in TraceOf
  BY DEF TracesInv
<1>2. CASE ConfigSettles \/ SignalsSettle \/ BootIsAwaited \/ ShutdownEnds
  <2>1. UNCHANGED <<spans, traced>>
    BY <1>2 DEF ConfigSettles, SignalsSettle, BootIsAwaited, ShutdownEnds
  <2>2. GoneIsClosed' /\ (resetting' # "gone" => resetting # "gone")
    BY <1>2 DEF ConfigSettles, SignalsSettle, BootIsAwaited, ShutdownEnds, TracesInv, GoneIsClosed
  <2>3. ShutIsQuiet'
    BY <1>2 DEF ConfigSettles, SignalsSettle, BootIsAwaited, ShutdownEnds, TracesInv, ShutIsQuiet
  <2>4. SpansAreTheRuns' /\ CallsRunInBatches'
    BY <2>1, <2>2 DEF TracesInv, SpansAreTheRuns, CallsRunInBatches
  <2> QED
    BY <1>1, <2>1, <2>2, <2>3, <2>4 DEF TracesInv
<1>3. ASSUME NEW reset \in BOOLEAN, Stops(reset), spans' = spans
      PROVE  /\ traced' \in TraceOf /\ CallsRunInBatches'
             /\ (resetting' # "gone" => resetting # "gone") => SpansAreTheRuns'
  <2>1. PICK b \in BOOLEAN : b = (traced.stopped \/ (reset /\ traced.at # "idle"))
    OBVIOUS
  <2>2. traced' = [traced EXCEPT !.stopped = b]
    BY <1>3, <2>1 DEF Stops
  <2>3. traced' \in TraceOf /\ traced'.at = traced.at /\ traced'.calls = traced.calls
    BY <1>1, <2>2 DEF TraceOf
  <2> QED
    BY <1>3, <2>3 DEF TracesInv, CallsRunInBatches, SpansAreTheRuns
<1>4. ASSUME NEW reset \in BOOLEAN, ShutdownBegins(reset)
      PROVE  TracesInv'
  <2>1. /\ Stops(reset) /\ spans' = spans /\ closing = "no" /\ closing' = "boot"
        /\ resetting' # "gone"
    BY <1>4 DEF ShutdownBegins
  <2>2. resetting # "gone"
    BY <2>1 DEF TracesInv, GoneIsClosed
  <2> QED
    BY <1>1, <1>3, <2>1, <2>2 DEF TracesInv, GoneIsClosed, ShutIsQuiet
<1>5. ASSUME ResetsLater
      PROVE  TracesInv'
  <2>1. /\ Stops(TRUE) /\ spans' = spans /\ closing # "no" /\ resetting' = "gone"
        /\ UNCHANGED <<closing, ticking>>
    BY <1>5 DEF ResetsLater
  <2> QED
    BY <1>1, <1>3, <2>1 DEF TracesInv, GoneIsClosed, ShutIsQuiet
<1>6. ASSUME SyncSettles
      PROVE  TracesInv'
  <2>1. PICK s : s = Exported(ClosePrompt(spans))
    OBVIOUS
  <2>2. s \in SpansOf
    BY <1>1, <2>1, SpanShapes
  <2>3. spans' = [s EXCEPT !.session = FALSE]
    BY <1>6, <2>1 DEF SyncSettles
  <2>4. spans' \in SpansOf /\ spans'.session = FALSE
    BY <2>2, <2>3 DEF SpansOf
  <2> QED
    BY <1>6, <2>4 DEF SyncSettles, TracesInv, CallsRunInBatches, GoneIsClosed, SpansAreTheRuns,
                      ShutIsQuiet
<1> QED
  BY <1>2, <1>4, <1>5, <1>6

\* TelemetryIsTrue for any batches of calls, any number of runs and any limits.
THEOREM TelemetryStaysTrue == TelemetrySpec => []TelemetryIsTrue
<1>1. TelemetryInit => CountsInv /\ TracesInv
  <2> SUFFICES ASSUME TelemetryInit
               PROVE  CountsInv /\ TracesInv
    OBVIOUS
  <2>1. CountsInv
    BY TelemetryAssumption DEF TelemetryInit, CountsInv, Tallies, NoCounts, DeltasAddUp
  <2>2. spans \in SpansOf /\ spans.tools = {}
    BY DEF TelemetryInit, SpansOf
  <2>3. traced \in TraceOf /\ traced.calls = {} /\ traced.at = "idle"
    BY DEF TelemetryInit, NoTrace, TraceOf
  <2>4. TracesInv
    BY <2>2, <2>3 DEF TelemetryInit, TracesInv, CallsRunInBatches, GoneIsClosed,
                      SpansAreTheRuns, ShutIsQuiet
  <2> QED
    BY <2>1, <2>4
<1>2. CountsInv /\ [TelemetryNext]_telemetryVars => CountsInv'
  BY CountsStep
<1>3. TracesInv /\ [TelemetryNext]_telemetryVars => TracesInv'
  <2>1. TracesInv /\ UNCHANGED telemetryVars => TracesInv'
    BY DEF telemetryVars, TracesInv, CallsRunInBatches, GoneIsClosed, SpansAreTheRuns,
           ShutIsQuiet
  <2>2. TracesInv /\ TelemetryNext => TracesInv'
    BY RunsKeepTraces, ShutdownKeepsTraces DEF TelemetryNext
  <2> QED
    BY <2>1, <2>2
<1>4. CountsInv /\ TracesInv => TelemetryIsTrue
  BY DEF CountsInv, TracesInv, TelemetryIsTrue
<1> QED
  BY <1>1, <1>2, <1>3, <1>4, PTL DEF TelemetrySpec

-----------------------------------------------------------------------------
(***************************************************************************)
(* The development relay                                                   *)
(***************************************************************************)

\* What a handler may be given, and its record.
Givens    == {"none", "default", "listed", "proxied", "mine", "theirs"}
JobStages == {"idle", "credential", "body", "lookup", "upstream", "download", "stream", "drain",
              "pipe"}
JobOf ==
  [route : ServedRoutes \cup {"none"}, at : JobStages, reply : {"open", "headers"},
   gone : BOOLEAN, given : Givens, asked : SiteHosts \cup Givens, here : SiteHosts \cup Givens,
   hops : Nat]

\* Headers are out only while a body is copied, a fetch is where its caller sent it, and
\* no fetch waits for the credential.
Streaming == {"stream", "drain", "pipe"}
JobTrue(j) ==
  /\ j.reply = "headers" => j.at \in Streaming
  /\ j.route = "fetch" /\ j.at = "upstream" => j.here = j.asked
  /\ j.route = "fetch" => j.at # "credential"

SharedTyped == {fetching, issued, account} \subseteq Givens

\* The inductive invariant of the relay.
RelayTrue ==
  /\ job \in [Handlers -> JobOf]
  /\ \A h \in Handlers : JobTrue(job[h])
  /\ SharedTyped
  /\ touched = FALSE /\ strayed = FALSE

\* A handler that has nothing to do
LEMMA NoJobIsTrue == NoJob \in JobOf /\ JobTrue(NoJob)
  BY DEF NoJob, JobOf, JobStages, Givens, JobTrue

\* A step of one handler that writes no second answer and asks no other host.
LEMMA JobKeepsRelay ==
  ASSUME RelayTrue, SharedTyped', NEW h \in Handlers, NEW j \in JobOf, JobTrue(j),
         job' = [job EXCEPT ![h] = j], UNCHANGED ends
  PROVE  RelayTrue'
<1>1. job' \in [Handlers -> JobOf]
  BY DEF RelayTrue
<1>2. \A g \in Handlers : JobTrue(job'[g])
  BY DEF RelayTrue
<1>3. touched' = FALSE /\ strayed' = FALSE
  BY DEF RelayTrue, ends
<1> QED
  BY <1>1, <1>2, <1>3 DEF RelayTrue, JobTrue

\* An answer, or the end of a response, leaves the handler with nothing to do.
LEMMA EndsKeepRelay ==
  ASSUME RelayTrue, SharedTyped', NEW h \in Handlers,
         \/ RelayReplies(h) /\ job[h].at \notin Streaming
         \/ Destroys(h)
  PROVE  RelayTrue'
<1>1. job[h] \in JobOf /\ JobTrue(job[h])
  BY DEF RelayTrue
<1>2. UNCHANGED ends
  <2>1. CASE RelayReplies(h) /\ job[h].at \notin Streaming
    <3>1. job[h].reply = "open"
      BY <1>1, <2>1 DEF JobOf, JobTrue
    <3> QED
      BY <2>1, <3>1 DEF RelayReplies, RelayTrue, ends
  <2> QED
    BY <2>1 DEF Destroys
<1>3. job' = [job EXCEPT ![h] = NoJob]
  BY DEF RelayReplies, Destroys
<1> QED
  BY <1>2, <1>3, NoJobIsTrue, JobKeepsRelay

\* A handler moves on to where a body is read, a name looked up or an upstream asked.
LEMMA MovesKeepRelay ==
  ASSUME RelayTrue, SharedTyped', NEW h \in Handlers, NEW stage \in JobStages,
         MovesTo(h, stage), UNCHANGED ends, stage # "credential",
         job[h].at \in Streaming => stage \in Streaming,
         job[h].route = "fetch" => stage # "upstream"
  PROVE  RelayTrue'
<1>1. job[h] \in JobOf /\ JobTrue(job[h])
  BY DEF RelayTrue
<1>2. PICK j : j = [job[h] EXCEPT !.at = stage]
  OBVIOUS
<1>3. /\ j \in JobOf
      /\ j.at = stage
      /\ j.reply = job[h].reply /\ j.route = job[h].route
  BY <1>1, <1>2 DEF JobOf
<1>4. JobTrue(j)
  BY <1>1, <1>3 DEF JobTrue
<1>5. job' = [job EXCEPT ![h] = j]
  BY <1>2 DEF MovesTo, RelayTrue
<1> QED
  BY <1>3, <1>4, <1>5, JobKeepsRelay

\* A request comes in, and its credential and body are read.
LEMMA RequestsKeepRelay ==
  ASSUME RelayTrue, NEW h \in Handlers,
         \/ \E route \in ServedRoutes : Arrives(h, route)
         \/ ReadsFile(h) \/ BodyRefused(h) \/ BodyRead(h) \/ LooksUp(h)
  PROVE  RelayTrue'
<1>1. job[h] \in JobOf /\ JobTrue(job[h]) /\ SharedTyped
  BY DEF RelayTrue
<1>2. SharedTyped'
  BY <1>1 DEF Arrives, ReadsFile, BodyRefused, BodyRead, LooksUp, sharedVars, SharedTyped
<1>3. ASSUME NEW route \in ServedRoutes, Arrives(h, route)
      PROVE  RelayTrue'
  <2>1. PICK given \in Givens : given = IF route = "fetch" THEN fetching ELSE "none"
    BY <1>1 DEF SharedTyped, Givens
  <2>2. PICK stage \in {"credential", "body"} :
          stage = IF route \in CredRoutes THEN "credential" ELSE "body"
    OBVIOUS
  <2>3. PICK j : j = [NoJob EXCEPT !.route = route, !.given = given, !.at = stage]
    OBVIOUS
  <2>4. /\ j \in JobOf
        /\ j.at = stage /\ j.route = route /\ j.reply = "open"
    BY <2>3, NoJobIsTrue DEF JobOf, JobStages, NoJob
  <2>5. route = "fetch" => stage = "body"
    BY <2>2 DEF CredRoutes, PlainRoutes
  <2>6. JobTrue(j)
    BY <2>2, <2>4, <2>5 DEF JobTrue
  <2>7. job' = [job EXCEPT ![h] = j] /\ UNCHANGED ends
    BY <1>3, <2>1, <2>2, <2>3 DEF Arrives
  <2> QED
    BY <1>2, <2>4, <2>6, <2>7, JobKeepsRelay
<1>4. ASSUME ReadsFile(h)
      PROVE  RelayTrue'
  <2>1. CASE RelayReplies(h)
    BY <1>2, <1>4, <2>1, EndsKeepRelay DEF ReadsFile, Streaming
  <2>2. CASE ~RelayReplies(h)
    <3>1. PICK asked \in Givens, stage \in {"body", "upstream"} :
            job' = [job EXCEPT ![h].given = account, ![h].asked = asked, ![h].at = stage]
      BY <1>1, <1>4, <2>2 DEF ReadsFile, SharedTyped, Givens
    <3>2. PICK j : j = [job[h] EXCEPT !.given = account, !.asked = asked, !.at = stage]
      OBVIOUS
    <3>3. account \in Givens
      BY <1>1 DEF SharedTyped
    <3>4. /\ j \in JobOf
          /\ j.at = stage /\ j.route = job[h].route /\ j.reply = job[h].reply
      BY <1>1, <3>1, <3>2, <3>3 DEF JobOf, JobStages
    <3>5. job[h].at = "credential"
      BY <1>4 DEF ReadsFile
    <3>6. JobTrue(j)
      BY <1>1, <3>1, <3>4, <3>5 DEF JobTrue, Streaming
    <3>7. job' = [job EXCEPT ![h] = j] /\ UNCHANGED ends
      BY <1>4, <2>2, <3>1, <3>2 DEF ReadsFile, RelayTrue
    <3> QED
      BY <1>2, <3>4, <3>6, <3>7, JobKeepsRelay
  <2> QED
    BY <2>1, <2>2
<1>5. ASSUME BodyRefused(h)
      PROVE  RelayTrue'
  BY <1>2, <1>5, EndsKeepRelay DEF BodyRefused, Streaming
<1>6. ASSUME BodyRead(h)
      PROVE  RelayTrue'
  <2>1. job[h].at = "body" /\ UNCHANGED ends
    BY <1>6 DEF BodyRead
  <2>2. CASE job[h].route # "fetch"
    <3>1. PICK stage \in {"lookup", "upstream"} : MovesTo(h, stage)
      BY <1>6, <2>2 DEF BodyRead
    <3> QED
      BY <1>2, <2>1, <2>2, <3>1, MovesKeepRelay DEF JobStages, Streaming
  <2>3. CASE job[h].route = "fetch"
    <3>1. PICK host \in Reachable(job[h].given) :
            job' = [job EXCEPT ![h].asked = host, ![h].here = host, ![h].at = "upstream"]
      BY <1>6, <2>3 DEF BodyRead, LocalRoutes
    <3>2. host \in SiteHosts
      BY <3>1, DevRelayAssumption DEF Reachable
    <3>3. PICK j : j = [job[h] EXCEPT !.asked = host, !.here = host, !.at = "upstream"]
      OBVIOUS
    <3>4. /\ j \in JobOf
          /\ j.at = "upstream" /\ j.reply = job[h].reply /\ j.here = j.asked
      BY <1>1, <3>2, <3>3 DEF JobOf, JobStages
    <3>5. JobTrue(j)
      BY <1>1, <2>1, <3>4 DEF JobTrue, Streaming
    <3>6. job' = [job EXCEPT ![h] = j]
      BY <3>1, <3>3 DEF RelayTrue
    <3> QED
      BY <1>2, <2>1, <3>4, <3>5, <3>6, JobKeepsRelay
  <2> QED
    BY <2>2, <2>3
<1>7. ASSUME LooksUp(h)
      PROVE  RelayTrue'
  <2>1. CASE RelayReplies(h)
    BY <1>2, <1>7, <2>1, EndsKeepRelay DEF LooksUp, Streaming
  <2>2. CASE job[h].route = "local" /\ MovesTo(h, "upstream") /\ UNCHANGED ends
    BY <1>2, <1>7, <2>2, MovesKeepRelay DEF LooksUp, Streaming, JobStages
  <2> QED
    BY <1>7, <2>1, <2>2 DEF LooksUp
<1> QED
  BY <1>3, <1>4, <1>5, <1>6, <1>7

\* The upstream answers, fails or redirects.
LEMMA AnswersKeepRelay ==
  ASSUME RelayTrue, NEW h \in Handlers,
         \/ UpstreamFails(h) \/ PlainAnswer(h)
         \/ \E told \in {"default", "listed", "proxied", "unreadable"} : SettingsAnswer(h, told)
         \/ \E told \in {"refused", "tools", "unreadable"} : ListingAnswer(h, told)
         \/ \E host \in SiteHosts : FetchRedirected(h, host)
         \/ FetchAnswer(h) \/ PollAnswer(h) \/ DownloadAnswer(h) \/ LocalAnswer(h) \/ ChatAnswer(h)
  PROVE  RelayTrue'
<1>1. job[h] \in JobOf /\ JobTrue(job[h]) /\ SharedTyped
  BY DEF RelayTrue
<1>2. ASSUME UNCHANGED sharedVars
      PROVE  SharedTyped'
  BY <1>1, <1>2 DEF sharedVars, SharedTyped
<1>3. ASSUME UpstreamFails(h) \/ PlainAnswer(h) \/ FetchAnswer(h) \/ DownloadAnswer(h)
      PROVE  RelayTrue'
  <2>1. /\ job[h].at \in {"upstream", "download"}
        /\ RelayReplies(h) /\ UNCHANGED sharedVars
    BY <1>3 DEF UpstreamFails, PlainAnswer, StartupAnswer, BundleAnswer, TelemetryAnswer,
                ImageAnswer, VideoAnswer, ManagedAnswer, PassesOn, FetchAnswer, DownloadAnswer,
                Handles
  <2> QED
    BY <1>2, <2>1, EndsKeepRelay DEF Streaming
<1>4. ASSUME NEW told \in {"default", "listed", "proxied", "unreadable"}, SettingsAnswer(h, told)
      PROVE  RelayTrue'
  <2>1. SharedTyped'
    BY <1>1, <1>4 DEF SettingsAnswer, SharedTyped, Givens
  <2> QED
    BY <1>4, <2>1, EndsKeepRelay DEF SettingsAnswer, Handles, Streaming
<1>5. ASSUME NEW told \in {"refused", "tools", "unreadable"}, ListingAnswer(h, told)
      PROVE  RelayTrue'
  <2>1. job[h].given \in Givens
    BY <1>1 DEF JobOf
  <2>2. issued' \in {issued, job[h].given, "none"} /\ UNCHANGED <<fetching, account>>
    BY <1>5 DEF ListingAnswer
  <2>3. SharedTyped'
    BY <1>1, <2>1, <2>2 DEF SharedTyped, Givens
  <2> QED
    BY <1>5, <2>3, EndsKeepRelay DEF ListingAnswer, Handles, Streaming
<1>6. ASSUME NEW host \in SiteHosts, FetchRedirected(h, host)
      PROVE  RelayTrue'
  <2>1. job[h].at = "upstream" /\ job[h].route = "fetch" /\ UNCHANGED sharedVars
    BY <1>6 DEF FetchRedirected, Handles
  <2>2. CASE RelayReplies(h)
    BY <1>2, <2>1, <2>2, EndsKeepRelay DEF Streaming
  <2>3. CASE ~RelayReplies(h)
    <3>1. /\ host = job[h].here
          /\ job' = [job EXCEPT ![h].hops = @ + 1, ![h].here = host]
          /\ strayed' = (strayed \/ host # job[h].asked) /\ UNCHANGED touched
      BY <1>6, <2>3 DEF FetchRedirected
    <3>2. host = job[h].asked
      BY <1>1, <2>1, <3>1 DEF JobTrue
    <3>3. UNCHANGED ends
      BY <3>1, <3>2 DEF RelayTrue, ends
    <3>4. PICK n \in Nat : n = job[h].hops + 1
      BY <1>1 DEF JobOf
    <3>5. PICK j : j = [job[h] EXCEPT !.hops = n, !.here = host]
      OBVIOUS
    <3>6. /\ j \in JobOf /\ j.here = host /\ j.at = job[h].at /\ j.route = job[h].route
          /\ j.reply = job[h].reply /\ j.asked = job[h].asked
      BY <1>1, <3>5 DEF JobOf
    <3>7. JobTrue(j)
      BY <1>1, <3>2, <3>6 DEF JobTrue
    <3>8. job' = [job EXCEPT ![h] = j]
      BY <3>1, <3>4, <3>5 DEF RelayTrue
    <3> QED
      BY <1>2, <2>1, <3>3, <3>6, <3>7, <3>8, JobKeepsRelay
  <2> QED
    BY <2>2, <2>3
<1>7. ASSUME PollAnswer(h)
      PROVE  RelayTrue'
  <2>1. job[h].at = "upstream" /\ job[h].route = "video poll" /\ UNCHANGED sharedVars
    BY <1>7 DEF PollAnswer, Handles
  <2>2. CASE RelayReplies(h)
    BY <1>2, <2>1, <2>2, EndsKeepRelay DEF Streaming
  <2>3. CASE MovesTo(h, "download") /\ UNCHANGED ends
    BY <1>2, <2>1, <2>3, MovesKeepRelay DEF Streaming, JobStages
  <2> QED
    BY <1>7, <2>2, <2>3 DEF PollAnswer
<1>8. ASSUME LocalAnswer(h) \/ ChatAnswer(h)
      PROVE  RelayTrue'
  <2>1. job[h].at = "upstream" /\ job[h].route \in {"local", "responses"} /\ UNCHANGED sharedVars
    BY <1>8 DEF LocalAnswer, ChatAnswer, Handles
  <2>2. CASE RelayReplies(h)
    BY <1>2, <2>1, <2>2, EndsKeepRelay DEF Streaming
  <2>3. CASE ~RelayReplies(h)
    <3>1. PICK stage \in {"stream", "pipe"} :
            job' = [job EXCEPT ![h].at = stage, ![h].reply = "headers"]
      BY <1>8, <2>3 DEF LocalAnswer, ChatAnswer
    <3>2. PICK j : j = [job[h] EXCEPT !.at = stage, !.reply = "headers"]
      OBVIOUS
    <3>3. /\ j \in JobOf /\ j.at = stage /\ j.route = job[h].route
      BY <1>1, <3>1, <3>2 DEF JobOf, JobStages
    <3>4. JobTrue(j)
      BY <2>1, <3>1, <3>3 DEF JobTrue, Streaming
    <3>5. job' = [job EXCEPT ![h] = j] /\ UNCHANGED ends
      BY <1>8, <2>3, <3>1, <3>2 DEF LocalAnswer, ChatAnswer, RelayTrue
    <3> QED
      BY <1>2, <2>1, <3>3, <3>4, <3>5, JobKeepsRelay
  <2> QED
    BY <2>2, <2>3
<1> QED
  BY <1>3, <1>4, <1>5, <1>6, <1>7, <1>8

\* A body is copied to its end or breaks, and clients go away.
LEMMA StreamsKeepRelay ==
  ASSUME RelayTrue, NEW h \in Handlers,
         \/ StreamWaits(h) \/ StreamDrains(h) \/ StreamEnds(h) \/ StreamBreaks(h) \/ PipeBreaks(h)
         \/ ClientGoes(h)
  PROVE  RelayTrue'
<1>1. job[h] \in JobOf /\ JobTrue(job[h]) /\ SharedTyped
  BY DEF RelayTrue
<1>2. SharedTyped'
  BY <1>1 DEF StreamWaits, StreamDrains, StreamEnds, StreamBreaks, PipeBreaks, ClientGoes,
              sharedVars, SharedTyped
<1>3. ASSUME StreamWaits(h) \/ StreamDrains(h)
      PROVE  RelayTrue'
  BY <1>2, <1>3, MovesKeepRelay DEF StreamWaits, StreamDrains, JobStages, Streaming
<1>4. ASSUME StreamEnds(h) \/ StreamBreaks(h)
      PROVE  RelayTrue'
  BY <1>2, <1>4, EndsKeepRelay DEF StreamEnds, StreamBreaks
<1>5. ASSUME PipeBreaks(h)
      PROVE  RelayTrue'
  <2>1. job' = [g \in Handlers |-> NoJob] /\ UNCHANGED ends
    BY <1>5 DEF PipeBreaks
  <2> QED
    BY <1>2, <2>1, NoJobIsTrue DEF RelayTrue, JobTrue, ends
<1>6. ASSUME ClientGoes(h)
      PROVE  RelayTrue'
  <2>1. CASE job[h].at = "body" \/ Handles(h, "local", "upstream")
    <3>1. RelayReplies(h)
      BY <1>6, <2>1 DEF ClientGoes, Handles
    <3> QED
      BY <1>2, <2>1, <3>1, EndsKeepRelay DEF Streaming, Handles
  <2>2. CASE job[h].at = "stream"
    <3>1. Destroys(h)
      BY <1>6, <2>2 DEF ClientGoes, Handles
    <3> QED
      BY <1>2, <3>1, EndsKeepRelay
  <2>3. CASE ~(job[h].at \in {"body", "stream"} \/ Handles(h, "local", "upstream"))
    <3>1. job' = [job EXCEPT ![h].gone = TRUE] /\ UNCHANGED ends
      BY <1>6, <2>3 DEF ClientGoes
    <3>2. PICK j : j = [job[h] EXCEPT !.gone = TRUE]
      OBVIOUS
    <3>3. /\ j \in JobOf /\ j.at = job[h].at /\ j.route = job[h].route /\ j.reply = job[h].reply
          /\ j.here = job[h].here /\ j.asked = job[h].asked
      BY <1>1, <3>2 DEF JobOf
    <3>4. JobTrue(j)
      BY <1>1, <3>3 DEF JobTrue
    <3>5. job' = [job EXCEPT ![h] = j]
      BY <3>1, <3>2 DEF RelayTrue
    <3> QED
      BY <1>2, <3>1, <3>3, <3>4, <3>5, JobKeepsRelay
  <2> QED
    BY <2>1, <2>2, <2>3
<1> QED
  BY <1>3, <1>4, <1>5, <1>6

\* RepliesStayTrue for any requests, any hosts, and any number of redirects.
THEOREM RepliesAreTrue == DevRelaySpec => []RepliesStayTrue
<1>1. DevRelayInit => RelayTrue
  BY NoJobIsTrue DEF DevRelayInit, RelayTrue, SharedTyped, Givens
<1>2. RelayTrue /\ [DevRelayNext]_devVars => RelayTrue'
  <2>1. ASSUME RelayTrue, UNCHANGED <<job, ends>>, SharedTyped'
        PROVE  RelayTrue'
    BY <2>1 DEF RelayTrue, JobTrue, ends
  <2>2. ASSUME RelayTrue, UNCHANGED devVars
        PROVE  RelayTrue'
    BY <2>1, <2>2 DEF RelayTrue, SharedTyped, devVars, sharedVars
  <2>3. ASSUME RelayTrue, NEW a \in {"mine", "theirs", "none"}, FileChanges(a)
        PROVE  RelayTrue'
    BY <2>1, <2>3 DEF FileChanges, RelayTrue, SharedTyped, Givens
  <2>4. ASSUME RelayTrue, RelayRestarts
        PROVE  RelayTrue'
    BY <2>1, <2>4 DEF RelayRestarts, RelayTrue, SharedTyped, Givens
  <2>5. ASSUME RelayTrue, DevRelayNext
        PROVE  RelayTrue'
    BY <2>3, <2>4, <2>5, RequestsKeepRelay, AnswersKeepRelay, StreamsKeepRelay DEF DevRelayNext
  <2> QED
    BY <2>2, <2>5
<1>3. RelayTrue => RepliesStayTrue
  BY DEF RelayTrue, RepliesStayTrue
<1> QED
  BY <1>1, <1>2, <1>3, PTL DEF DevRelaySpec

-----------------------------------------------------------------------------
(***************************************************************************)
(* The phone's link                                                        *)
(***************************************************************************)

\* Sequences that are written out.
LEMMA AppendPair == ASSUME NEW T, NEW a \in T, NEW b \in T PROVE Append(<<a>>, b) = <<a, b>>
<1>1. /\ Append(<<a>>, b) \in Seq(T) /\ <<a, b>> \in Seq(T)
      /\ Len(Append(<<a>>, b)) = 2 /\ Len(<<a, b>>) = 2
      /\ Append(<<a>>, b)[1] = a /\ Append(<<a>>, b)[2] = b
      /\ <<a, b>>[1] = a /\ <<a, b>>[2] = b
  OBVIOUS
<1>2. \A i \in 1 .. Len(Append(<<a>>, b)) : Append(<<a>>, b)[i] = <<a, b>>[i]
  BY <1>1
<1> QED BY <1>1, <1>2, SeqEqual

LEMMA AppendTriple ==
  ASSUME NEW a, NEW b, NEW c PROVE Append(<<a, b>>, c) = <<a, b, c>>
<1> DEFINE T == {a, b, c}
<1>1. /\ Append(<<a, b>>, c) \in Seq(T) /\ <<a, b, c>> \in Seq(T)
      /\ Len(Append(<<a, b>>, c)) = 3 /\ Len(<<a, b, c>>) = 3
      /\ Append(<<a, b>>, c)[1] = a /\ Append(<<a, b>>, c)[2] = b /\ Append(<<a, b>>, c)[3] = c
      /\ <<a, b, c>>[1] = a /\ <<a, b, c>>[2] = b /\ <<a, b, c>>[3] = c
  OBVIOUS
<1>2. \A i \in 1 .. Len(Append(<<a, b>>, c)) : Append(<<a, b>>, c)[i] = <<a, b, c>>[i]
  BY <1>1
<1> QED BY <1>1, <1>2, SeqEqual

LEMMA ConcatOne ==
  ASSUME NEW T, NEW p \in Seq(T), NEW a \in T PROVE p \o <<a>> = Append(p, a)
OBVIOUS
LEMMA ConcatTwo ==
  ASSUME NEW T, NEW p \in Seq(T), NEW a \in T, NEW b \in T PROVE p \o <<a, b>> = Append(Append(p, a), b)
OBVIOUS

\* What a phone shows once it has drawn the patches q, and shows d now, is the version v.
Brings(q, d, v) ==
  \/ d = v /\ \A i \in 1 .. Len(q) : q[i] = Partial
  \/ \E i \in 1 .. Len(q) : q[i] = v /\ \A j \in i + 1 .. Len(q) : q[j] = Partial

PhoneTyped ==
  /\ phonePage \in [visible : BOOLEAN, online : BOOLEAN, destroyed : BOOLEAN]
  /\ stateNow \in 1 .. MaxVersions /\ lastPatch \in 0 .. stateNow
  /\ downstream \in Seq(0 .. stateNow)
  /\ unsent \in Seq({"mounted", "visible", "hidden", "tap"})
  /\ upstream \in Seq({"mounted", "visible", "hidden", "tap"})
  /\ PhoneTypeOK

\* The inductive invariant: what a phone that was answered is sent ends with what was queued last.
PhoneInv ==
  /\ PhoneTyped
  /\ SeenPhoneIsLinked
  /\ answered => phoneLink = "open" /\ Brings(downstream, drawn, queuedState)

LEMMA PhoneNumbers ==
  /\ MaxVersions \in Nat \ {0} /\ MaxPending \in Nat \ {0}
  /\ MaxDrops \in Nat /\ MaxHidings \in Nat /\ MaxTaps \in Nat
BY PhoneAssumption

LEMMA PartialBrings ==
  ASSUME NEW q \in Seq(Nat), NEW d, NEW v, Brings(q, d, v)
  PROVE  Brings(Append(q, Partial), d, v)
<1>1. /\ Len(q) \in Nat /\ Len(Append(q, Partial)) = Len(q) + 1
      /\ \A i \in 1 .. Len(q) : Append(q, Partial)[i] = q[i]
      /\ Append(q, Partial)[Len(q) + 1] = Partial
  BY DEF Partial
<1> QED BY <1>1 DEF Brings

LEMMA StateBrings ==
  ASSUME NEW q \in Seq(Nat), NEW d, NEW v \in Nat
  PROVE  Brings(Append(q, v), d, v)
<1>1. Len(q) \in Nat /\ Len(Append(q, v)) = Len(q) + 1 /\ Append(q, v)[Len(q) + 1] = v
  OBVIOUS
<1> QED BY <1>1 DEF Brings

LEMMA DrawnBrings ==
  ASSUME NEW q \in Seq(Nat), q # <<>>, NEW d, NEW v \in Nat \ {0}, Brings(q, d, v)
  PROVE  Brings(Tail(q), IF Head(q) = Partial THEN d ELSE Head(q), v)
<1>1. /\ Len(q) \in Nat \ {0} /\ Len(Tail(q)) = Len(q) - 1 /\ Head(q) = q[1]
      /\ \A i \in 1 .. Len(q) - 1 : Tail(q)[i] = q[i + 1]
  BY HeadTailProperties, LenProperties, EmptySeq
<1>2. CASE d = v /\ \A i \in 1 .. Len(q) : q[i] = Partial
  <2>1. Head(q) = Partial
    BY <1>1, <1>2
  <2>2. \A i \in 1 .. Len(q) - 1 : Tail(q)[i] = Partial
    BY <1>1, <1>2
  <2> QED BY <1>1, <1>2, <2>1, <2>2 DEF Brings
<1>3. CASE \E i \in 1 .. Len(q) : q[i] = v /\ \A j \in i + 1 .. Len(q) : q[j] = Partial
  <2>1. PICK i \in 1 .. Len(q) : q[i] = v /\ \A j \in i + 1 .. Len(q) : q[j] = Partial
    BY <1>3
  <2>2. CASE i = 1
    <3>1. Head(q) = v /\ v # Partial
      BY <1>1, <2>1, <2>2 DEF Partial
    <3>2. \A j \in 1 .. Len(q) - 1 : Tail(q)[j] = Partial
      BY <1>1, <2>1, <2>2
    <3> QED BY <1>1, <3>1, <3>2 DEF Brings
  <2>3. CASE i # 1
    <3>1. i - 1 \in 1 .. Len(q) - 1 /\ Tail(q)[i - 1] = v
      BY <1>1, <2>1, <2>3
    <3>2. \A j \in (i - 1) + 1 .. Len(q) - 1 : Tail(q)[j] = Partial
      BY <1>1, <2>1, <2>3
    <3> QED BY <1>1, <3>1, <3>2 DEF Brings
  <2> QED BY <2>2, <2>3
<1> QED BY <1>2, <1>3 DEF Brings

\* What pushes the patches of an intent leaves a phone that is current so.
LEMMA ServingKeeps ==
  ASSUME PhoneInv, NEW intent \in {"mounted", "visible", "hidden", "tap"}, Serves(intent)
  PROVE  /\ lastPatch' \in 0 .. stateNow /\ downstream' \in Seq(0 .. stateNow)
         /\ queuedState' \in 1 .. stateNow
         /\ phoneLink = "open" /\ (answered \/ intent \in {"mounted", "visible"})
              => Brings(downstream', drawn, queuedState')
<1> USE PhoneNumbers
<1>0. /\ stateNow \in Nat \ {0} /\ queuedState \in 1 .. stateNow /\ downstream \in Seq(0 .. stateNow)
      /\ downstream \in Seq(Nat) /\ lastPatch \in 0 .. stateNow
  BY DEF PhoneInv, PhoneTyped, PhoneTypeOK
<1> DEFINE p == ServesPanel(intent)
<1>4. /\ intent = "hidden" => p = <<Partial>>
      /\ intent \in {"mounted", "visible"} => p = <<Partial, stateNow>>
      /\ intent = "tap" /\ stateNow # queuedState => p = <<Partial, stateNow, Partial>>
      /\ intent = "tap" /\ stateNow = queuedState => p = <<Partial, Partial>>
  <2>0. Partial \in Nat /\ <<Partial>> \in Seq(Nat)
    BY DEF Partial
  <2>1. <<Partial>> \o <<stateNow>> \o <<Partial>> = <<Partial, stateNow, Partial>>
    <3>0. stateNow \in Nat /\ <<Partial, stateNow>> \in Seq(Nat)
      BY <1>0, <2>0
    <3>1. <<Partial>> \o <<stateNow>> = Append(<<Partial>>, stateNow)
      BY <2>0, <3>0, ConcatOne
    <3>2. Append(<<Partial>>, stateNow) = <<Partial, stateNow>>
      BY <2>0, <3>0, AppendPair
    <3>3. <<Partial, stateNow>> \o <<Partial>> = Append(<<Partial, stateNow>>, Partial)
      BY <2>0, <3>0, ConcatOne
    <3>4. Append(<<Partial, stateNow>>, Partial) = <<Partial, stateNow, Partial>>
      BY AppendTriple
    <3> QED BY <3>1, <3>2, <3>3, <3>4
  <2>2. <<Partial>> \o <<>> \o <<Partial>> = <<Partial, Partial>>
    <3>1. <<Partial>> \o <<>> = <<Partial>>
      BY <2>0, ConcatEmptySeq
    <3> QED BY <2>0, <3>1, ConcatOne, AppendPair
  <2>3. CASE intent = "hidden"
    BY <2>3 DEF ServesPanel
  <2>4. CASE intent \in {"mounted", "visible"}
    BY <2>4 DEF ServesPanel
  <2>5. CASE intent = "tap" /\ stateNow # queuedState
    <3>1. p = <<Partial>> \o <<stateNow>> \o <<Partial>>
      BY <2>5 DEF ServesPanel
    <3> QED BY <2>1, <2>5, <3>1
  <2>6. CASE intent = "tap" /\ stateNow = queuedState
    <3>1. p = <<Partial>> \o <<>> \o <<Partial>>
      BY <2>6 DEF ServesPanel
    <3> QED BY <2>2, <2>6, <3>1
  <2> QED BY <2>3, <2>4, <2>5, <2>6
<1> HIDE DEF p
<1>1. p \in {<<Partial>>, <<Partial, stateNow>>, <<Partial, Partial>>, <<Partial, stateNow, Partial>>}
  BY <1>4
<1>2. /\ lastPatch' = p[Len(p)]
      /\ downstream' = IF phoneLink = "open" THEN downstream \o p ELSE downstream
      /\ queuedState' = IF intent = "hidden" THEN queuedState ELSE stateNow
  <2>1. p # <<>>
    BY <1>1
  <2> QED BY <2>1 DEF Serves, Pushes, p
<1>3. /\ downstream \o <<Partial>> = Append(downstream, Partial)
      /\ downstream \o <<Partial, stateNow>> = Append(Append(downstream, Partial), stateNow)
      /\ downstream \o <<Partial, Partial>> = Append(Append(downstream, Partial), Partial)
      /\ downstream \o <<Partial, stateNow, Partial>>
           = Append(Append(Append(downstream, Partial), stateNow), Partial)
  BY <1>0 DEF Partial
<1>5. /\ p \in Seq(0 .. stateNow) /\ p[Len(p)] \in 0 .. stateNow
  <2> DEFINE T == 0 .. stateNow
  <2>0. Partial \in T /\ stateNow \in T
    BY <1>0 DEF Partial
  <2> HIDE DEF T
  <2>1. /\ <<Partial>> \in Seq(T) /\ <<Partial, stateNow>> \in Seq(T) /\ <<Partial, Partial>> \in Seq(T)
        /\ <<Partial, stateNow, Partial>> \in Seq(T)
    BY <2>0
  <2>2. p \in Seq(T) /\ p # <<>>
    <3>1. CASE p = <<Partial>>
      BY <2>0, <3>1
    <3>2. CASE p = <<Partial, stateNow>>
      BY <2>0, <3>2
    <3>3. CASE p = <<Partial, Partial>>
      BY <2>0, <3>3
    <3>4. CASE p = <<Partial, stateNow, Partial>>
      BY <2>0, <3>4
    <3> QED BY <1>1, <3>1, <3>2, <3>3, <3>4
  <2>3. Len(p) \in 1 .. Len(p)
    BY <2>2, EmptySeq, LenProperties
  <2>4. p[Len(p)] \in T
    BY <2>2, <2>3, ElementOfSeq
  <2> QED BY <2>2, <2>4 DEF T
<1>6. downstream' \in Seq(0 .. stateNow)
  <2>1. downstream \o p \in Seq(0 .. stateNow)
    BY <1>0, <1>5, ConcatProperties
  <2> QED BY <1>0, <1>2, <2>1
<1>7. ASSUME phoneLink = "open", answered \/ intent \in {"mounted", "visible"}
      PROVE  Brings(downstream', drawn, queuedState')
  <2>0. /\ downstream' = downstream \o p
        /\ Append(downstream, Partial) \in Seq(Nat)
        /\ Append(Append(downstream, Partial), stateNow) \in Seq(Nat)
        /\ answered => Brings(downstream, drawn, queuedState)
    BY <1>0, <1>2, <1>7 DEF PhoneInv, Partial
  <2>1. Brings(Append(Append(downstream, Partial), stateNow), drawn, stateNow)
    BY <1>0, <2>0, StateBrings
  <2>2. Brings(Append(Append(Append(downstream, Partial), stateNow), Partial), drawn, stateNow)
    BY <2>0, <2>1, PartialBrings
  <2>3. answered => Brings(Append(downstream, Partial), drawn, queuedState)
    BY <1>0, <2>0, PartialBrings
  <2>4. answered => Brings(Append(Append(downstream, Partial), Partial), drawn, queuedState)
    BY <2>0, <2>3, PartialBrings
  <2>5. CASE intent \in {"mounted", "visible"}
    BY <1>2, <1>3, <1>4, <2>0, <2>1, <2>5
  <2>6. CASE intent = "hidden"
    BY <1>2, <1>3, <1>4, <1>7, <2>0, <2>3, <2>6
  <2>7. CASE intent = "tap"
    BY <1>2, <1>3, <1>4, <1>7, <2>0, <2>2, <2>4, <2>7
  <2> QED BY <2>5, <2>6, <2>7
<1> QED BY <1>0, <1>2, <1>5, <1>6, <1>7

LEMMA PhoneInitInv == PhoneInit => PhoneInv
<1> SUFFICES ASSUME PhoneInit PROVE PhoneInv
  OBVIOUS
<1> DEFINE Intents == {"mounted", "visible", "hidden", "tap"}
<1>1. /\ <<"mounted">> \in Seq(Intents) /\ Len(<<"mounted">>) = 1
      /\ <<"visible", "mounted">> \in Seq(Intents) /\ Len(<<"visible", "mounted">>) = 2
  OBVIOUS
<1> HIDE DEF Intents
<1>2. unsent \in Seq(Intents) /\ Len(unsent) <= MaxPending
  <2>1. CASE MaxPending = 1
    BY <1>1, <2>1 DEF PhoneInit
  <2>2. CASE MaxPending # 1
    BY <1>1, <2>2, PhoneNumbers DEF PhoneInit
  <2> QED BY <2>1, <2>2
<1>3. downstream \in Seq(0 .. stateNow) /\ upstream \in Seq(Intents)
  BY EmptySeq DEF PhoneInit
<1>4. /\ phonePage \in [visible : BOOLEAN, online : BOOLEAN, destroyed : BOOLEAN]
      /\ phoneLink = "connecting" /\ retryOn = FALSE /\ answered = FALSE
      /\ lastPatch = 1 /\ stateNow = 1 /\ queuedState = 1 /\ drawn = 0
  BY DEF PhoneInit
<1>5. SeenPhoneIsLinked
  BY <1>4 DEF SeenPhoneIsLinked
<1>6. PhoneTypeOK
  <2>1. lastPatch \in 0 .. MaxVersions
    BY <1>4, PhoneNumbers
  <2>2. drawn \in 0 .. stateNow /\ queuedState \in 1 .. stateNow
    BY <1>4
  <2>3. phoneLink \in {"none", "connecting", "open"} /\ retryOn \in BOOLEAN /\ answered \in BOOLEAN
    BY <1>4
  <2> QED BY <1>2, <2>1, <2>2, <2>3 DEF PhoneTypeOK
<1>7. PhoneTyped
  BY <1>2, <1>3, <1>4, <1>6, PhoneNumbers DEF PhoneTyped, Intents
<1> QED BY <1>4, <1>5, <1>7 DEF PhoneInv

LEMMA PhoneStepInv == PhoneInv /\ [PhoneNext]_phoneVars => PhoneInv'
<1> SUFFICES ASSUME PhoneInv, [PhoneNext]_phoneVars PROVE PhoneInv'
  OBVIOUS
<1> USE PhoneNumbers
<1> DEFINE Intents == {"mounted", "visible", "hidden", "tap"}
<1>0. /\ stateNow \in Nat \ {0} /\ stateNow <= MaxVersions /\ queuedState \in 1 .. stateNow
      /\ downstream \in Seq(0 .. stateNow) /\ downstream \in Seq(Nat)
      /\ upstream \in Seq(Intents) /\ unsent \in Seq(Intents) /\ Len(unsent) <= MaxPending
  BY DEF PhoneInv, PhoneTyped, PhoneTypeOK
<1>a. ASSUME NEW intent \in Intents, SendsOver(intent)
      PROVE  unsent' \in Seq(Intents) /\ upstream' \in Seq(Intents) /\ Len(unsent') <= MaxPending
  <2>1. CASE phoneLink = "open"
    <3>1. upstream' = Append(upstream, intent) /\ unsent' = unsent
      BY <1>a, <2>1 DEF SendsOver
    <3> HIDE DEF Intents
    <3> QED BY <1>0, <3>1
  <2>2. CASE phoneLink # "open"
    <3> DEFINE more == Append(unsent, intent)
    <3>1. /\ more \in Seq(Intents) /\ Len(more) = Len(unsent) + 1 /\ more # <<>>
          /\ Len(unsent) \in Nat
      BY SMTT(20), <1>0
    <3>2. Tail(more) \in Seq(Intents) /\ Len(Tail(more)) = Len(unsent)
      BY <3>1
    <3>3. unsent' = (IF Len(more) > MaxPending THEN Tail(more) ELSE more) /\ upstream' = upstream
      BY <1>a, <2>2 DEF SendsOver
    <3> HIDE DEF more
    <3> QED BY <1>0, <3>1, <3>2, <3>3
  <2> QED BY <2>1, <2>2
<1> HIDE DEF Intents
<1>1. CASE UNCHANGED phoneVars
  BY <1>1 DEF phoneVars, PhoneInv, PhoneTyped, PhoneTypeOK, SeenPhoneIsLinked
<1>2. CASE StateChanges
  <2>1. downstream' \in Seq(0 .. stateNow')
    BY <1>0, <1>2 DEF StateChanges
  <2> QED BY <1>0, <1>2, <2>1 DEF StateChanges, PhoneInv, PhoneTyped, PhoneTypeOK, SeenPhoneIsLinked
<1>3. CASE StateIsPushed
  <2>0. /\ <<stateNow>> # <<>> /\ <<stateNow>>[Len(<<stateNow>>)] = stateNow
        /\ downstream \o <<stateNow>> = Append(downstream, stateNow)
    BY <1>0
  <2>1. /\ lastPatch' = stateNow
        /\ downstream' = IF phoneLink = "open" THEN Append(downstream, stateNow) ELSE downstream
    BY <2>0, <1>3 DEF StateIsPushed, Pushes
  <2>2. downstream' \in Seq(0 .. stateNow)
    <3> DEFINE T == 0 .. stateNow
    <3>1. downstream \in Seq(T) /\ stateNow \in T
      BY <1>0
    <3> HIDE DEF T
    <3>2. downstream' \in Seq(T)
      BY <2>1, <3>1
    <3> QED BY <3>2 DEF T
  <2>3. phoneLink = "open" => Brings(downstream', drawn, stateNow)
    BY <1>0, <2>1, StateBrings
  <2> QED BY <1>0, <1>3, <2>1, <2>2, <2>3
          DEF StateIsPushed, PhoneInv, PhoneTyped, PhoneTypeOK, SeenPhoneIsLinked
<1>4. CASE DeskActs
  <2>1. Serves("tap")
    BY <1>4 DEF DeskActs
  <2>2. /\ lastPatch' \in 0 .. stateNow /\ downstream' \in Seq(0 .. stateNow)
        /\ queuedState' \in 1 .. stateNow
        /\ phoneLink = "open" /\ answered => Brings(downstream', drawn, queuedState')
    BY <2>1, ServingKeeps
  <2> QED BY <1>0, <1>4, <2>2 DEF DeskActs, PhoneInv, PhoneTyped, PhoneTypeOK, SeenPhoneIsLinked
<1>5. CASE IntentArrives
  <2>1. Head(upstream) \in Intents /\ Tail(upstream) \in Seq(Intents) /\ Serves(Head(upstream))
    BY <1>0, <1>5 DEF IntentArrives
  <2>2. /\ lastPatch' \in 0 .. stateNow /\ downstream' \in Seq(0 .. stateNow)
        /\ queuedState' \in 1 .. stateNow
        /\ phoneLink = "open" /\ (answered \/ Head(upstream) \in {"mounted", "visible"})
             => Brings(downstream', drawn, queuedState')
    BY <2>1, ServingKeeps DEF Intents
  <2>3. answered' => phoneLink = "open" /\ (answered \/ Head(upstream) \in {"mounted", "visible"})
    BY <1>5 DEF IntentArrives, PhoneInv
  <2>4. answered' \in BOOLEAN
    BY <1>5 DEF IntentArrives
  <2> QED BY <1>0, <1>5, <2>1, <2>2, <2>3, <2>4
          DEF IntentArrives, PhoneInv, PhoneTyped, PhoneTypeOK, SeenPhoneIsLinked, Intents
<1>6. CASE PhonePatched
  <2>1. Tail(downstream) \in Seq(0 .. stateNow) /\ Head(downstream) \in 0 .. stateNow /\ downstream # <<>>
    BY <1>0, <1>6 DEF PhonePatched
  <2>2. answered => Brings(downstream', drawn', queuedState)
    BY <1>0, <1>6, <2>1, DrawnBrings DEF PhonePatched, PhoneInv
  <2>3. drawn' \in 0 .. stateNow
    BY <1>6, <2>1 DEF PhonePatched, PhoneInv, PhoneTyped, PhoneTypeOK
  <2> QED BY <1>0, <1>6, <2>1, <2>2, <2>3
          DEF PhonePatched, PhoneInv, PhoneTyped, PhoneTypeOK, SeenPhoneIsLinked
<1>7. CASE RetryFires
  BY <1>0, <1>7 DEF RetryFires, PhoneInv, PhoneTyped, PhoneTypeOK, SeenPhoneIsLinked
<1>8. CASE SocketOpens
  <2>1. downstream' \in Seq(0 .. stateNow) /\ upstream' \in Seq(Intents) /\ unsent' \in Seq(Intents)
        /\ Len(unsent') <= MaxPending
    BY <1>0, <1>8 DEF SocketOpens, PhoneInv, PhoneTyped
  <2>2. ~answered'
    BY <1>8 DEF SocketOpens, PhoneInv
  <2> QED BY <1>0, <1>8, <2>1, <2>2
          DEF SocketOpens, PhoneInv, PhoneTyped, PhoneTypeOK, SeenPhoneIsLinked, Intents
<1>9. CASE SocketCloses
  <2>1. downstream' \in Seq(0 .. stateNow) /\ upstream' \in Seq(Intents)
    BY <1>0, <1>9 DEF SocketCloses
  <2> QED BY <1>0, <1>9, <2>1
          DEF SocketCloses, PhoneInv, PhoneTyped, PhoneTypeOK, SeenPhoneIsLinked, Intents
<1>10. CASE PhoneHides
  <2>1. unsent' \in Seq(Intents) /\ upstream' \in Seq(Intents) /\ Len(unsent') <= MaxPending
    BY <1>a, <1>10 DEF PhoneHides, Intents
  <2> QED BY <1>0, <1>10, <2>1
          DEF PhoneHides, PhoneInv, PhoneTyped, PhoneTypeOK, SeenPhoneIsLinked, Intents
<1>11. CASE PhoneShows
  <2>1. unsent' \in Seq(Intents) /\ upstream' \in Seq(Intents) /\ Len(unsent') <= MaxPending
    BY <1>a, <1>11 DEF PhoneShows, Intents
  <2> QED BY <1>0, <1>11, <2>1
          DEF PhoneShows, Connects, PhoneInv, PhoneTyped, PhoneTypeOK, SeenPhoneIsLinked, Intents
<1>12. CASE GoesOffline
  BY <1>0, <1>12 DEF GoesOffline, PhoneInv, PhoneTyped, PhoneTypeOK, SeenPhoneIsLinked
<1>13. CASE GoesOnline
  BY <1>0, <1>13 DEF GoesOnline, Connects, PhoneInv, PhoneTyped, PhoneTypeOK, SeenPhoneIsLinked
<1>14. CASE PhoneActs
  <2>1. unsent' \in Seq(Intents) /\ upstream' \in Seq(Intents) /\ Len(unsent') <= MaxPending
    BY <1>a, <1>14 DEF PhoneActs, Intents
  <2> QED BY <1>0, <1>14, <2>1
          DEF PhoneActs, PhoneInv, PhoneTyped, PhoneTypeOK, SeenPhoneIsLinked, Intents
<1>15. CASE PageIsLeft
  <2>1. downstream' \in Seq(0 .. stateNow) /\ upstream' \in Seq(Intents) /\ unsent' \in Seq(Intents)
        /\ Len(unsent') = 0 /\ answered' = FALSE
    BY <1>15 DEF PageIsLeft
  <2>2. phonePage' \in [visible : BOOLEAN, online : BOOLEAN, destroyed : BOOLEAN] /\ phonePage'.destroyed
    BY <1>15 DEF PageIsLeft, PhoneInv, PhoneTyped
  <2>3. /\ phoneLink' = "none" /\ retryOn' = FALSE
        /\ UNCHANGED <<lastPatch, stateNow, queuedState, drawn>>
    BY <1>15 DEF PageIsLeft
  <2>5. SeenPhoneIsLinked'
    BY <2>2 DEF SeenPhoneIsLinked
  <2>6. PhoneTypeOK'
    <3>1. lastPatch' \in 0 .. MaxVersions /\ drawn' \in 0 .. stateNow' /\ queuedState' \in 1 .. stateNow'
      BY <1>0, <2>3 DEF PhoneInv, PhoneTyped, PhoneTypeOK
    <3>2. phoneLink' \in {"none", "connecting", "open"} /\ retryOn' \in BOOLEAN /\ answered' \in BOOLEAN
      BY <2>1, <2>3
    <3>3. Len(unsent') <= MaxPending
      BY <2>1
    <3> QED BY <3>1, <3>2, <3>3 DEF PhoneTypeOK
  <2>7. PhoneTyped'
    BY <1>0, <2>1, <2>2, <2>3, <2>6 DEF PhoneInv, PhoneTyped, Intents
  <2> QED BY <2>1, <2>5, <2>7 DEF PhoneInv
<1> QED
  BY <1>1, <1>2, <1>3, <1>4, <1>5, <1>6, <1>7, <1>8, <1>9, <1>10, <1>11, <1>12, <1>13, <1>14, <1>15
  DEF PhoneNext

LEMMA PhoneInvHolds == PhoneInv => PhoneFollows
<1> SUFFICES ASSUME PhoneInv PROVE PhoneFollows
  OBVIOUS
<1>1. PhoneIsQuiet /\ answered => drawn = stateNow
  BY DEF PhoneInv, PhoneIsQuiet, Brings
<1> QED BY <1>1 DEF PhoneFollows, AnsweredPhoneIsCurrent, PhoneInv

\* A phone that is looked at and has a network has a link or will try again, and one whose
\* question was answered over the link it has shows the daemon's state once nothing is under
\* way, for any number of changes, taps and lost links (mobile/app.tsx connect,
\* remote-messenger.ts attachSocket).
THEOREM PhonesFollow == PhoneSpec => []PhoneFollows
<1>1. PhoneInit => PhoneInv
  BY PhoneInitInv
<1>2. PhoneInv /\ [PhoneNext]_phoneVars => PhoneInv'
  BY PhoneStepInv
<1> QED BY <1>1, <1>2, PhoneInvHolds, PTL DEF PhoneSpec

-----------------------------------------------------------------------------
(***************************************************************************)
(* The messenger's bridge                                                  *)
(***************************************************************************)

PanelIntents == [id : Nat, kind : Kinds]
PanelPatches == [is : {"ack", "done", "image", "state"}, id : Nat]

\* An intent of one of these kinds is on its way to the daemon, or in hand there.
IsAsked(id, kinds) ==
  \/ \E i \in 1 .. Len(toDaemon) : toDaemon[i].id = id /\ toDaemon[i].kind \in kinds
  \/ \E intent \in inHand : intent.id = id /\ intent.kind \in kinds

\* A patch that ends the watch of the last intent.
WatchIsOver(patch) ==
  \/ patch.is = "ack" /\ patch.id = watched.id
  \/ watched.snapshot /\ patch.is \in {"state", "image"}

PanelHears(patch) == \E i \in 1 .. Len(toPanel) : toPanel[i] = patch

BridgeTyped ==
  /\ MessengerTypeOK
  /\ watched \in [id : Nat, snapshot : BOOLEAN, timed : BOOLEAN]
  /\ toDaemon \in Seq(PanelIntents) /\ inHand \subseteq PanelIntents /\ toPanel \in Seq(PanelPatches)
  /\ hostLosses \in Nat

\* What the panel waits for is under way: an intent that will be answered, or the answer.
PromisesComeTrue ==
  \A id \in promises : IsAsked(id, {"say", "image"}) \/ PanelHears(Done(id))
ImagesCome ==
  \A id \in imagesDue : IsAsked(id, {"image"}) \/ PanelHears(Image(id))
WatchedIsAnswered ==
  watched.timed =>
    \/ \E i \in 1 .. Len(toDaemon) : toDaemon[i].id = watched.id /\ toDaemon[i].kind # "draft"
    \/ PanelHears(Ack(watched.id))
LostIsHeardAgain ==
  bridgeLost => toPanel # <<>> \/ \E i \in 1 .. Len(toDaemon) : toDaemon[i].kind # "draft"

\* The inductive invariant, for as long as no daemon was lost with what it had.
BridgeInv ==
  /\ BridgeTyped
  /\ RejoiningEnds
  /\ hostLosses = 0 => PromisesComeTrue /\ ImagesCome /\ WatchedIsAnswered /\ LostIsHeardAgain

LEMMA BridgeNumbers == MaxIntents \in Nat \ {0} /\ MaxHostLoss \in Nat
BY MessengerAssumption

\* An intent that is sent loses none of those before it.
LEMMA AppendHas ==
  ASSUME NEW T, NEW q \in Seq(T), NEW a \in T
  PROVE  /\ Append(q, a) \in Seq(T) /\ Append(q, a) # <<>>
         /\ \A i \in 1 .. Len(q) : i \in 1 .. Len(Append(q, a)) /\ Append(q, a)[i] = q[i]
         /\ \E i \in 1 .. Len(Append(q, a)) : Append(q, a)[i] = a
<1>1. Len(q) \in Nat /\ Append(q, a) \in Seq(T) /\ Len(Append(q, a)) = Len(q) + 1
      /\ Append(q, a)[Len(q) + 1] = a /\ \A i \in 1 .. Len(q) : Append(q, a)[i] = q[i]
  OBVIOUS
<1>2. Len(q) + 1 \in 1 .. Len(q) + 1 /\ \A i \in 1 .. Len(q) : i \in 1 .. Len(q) + 1
  BY <1>1
<1>3. Append(q, a) # <<>>
  BY <1>1
<1> QED BY <1>1, <1>2, <1>3

\* The list z has what q has, where q has it, and also what r has.
Lengthens(T, q, r, z) ==
  /\ z \in Seq(T) /\ (q # <<>> => z # <<>>)
  /\ \A i \in 1 .. Len(q) : i \in 1 .. Len(z) /\ z[i] = q[i]
  /\ \A i \in 1 .. Len(r) : \E j \in 1 .. Len(z) : z[j] = r[i]

LEMMA ConcatLengthens ==
  ASSUME NEW T, NEW q \in Seq(T), NEW r \in Seq(T)
  PROVE  Lengthens(T, q, r, q \o r)
<1>1. /\ q \o r \in Seq(T) /\ Len(q \o r) = Len(q) + Len(r) /\ Len(q) \in Nat /\ Len(r) \in Nat
      /\ \A i \in 1 .. Len(q) + Len(r) : (q \o r)[i] = IF i <= Len(q) THEN q[i] ELSE r[i - Len(q)]
  BY ConcatProperties, LenProperties
<1>2. ASSUME NEW i \in 1 .. Len(q) PROVE i \in 1 .. Len(q \o r) /\ (q \o r)[i] = q[i]
  BY <1>1
<1>3. ASSUME NEW i \in 1 .. Len(r) PROVE \E j \in 1 .. Len(q \o r) : (q \o r)[j] = r[i]
  <2>1. /\ Len(q) + i \in 1 .. Len(q) + Len(r) /\ ~(Len(q) + i <= Len(q)) /\ (Len(q) + i) - Len(q) = i
    BY <1>1
  <2>2. (q \o r)[Len(q) + i] = r[i]
    BY <1>1, <2>1
  <2> QED BY <1>1, <2>1, <2>2
<1>4. ASSUME q # <<>> PROVE q \o r # <<>>
  BY <1>1, <1>4, EmptySeq
<1> QED BY <1>1, <1>2, <1>3, <1>4 DEF Lengthens

LEMMA TailKeeps ==
  ASSUME NEW T, NEW q \in Seq(T), q # <<>>
  PROVE  /\ Tail(q) \in Seq(T) /\ Head(q) \in T
         /\ \A i \in 1 .. Len(q) : q[i] = Head(q) \/ \E j \in 1 .. Len(Tail(q)) : Tail(q)[j] = q[i]
<1>1. /\ Len(q) \in Nat \ {0} /\ Len(Tail(q)) = Len(q) - 1 /\ Head(q) = q[1] /\ Head(q) \in T
      /\ Tail(q) \in Seq(T) /\ \A i \in 1 .. Len(q) - 1 : Tail(q)[i] = q[i + 1]
  BY HeadTailProperties, LenProperties, EmptySeq, ElementOfSeq
<1>2. ASSUME NEW i \in 1 .. Len(q), i # 1 PROVE \E j \in 1 .. Len(Tail(q)) : Tail(q)[j] = q[i]
  <2>1. i - 1 \in 1 .. Len(q) - 1 /\ (i - 1) + 1 = i
    BY <1>1, <1>2
  <2> QED BY <1>1, <2>1
<1> QED BY <1>1, <1>2

LEMMA BridgeInitInv == MessengerInit => BridgeInv
<1> SUFFICES ASSUME MessengerInit PROVE BridgeInv
  OBVIOUS
<1> DEFINE first == [id |-> 1, kind |-> "mounted"]
<1>1. /\ first \in PanelIntents /\ first.id = 1 /\ first.kind = "mounted"
      /\ watched \in [id : Nat, snapshot : BOOLEAN, timed : BOOLEAN] /\ watched.id = 1
  BY DEF PanelIntents, Kinds, MessengerInit
<1>2. toDaemon = <<first>>
  BY DEF MessengerInit
<1> HIDE DEF first
<1>3. toDaemon \in Seq(PanelIntents) /\ Len(toDaemon) = 1 /\ toDaemon[1] = first /\ 1 \in 1 .. Len(toDaemon)
  BY <1>1, <1>2
<1>4. toPanel \in Seq(PanelPatches)
  BY EmptySeq DEF MessengerInit
<1>5. WatchedIsAnswered
  BY <1>1, <1>3 DEF WatchedIsAnswered
<1>6. /\ numbered = 1 /\ promises = {} /\ imagesDue = {} /\ bridgeLost = FALSE /\ rejoining = FALSE
      /\ panelOpen = TRUE /\ inHand = {} /\ hostLosses = 0
  BY DEF MessengerInit
<1>7. BridgeTyped
  <2>1. MessengerTypeOK
    <3>1. numbered \in 1 .. MaxIntents /\ watched.id \in 0 .. numbered
      BY <1>1, <1>6, BridgeNumbers
    <3>2. promises \cup imagesDue = {}
      BY <1>6
    <3> QED BY <1>6, <3>1, <3>2 DEF MessengerTypeOK
  <2>2. inHand \subseteq PanelIntents /\ hostLosses \in Nat
    BY <1>6
  <2> QED BY <1>1, <1>3, <1>4, <2>1, <2>2 DEF BridgeTyped
<1> QED BY <1>5, <1>6, <1>7 DEF BridgeInv, RejoiningEnds, PromisesComeTrue, ImagesCome, LostIsHeardAgain

LEMMA SendingKeeps ==
  ASSUME BridgeInv, NEW kind \in Kinds, SendBridgeIntent(kind), rejoining' \in BOOLEAN,
         rejoining' => rejoining \/ IsWatched(kind)
  PROVE  BridgeInv'
<1> USE BridgeNumbers
<1> DEFINE intent == [id |-> numbered + 1, kind |-> kind]
<1>0. numbered \in Nat /\ watched \in [id : Nat, snapshot : BOOLEAN, timed : BOOLEAN]
      /\ toDaemon \in Seq(PanelIntents)
  BY DEF BridgeInv, BridgeTyped, MessengerTypeOK
<1>1. /\ intent \in PanelIntents /\ intent.id = numbered + 1 /\ intent.kind = kind
      /\ toDaemon' = Append(toDaemon, intent) /\ numbered' = numbered + 1
  BY <1>0 DEF SendBridgeIntent, PanelIntents
<1> HIDE DEF intent
<1>2. /\ toDaemon' \in Seq(PanelIntents)
      /\ \A i \in 1 .. Len(toDaemon) : i \in 1 .. Len(toDaemon') /\ toDaemon'[i] = toDaemon[i]
      /\ \E i \in 1 .. Len(toDaemon') : toDaemon'[i] = intent
  BY <1>0, <1>1, AppendHas
<1>3. /\ watched' = IF IsWatched(kind)
                      THEN [id |-> numbered + 1, snapshot |-> kind \in {"mounted", "shown"}, timed |-> TRUE]
                      ELSE watched
      /\ promises' = IF IsPromised(kind) THEN promises \cup {numbered + 1} ELSE promises
      /\ imagesDue' = IF kind = "image" THEN imagesDue \cup {numbered + 1} ELSE imagesDue
      /\ panelOpen /\ numbered < MaxIntents
      /\ UNCHANGED <<bridgeLost, panelOpen, inHand, toPanel, hostLosses>>
  BY DEF SendBridgeIntent
<1>4. BridgeTyped'
  <2>1. watched' \in [id : Nat, snapshot : BOOLEAN, timed : BOOLEAN] /\ watched'.id \in 0 .. numbered'
    BY <1>0, <1>1, <1>3 DEF BridgeInv, BridgeTyped, MessengerTypeOK
  <2>2. numbered' \in 1 .. MaxIntents /\ promises' \cup imagesDue' \subseteq 1 .. numbered'
    BY <1>0, <1>1, <1>3 DEF BridgeInv, BridgeTyped, MessengerTypeOK
  <2> QED BY <1>2, <1>3, <2>1, <2>2 DEF BridgeInv, BridgeTyped, MessengerTypeOK
<1>5. RejoiningEnds'
  BY <1>3 DEF BridgeInv, RejoiningEnds, IsWatched
<1>6. \A id, kinds : IsAsked(id, kinds) => IsAsked(id, kinds)'
  BY <1>2, <1>3 DEF IsAsked
<1>7. ASSUME NEW id, id = numbered + 1, NEW kinds, kind \in kinds PROVE IsAsked(id, kinds)'
  BY <1>1, <1>2, <1>7 DEF IsAsked
<1>8. \A patch : PanelHears(patch) => PanelHears(patch)'
  BY <1>3 DEF PanelHears
<1>9. ASSUME hostLosses' = 0 PROVE (PromisesComeTrue /\ ImagesCome /\ WatchedIsAnswered /\ LostIsHeardAgain)'
  <2>0. PromisesComeTrue /\ ImagesCome /\ WatchedIsAnswered /\ LostIsHeardAgain
    BY <1>3, <1>9 DEF BridgeInv
  <2>1. PromisesComeTrue'
    <3> SUFFICES ASSUME NEW id \in promises'
                 PROVE  IsAsked(id, {"say", "image"})' \/ PanelHears(Done(id))'
      BY DEF PromisesComeTrue, Done
    <3>1. CASE id \in promises
      BY <1>6, <1>8, <2>0, <3>1 DEF PromisesComeTrue
    <3>2. CASE id \notin promises
      <4>1. id = numbered + 1 /\ kind \in {"say", "image"}
        BY <1>3, <3>2 DEF IsPromised
      <4> QED BY <1>7, <4>1
    <3> QED BY <3>1, <3>2
  <2>2. ImagesCome'
    <3> SUFFICES ASSUME NEW id \in imagesDue'
                 PROVE  IsAsked(id, {"image"})' \/ PanelHears(Image(id))'
      BY DEF ImagesCome, Image
    <3>1. CASE id \in imagesDue
      BY <1>6, <1>8, <2>0, <3>1 DEF ImagesCome
    <3>2. CASE id \notin imagesDue
      <4>1. id = numbered + 1 /\ kind \in {"image"}
        BY <1>3, <3>2
      <4> QED BY <1>7, <4>1
    <3> QED BY <3>1, <3>2
  <2>3. WatchedIsAnswered'
    <3>1. CASE IsWatched(kind)
      <4>1. watched'.id = numbered + 1 /\ kind # "draft"
        BY <1>3, <3>1 DEF IsWatched
      <4> QED BY <1>1, <1>2, <4>1 DEF WatchedIsAnswered
    <3>2. CASE ~IsWatched(kind)
      <4>1. watched' = watched
        BY <1>3, <3>2
      <4> QED BY <1>2, <1>3, <2>0, <4>1 DEF WatchedIsAnswered, PanelHears, Ack
    <3> QED BY <3>1, <3>2
  <2>4. LostIsHeardAgain'
    BY <1>2, <1>3, <2>0 DEF LostIsHeardAgain
  <2> QED BY <2>1, <2>2, <2>3, <2>4
<1> QED BY <1>4, <1>5, <1>9 DEF BridgeInv
LEMMA BridgeStepInv == BridgeInv /\ [MessengerNext]_messengerVars => BridgeInv'
<1> SUFFICES ASSUME BridgeInv, [MessengerNext]_messengerVars PROVE BridgeInv'
  OBVIOUS
<1> USE BridgeNumbers
<1>0. /\ BridgeTyped /\ hostLosses \in Nat
      /\ toDaemon \in Seq(PanelIntents) /\ toPanel \in Seq(PanelPatches) /\ inHand \subseteq PanelIntents
  BY DEF BridgeInv, BridgeTyped
<1>1. CASE UNCHANGED messengerVars
  BY <1>1 DEF messengerVars, panelOwn, bridgeWay, BridgeInv, BridgeTyped, MessengerTypeOK, RejoiningEnds,
     PromisesComeTrue, ImagesCome, WatchedIsAnswered, LostIsHeardAgain, IsAsked, PanelHears
<1>2. ASSUME NEW kind \in Kinds \ {"mounted"}, PanelSends(kind) PROVE BridgeInv'
  <2>1. SendBridgeIntent(kind) /\ rejoining' = rejoining /\ rejoining \in BOOLEAN
    BY <1>2 DEF PanelSends, BridgeInv, BridgeTyped, MessengerTypeOK
  <2> QED BY <2>1, SendingKeeps
<1>3. CASE Reconnects
  <2>1. SendBridgeIntent("mounted") /\ rejoining' = TRUE /\ "mounted" \in Kinds /\ IsWatched("mounted")
    BY <1>3 DEF Reconnects, Kinds, IsWatched
  <2> QED BY <2>1, SendingKeeps
<1>4. CASE AckTimesOut
  <2>1. /\ watched.timed /\ watched' = [watched EXCEPT !.timed = FALSE]
        /\ promises' = promises \ {watched.id} /\ rejoining' = FALSE /\ bridgeLost' = TRUE
        /\ UNCHANGED <<numbered, imagesDue, panelOpen, toDaemon, inHand, toPanel, hostLosses>>
    BY <1>4 DEF AckTimesOut, bridgeWay
  <2>2. ~watched'.timed /\ watched'.id = watched.id
        /\ watched' \in [id : Nat, snapshot : BOOLEAN, timed : BOOLEAN]
    BY <2>1 DEF BridgeInv, BridgeTyped
  <2>3. BridgeTyped'
    BY <2>1, <2>2 DEF BridgeInv, BridgeTyped, MessengerTypeOK
  <2>4. hostLosses = 0 => LostIsHeardAgain'
    <3>1. hostLosses = 0 => toPanel # <<>> \/ \E i \in 1 .. Len(toDaemon) : toDaemon[i].kind # "draft"
      BY <2>1 DEF BridgeInv, WatchedIsAnswered, PanelHears
    <3> QED BY <2>1, <3>1 DEF LostIsHeardAgain
  <2>5. hostLosses = 0 => PromisesComeTrue' /\ ImagesCome' /\ WatchedIsAnswered'
    BY <2>1, <2>2 DEF BridgeInv, PromisesComeTrue, ImagesCome, WatchedIsAnswered, IsAsked, PanelHears
  <2> QED BY <2>1, <2>3, <2>4, <2>5 DEF BridgeInv, RejoiningEnds
<1>5. ASSUME NEW id \in imagesDue, ImageTimesOut(id) PROVE BridgeInv'
  <2>1. /\ imagesDue' = imagesDue \ {id}
        /\ UNCHANGED <<numbered, watched, promises, bridgeLost, rejoining, panelOpen, toDaemon, inHand,
                       toPanel, hostLosses>>
    BY <1>5 DEF ImageTimesOut, bridgeWay
  <2> QED BY <2>1 DEF BridgeInv, BridgeTyped, MessengerTypeOK, RejoiningEnds,
        PromisesComeTrue, ImagesCome, WatchedIsAnswered, LostIsHeardAgain, IsAsked, PanelHears
<1>6. CASE PatchArrives
  <2> DEFINE patch == Head(toPanel)
  <2>1. toPanel # <<>> /\ toPanel' = Tail(toPanel)
    BY <1>6 DEF PatchArrives
  <2>2. /\ Tail(toPanel) \in Seq(PanelPatches) /\ patch \in PanelPatches
        /\ \A i \in 1 .. Len(toPanel) :
             toPanel[i] = patch \/ \E j \in 1 .. Len(Tail(toPanel)) : Tail(toPanel)[j] = toPanel[i]
    BY <1>0, <2>1, TailKeeps
  <2>3. \A p : PanelHears(p) /\ p # patch => PanelHears(p)'
    BY <2>1, <2>2 DEF PanelHears
  <2>4. /\ promises' = IF patch.is = "done" THEN promises \ {patch.id} ELSE promises
        /\ watched' = (IF WatchIsOver(patch) THEN Unwatched ELSE watched)
        /\ imagesDue' = IF patch.is = "image" THEN imagesDue \ {patch.id} ELSE imagesDue
        /\ rejoining' = FALSE /\ bridgeLost' = FALSE
        /\ UNCHANGED <<numbered, panelOpen, toDaemon, inHand, hostLosses>>
    <3>1. promises' = PromisesKept(patch)
      BY <1>6 DEF PatchArrives
    <3>2. watched' = (IF WatchIsOver(patch) THEN Unwatched ELSE watched)
      BY <1>6 DEF PatchArrives, WatchIsOver
    <3>3. imagesDue' = IF patch.is = "image" THEN imagesDue \ {patch.id} ELSE imagesDue
      BY <1>6 DEF PatchArrives
    <3>4. rejoining' = FALSE /\ bridgeLost' = FALSE
          /\ UNCHANGED <<numbered, panelOpen, toDaemon, inHand, hostLosses>>
      BY <1>6 DEF PatchArrives
    <3>5. promises' = IF patch.is = "done" THEN promises \ {patch.id} ELSE promises
      BY <3>1 DEF PromisesKept
    <3> HIDE DEF patch
    <3> QED BY <3>2, <3>3, <3>4, <3>5
  <2> HIDE DEF patch
  <2>5. Unwatched \in [id : Nat, snapshot : BOOLEAN, timed : BOOLEAN] /\ Unwatched.id = 0 /\ ~Unwatched.timed
    BY DEF Unwatched
  <2>6. BridgeTyped'
    <3>1. watched' \in [id : Nat, snapshot : BOOLEAN, timed : BOOLEAN] /\ watched'.id \in 0 .. numbered
      BY <2>4, <2>5 DEF BridgeInv, BridgeTyped, MessengerTypeOK
    <3>2. promises' \cup imagesDue' \subseteq 1 .. numbered
      BY <2>4 DEF BridgeInv, BridgeTyped, MessengerTypeOK
    <3> QED BY <2>1, <2>2, <2>4, <3>1, <3>2 DEF BridgeInv, BridgeTyped, MessengerTypeOK
  <2>7. ASSUME hostLosses = 0 PROVE PromisesComeTrue'
    <3> SUFFICES ASSUME NEW id \in promises' PROVE IsAsked(id, {"say", "image"})' \/ PanelHears(Done(id))'
      BY DEF PromisesComeTrue, Done
    <3>1. id \in promises /\ Done(id) # patch
      BY <2>4 DEF Done
    <3>2. IsAsked(id, {"say", "image"}) => IsAsked(id, {"say", "image"})'
      BY <2>4 DEF IsAsked
    <3> QED BY <2>3, <2>7, <3>1, <3>2 DEF BridgeInv, PromisesComeTrue
  <2>8. ASSUME hostLosses = 0 PROVE ImagesCome'
    <3> SUFFICES ASSUME NEW id \in imagesDue' PROVE IsAsked(id, {"image"})' \/ PanelHears(Image(id))'
      BY DEF ImagesCome, Image
    <3>1. id \in imagesDue /\ Image(id) # patch
      BY <2>4 DEF Image
    <3>2. IsAsked(id, {"image"}) => IsAsked(id, {"image"})'
      BY <2>4 DEF IsAsked
    <3> QED BY <2>3, <2>8, <3>1, <3>2 DEF BridgeInv, ImagesCome
  <2>9. ASSUME hostLosses = 0, watched'.timed PROVE WatchedIsAnswered'
    <3>1. watched' = watched /\ watched.timed /\ ~(patch.is = "ack" /\ patch.id = watched.id)
      <4>1. watched' # Unwatched
        BY <2>5, <2>9
      <4>0. watched' = (IF WatchIsOver(patch) THEN Unwatched ELSE watched)
        BY <2>4
      <4>2. ~WatchIsOver(patch)
        BY <4>0, <4>1
      <4>3. watched' = watched
        BY <4>0, <4>2
      <4> QED BY <2>9, <4>2, <4>3 DEF WatchIsOver
    <3>2. Ack(watched.id) # patch
      BY <3>1 DEF Ack
    <3>3. PanelHears(Ack(watched.id)) => \E i \in 1 .. Len(toPanel') : toPanel'[i] = Ack(watched.id)
      BY <2>3, <3>2 DEF PanelHears
    <3> QED BY <2>4, <2>9, <3>1, <3>3 DEF BridgeInv, WatchedIsAnswered, PanelHears, Ack
  <2> QED BY <2>4, <2>6, <2>7, <2>8, <2>9 DEF BridgeInv, RejoiningEnds, WatchedIsAnswered, LostIsHeardAgain
<1>7. CASE PanelIsLeft
  <2>1. /\ panelOpen' = FALSE /\ watched' = Unwatched /\ imagesDue' = {}
        /\ UNCHANGED <<numbered, promises, bridgeLost, rejoining, toDaemon, inHand, toPanel, hostLosses>>
    BY <1>7 DEF PanelIsLeft, bridgeWay
  <2>2. Unwatched \in [id : Nat, snapshot : BOOLEAN, timed : BOOLEAN] /\ Unwatched.id = 0 /\ ~Unwatched.timed
    BY DEF Unwatched
  <2>3. BridgeTyped'
    <3>1. watched' = Unwatched
      BY <2>1
    <3>2. watched' \in [id : Nat, snapshot : BOOLEAN, timed : BOOLEAN] /\ watched'.id = 0
      BY <2>2, <3>1
    <3>3. numbered' \in 1 .. MaxIntents /\ promises' \cup imagesDue' \subseteq 1 .. numbered'
      BY <2>1 DEF BridgeInv, BridgeTyped, MessengerTypeOK
    <3>4. watched'.id \in 0 .. numbered'
      BY <3>2, <3>3
    <3>5. {bridgeLost, rejoining, panelOpen}' \subseteq BOOLEAN
      BY <2>1 DEF BridgeInv, BridgeTyped, MessengerTypeOK
    <3> QED BY <2>1, <3>2, <3>3, <3>4, <3>5 DEF BridgeInv, BridgeTyped, MessengerTypeOK
  <2>4. hostLosses = 0 => PromisesComeTrue' /\ ImagesCome' /\ LostIsHeardAgain'
    BY <2>1 DEF BridgeInv, PromisesComeTrue, ImagesCome, LostIsHeardAgain, IsAsked, PanelHears
  <2>5. WatchedIsAnswered' /\ RejoiningEnds'
    BY <2>1, <2>2 DEF WatchedIsAnswered, RejoiningEnds
  <2> QED BY <2>1, <2>3, <2>4, <2>5 DEF BridgeInv
<1>8. CASE DaemonTakes
  <2> DEFINE intent == Head(toDaemon)
  <2>1. /\ toDaemon # <<>> /\ toDaemon' = Tail(toDaemon) /\ inHand' = inHand \cup {intent}
        /\ toPanel' = IF intent.kind # "draft" THEN Append(toPanel, Ack(intent.id)) ELSE toPanel
        /\ UNCHANGED <<panelOwn, hostLosses>>
    BY <1>8 DEF DaemonTakes, IsAcknowledged
  <2>2. /\ Tail(toDaemon) \in Seq(PanelIntents) /\ intent \in PanelIntents
        /\ \A i \in 1 .. Len(toDaemon) :
             toDaemon[i] = intent \/ \E j \in 1 .. Len(Tail(toDaemon)) : Tail(toDaemon)[j] = toDaemon[i]
    BY <1>0, <2>1, TailKeeps
  <2> HIDE DEF intent
  <2>3. Ack(intent.id) \in PanelPatches
    BY <2>2 DEF Ack, PanelPatches, PanelIntents
  <2>4. /\ toPanel' \in Seq(PanelPatches)
        /\ \A p : PanelHears(p) => PanelHears(p)'
        /\ intent.kind # "draft" => toPanel' # <<>>
        /\ intent.kind # "draft" => \E i \in 1 .. Len(toPanel') : toPanel'[i] = Ack(intent.id)
        /\ toPanel # <<>> => toPanel' # <<>>
    <3>1. CASE intent.kind = "draft"
      BY <1>0, <2>1, <3>1 DEF PanelHears
    <3>2. CASE intent.kind # "draft"
      <4>1. toPanel' = Append(toPanel, Ack(intent.id))
        BY <2>1, <3>2
      <4> QED BY <1>0, <2>3, <4>1, AppendHas DEF PanelHears
    <3> QED BY <3>1, <3>2
  <2>5. \A id, kinds : IsAsked(id, kinds) => IsAsked(id, kinds)'
    BY <2>1, <2>2 DEF IsAsked
  <2>6. BridgeTyped'
    BY <2>1, <2>2, <2>4 DEF panelOwn, BridgeInv, BridgeTyped, MessengerTypeOK
  <2>7. ASSUME hostLosses = 0 PROVE PromisesComeTrue' /\ ImagesCome'
    <3>1. PromisesComeTrue'
      <4> SUFFICES ASSUME NEW id \in promises PROVE IsAsked(id, {"say", "image"})' \/ PanelHears(Done(id))'
        BY <2>1 DEF PromisesComeTrue, Done, panelOwn
      <4> QED BY <2>4, <2>5, <2>7 DEF BridgeInv, PromisesComeTrue
    <3>2. ImagesCome'
      <4> SUFFICES ASSUME NEW id \in imagesDue PROVE IsAsked(id, {"image"})' \/ PanelHears(Image(id))'
        BY <2>1 DEF ImagesCome, Image, panelOwn
      <4> QED BY <2>4, <2>5, <2>7 DEF BridgeInv, ImagesCome
    <3> QED BY <3>1, <3>2
  <2>8. ASSUME hostLosses = 0, watched.timed PROVE WatchedIsAnswered'
    <3>1. watched' = watched
      BY <2>1 DEF panelOwn
    <3>2. CASE \E i \in 1 .. Len(toDaemon) : toDaemon[i].id = watched.id /\ toDaemon[i].kind # "draft"
      <4>1. PICK i \in 1 .. Len(toDaemon) : toDaemon[i].id = watched.id /\ toDaemon[i].kind # "draft"
        BY <3>2
      <4>2. CASE toDaemon[i] = intent
        <5>1. \E k \in 1 .. Len(toPanel') : toPanel'[k] = Ack(watched.id)
          BY <2>4, <4>1, <4>2
        <5> QED BY <3>1, <5>1 DEF WatchedIsAnswered, PanelHears, Ack
      <4>3. CASE toDaemon[i] # intent
        BY <2>1, <2>2, <3>1, <4>1, <4>3 DEF WatchedIsAnswered
      <4> QED BY <4>2, <4>3
    <3>3. CASE PanelHears(Ack(watched.id))
      <4>1. \E k \in 1 .. Len(toPanel') : toPanel'[k] = Ack(watched.id)
        BY <2>4, <3>3 DEF PanelHears
      <4> QED BY <3>1, <4>1 DEF WatchedIsAnswered, PanelHears, Ack
    <3> QED BY <2>8, <3>2, <3>3 DEF BridgeInv, WatchedIsAnswered
  <2>9. ASSUME hostLosses = 0 PROVE LostIsHeardAgain'
    BY <2>1, <2>2, <2>4, <2>9 DEF BridgeInv, LostIsHeardAgain, panelOwn
  <2> QED BY <2>1, <2>6, <2>7, <2>8, <2>9 DEF BridgeInv, RejoiningEnds, WatchedIsAnswered, panelOwn
<1>9. ASSUME NEW intent \in inHand, DaemonSettles(intent) PROVE BridgeInv'
  <2> DEFINE s1 == IF BringsState(intent.kind) THEN <<State>> ELSE <<>>
             s2 == IF intent.kind = "image" THEN <<Image(intent.id)>> ELSE <<>>
             s3 == IF IsPromised(intent.kind) THEN <<Done(intent.id)>> ELSE <<>>
  <2>1. /\ inHand' = inHand \ {intent} /\ toPanel' = toPanel \o s1 \o s2 \o s3
        /\ UNCHANGED <<panelOwn, toDaemon, hostLosses>>
    BY <1>9 DEF DaemonSettles
  <2>2. intent.id \in Nat /\ intent \in PanelIntents
    BY <1>0 DEF PanelIntents
  <2>3. State \in PanelPatches /\ Image(intent.id) \in PanelPatches /\ Done(intent.id) \in PanelPatches
    BY <2>2 DEF State, Image, Done, PanelPatches
  <2>4. s1 \in Seq(PanelPatches) /\ s2 \in Seq(PanelPatches) /\ s3 \in Seq(PanelPatches)
    <3>1. \A p \in PanelPatches : <<p>> \in Seq(PanelPatches)
      OBVIOUS
    <3> QED BY <2>3, <3>1, EmptySeq
  <2>5. /\ intent.kind = "image" => Len(s2) = 1 /\ s2[1] = Image(intent.id)
        /\ intent.kind \in {"say", "image"} => Len(s3) = 1 /\ s3[1] = Done(intent.id)
    BY DEF IsPromised
  <2> HIDE DEF s1, s2, s3
  <2> DEFINE q1 == toPanel \o s1
             q2 == q1 \o s2
             q3 == q2 \o s3
  <2>a. Lengthens(PanelPatches, toPanel, s1, q1)
    BY <1>0, <2>4, ConcatLengthens
  <2>6. /\ q1 \in Seq(PanelPatches) /\ (toPanel # <<>> => q1 # <<>>)
        /\ \A i \in 1 .. Len(toPanel) : i \in 1 .. Len(q1) /\ q1[i] = toPanel[i]
    <3> HIDE DEF q1
    <3> QED BY <2>a DEF Lengthens
  <2>7. toPanel' = q3
    BY <2>1
  <2> HIDE DEF q1
  <2>b. Lengthens(PanelPatches, q1, s2, q2)
    BY <2>4, <2>6, ConcatLengthens
  <2> HIDE DEF q2
  <2>8. /\ q2 \in Seq(PanelPatches) /\ (q1 # <<>> => q2 # <<>>)
        /\ \A i \in 1 .. Len(q1) : i \in 1 .. Len(q2) /\ q2[i] = q1[i]
        /\ \A i \in 1 .. Len(s2) : \E j \in 1 .. Len(q2) : q2[j] = s2[i]
    BY <2>b DEF Lengthens
  <2>c. Lengthens(PanelPatches, q2, s3, q3)
    BY <2>4, <2>8, ConcatLengthens
  <2> HIDE DEF q3
  <2>9. /\ q3 \in Seq(PanelPatches) /\ (q2 # <<>> => q3 # <<>>)
        /\ \A i \in 1 .. Len(q2) : i \in 1 .. Len(q3) /\ q3[i] = q2[i]
        /\ \A i \in 1 .. Len(s3) : \E j \in 1 .. Len(q3) : q3[j] = s3[i]
    BY <2>c DEF Lengthens
  <2>10. \A p : PanelHears(p) => PanelHears(p)'
    <3> SUFFICES ASSUME NEW i \in 1 .. Len(toPanel) PROVE \E j \in 1 .. Len(toPanel') : toPanel'[j] = toPanel[i]
      BY DEF PanelHears
    <3>1. i \in 1 .. Len(q1) /\ q1[i] = toPanel[i]
      BY <2>6
    <3>2. i \in 1 .. Len(q2) /\ q2[i] = toPanel[i]
      BY <2>8, <3>1
    <3>3. i \in 1 .. Len(q3) /\ q3[i] = toPanel[i]
      BY <2>9, <3>2
    <3> QED BY <2>7, <3>3
  <2>11. ASSUME intent.kind = "image" PROVE \E j \in 1 .. Len(toPanel') : toPanel'[j] = Image(intent.id)
    <3>1. PICK j \in 1 .. Len(q2) : q2[j] = Image(intent.id)
      <4>0. Len(s2) = 1 /\ s2[1] = Image(intent.id)
        BY <2>5, <2>11
      <4>1. 1 \in 1 .. Len(s2) /\ s2[1] = Image(intent.id)
        BY <4>0
      <4> QED BY <2>8, <4>1
    <3>2. j \in 1 .. Len(q3) /\ q3[j] = Image(intent.id)
      BY <2>9, <3>1
    <3> QED BY <2>7, <3>2
  <2>12. ASSUME intent.kind \in {"say", "image"} PROVE \E j \in 1 .. Len(toPanel') : toPanel'[j] = Done(intent.id)
    <3>1. 1 \in 1 .. Len(s3) /\ s3[1] = Done(intent.id)
      BY <2>5, <2>12
    <3> QED BY <2>7, <2>9, <3>1
  <2>13. BridgeTyped'
    BY <2>1, <2>7, <2>9 DEF panelOwn, BridgeInv, BridgeTyped, MessengerTypeOK
  <2>14. ASSUME hostLosses = 0 PROVE PromisesComeTrue'
    <3> SUFFICES ASSUME NEW id \in promises PROVE IsAsked(id, {"say", "image"})' \/ PanelHears(Done(id))'
      BY <2>1 DEF PromisesComeTrue, Done, panelOwn
    <3>1. IsAsked(id, {"say", "image"}) \/ PanelHears(Done(id))
      BY <2>14 DEF BridgeInv, PromisesComeTrue
    <3>2. CASE intent.id = id /\ intent.kind \in {"say", "image"}
      BY <2>12, <3>2 DEF PanelHears, Done
    <3>3. CASE ~(intent.id = id /\ intent.kind \in {"say", "image"})
      <4>1. IsAsked(id, {"say", "image"}) => IsAsked(id, {"say", "image"})'
        BY <2>1, <3>3 DEF IsAsked
      <4> QED BY <2>10, <3>1, <4>1
    <3> QED BY <3>2, <3>3
  <2>15. ASSUME hostLosses = 0 PROVE ImagesCome'
    <3> SUFFICES ASSUME NEW id \in imagesDue PROVE IsAsked(id, {"image"})' \/ PanelHears(Image(id))'
      BY <2>1 DEF ImagesCome, Image, panelOwn
    <3>1. IsAsked(id, {"image"}) \/ PanelHears(Image(id))
      BY <2>15 DEF BridgeInv, ImagesCome
    <3>2. CASE intent.id = id /\ intent.kind = "image"
      BY <2>11, <3>2 DEF PanelHears, Image
    <3>3. CASE ~(intent.id = id /\ intent.kind = "image")
      <4>1. IsAsked(id, {"image"}) => IsAsked(id, {"image"})'
        BY <2>1, <3>3 DEF IsAsked
      <4> QED BY <2>10, <3>1, <4>1
    <3> QED BY <3>2, <3>3
  <2>16. ASSUME hostLosses = 0 PROVE WatchedIsAnswered' /\ LostIsHeardAgain'
    <3>1. watched' = watched /\ toDaemon' = toDaemon /\ bridgeLost' = bridgeLost
      BY <2>1 DEF panelOwn
    <3>2. \A p : p = Ack(watched.id) => (PanelHears(p) => PanelHears(p)')
      BY <2>10
    <3>3. PanelHears(Ack(watched.id)) => \E j \in 1 .. Len(toPanel') : toPanel'[j] = Ack(watched.id)
      BY <3>2 DEF PanelHears
    <3>4. WatchedIsAnswered'
      BY <2>16, <3>1, <3>3 DEF BridgeInv, WatchedIsAnswered, PanelHears, Ack
    <3>5. LostIsHeardAgain'
      BY <2>6, <2>7, <2>8, <2>9, <2>16, <3>1 DEF BridgeInv, LostIsHeardAgain
    <3> QED BY <3>4, <3>5
  <2> QED BY <2>1, <2>13, <2>14, <2>15, <2>16 DEF BridgeInv, RejoiningEnds, panelOwn
<1>10. CASE HostIsReplaced
  <2>1. /\ hostLosses' = hostLosses + 1 /\ toDaemon' = <<>> /\ inHand' = {} /\ toPanel' = <<State>>
        /\ UNCHANGED panelOwn
    BY <1>10 DEF HostIsReplaced
  <2>2. <<State>> \in Seq(PanelPatches) /\ <<>> \in Seq(PanelIntents)
    BY EmptySeq DEF State, PanelPatches
  <2>3. hostLosses' \in Nat /\ hostLosses' # 0
    BY <1>0, <2>1
  <2>4. toDaemon' \in Seq(PanelIntents) /\ toPanel' \in Seq(PanelPatches) /\ inHand' \subseteq PanelIntents
    BY <2>1, <2>2
  <2>5. UNCHANGED <<numbered, watched, promises, imagesDue, bridgeLost, rejoining, panelOpen>>
    BY <2>1 DEF panelOwn
  <2> QED BY <2>3, <2>4, <2>5 DEF BridgeInv, BridgeTyped, MessengerTypeOK, RejoiningEnds
<1> QED BY <1>1, <1>2, <1>3, <1>4, <1>5, <1>6, <1>7, <1>8, <1>9, <1>10 DEF MessengerNext

LEMMA BridgeInvHolds == BridgeInv => BridgeSettles
<1> SUFFICES ASSUME BridgeInv PROVE BridgeSettles
  OBVIOUS
<1>1. ASSUME BridgeIsQuiet, hostLosses = 0 PROVE promises = {} /\ imagesDue = {} /\ ~bridgeLost
  <2>1. Len(toDaemon) = 0 /\ Len(toPanel) = 0 /\ inHand = {} /\ toPanel = <<>>
    BY <1>1, EmptySeq DEF BridgeIsQuiet
  <2>2. \A id, kinds : ~IsAsked(id, kinds)
    BY <2>1 DEF IsAsked
  <2>3. \A p : ~PanelHears(p)
    BY <2>1 DEF PanelHears
  <2>4. ~bridgeLost
    BY <1>1, <2>1 DEF BridgeInv, LostIsHeardAgain
  <2> QED BY <1>1, <2>2, <2>3, <2>4 DEF BridgeInv, PromisesComeTrue, ImagesCome
<1> QED BY <1>1 DEF BridgeSettles, PanelSettles, BridgeInv

\* While the daemon stays up, every promise, image and notice of a lost bridge is settled once
\* nothing is under way, and a reconnection that is shown ends whatever becomes of the daemon,
\* for any number of intents (messenger.tsx watchBridge, onPatch).
THEOREM BridgesSettle == MessengerSpec => []BridgeSettles
<1>1. MessengerInit => BridgeInv
  BY BridgeInitInv
<1>2. BridgeInv /\ [MessengerNext]_messengerVars => BridgeInv'
  BY BridgeStepInv
<1> QED BY <1>1, <1>2, BridgeInvHolds, PTL DEF MessengerSpec

-----------------------------------------------------------------------------
(***************************************************************************)
(* Side by side                                                            *)
(***************************************************************************)

\* The invariant of the messenger's two ends in the sum: the one of the part that moves.
EndsInv ==
  /\ part = "phone" => PhoneInv
  /\ part = "messenger" => BridgeInv

LEMMA EndsStepInv ==
  ASSUME EndsInv,
         [AgentsNext]_<<part, schedulerVars, registryVars, wfVars, loopVars, gateVars,
                        subagentVars, phoneVars, messengerVars, telemetryVars, devVars,
                        bundleVars, startupVars, skillVars>>
  PROVE  EndsInv'
<1>0. \/ Schedules \/ Registers \/ Drives \/ Loops \/ Gates \/ Delegates \/ Phones \/ Bridges
      \/ Reports \/ Relays \/ Syncs \/ Starts \/ Learns
      \/ UNCHANGED <<part, phoneVars, messengerVars>>
  BY DEF AgentsNext
<1>1. part' = part
  BY <1>0 DEF Schedules, Registers, Drives, Loops, Gates, Delegates, Phones, Bridges, Reports,
              Relays, Syncs, Starts, Learns, OthersRest
<1>2. ASSUME part = "phone" PROVE PhoneInv'
  <2>1. [PhoneNext]_phoneVars
    BY <1>0, <1>2 DEF Schedules, Registers, Drives, Loops, Gates, Delegates, Phones, Bridges,
                      Reports, Relays, Syncs, Starts, Learns
  <2> QED BY <1>2, <2>1, PhoneStepInv DEF EndsInv
<1>3. ASSUME part = "messenger" PROVE BridgeInv'
  <2>1. [MessengerNext]_messengerVars
    BY <1>0, <1>3 DEF Schedules, Registers, Drives, Loops, Gates, Delegates, Phones, Bridges,
                      Reports, Relays, Syncs, Starts, Learns
  <2> QED BY <1>3, <2>1, BridgeStepInv DEF EndsInv
<1> QED BY <1>1, <1>2, <1>3 DEF EndsInv

\* For every instance: both ends of the messenger follow the daemon - a phone that nothing is on
\* its way to shows the state of the daemon, and a promise of the panel ends, however pushes,
\* connections and hosts are lost (mobile.ts, messenger.tsx).
THEOREM EndsFollow == AgentsSpec => []MessengerFollows
<1>1. AgentsInit => EndsInv
  BY PhoneInitInv, BridgeInitInv DEF AgentsInit, EndsInv
<1>2. EndsInv /\ [AgentsNext]_<<part, schedulerVars, registryVars, wfVars, loopVars, gateVars,
                               subagentVars, phoneVars, messengerVars, telemetryVars, devVars,
                               bundleVars, startupVars, skillVars>> => EndsInv'
  BY EndsStepInv
<1>3. EndsInv => MessengerFollows
  BY PhoneInvHolds, BridgeInvHolds DEF EndsInv, MessengerFollows
<1> QED BY <1>1, <1>2, <1>3, PTL DEF AgentsSpec

-----------------------------------------------------------------------------
(***************************************************************************)
(* The scheduler: its types and the prompts of its tasks                   *)
(***************************************************************************)

\* A conversation has one prompt, and is that of the task's prompt, or will begin afresh.
ToItsPrompt(entry) ==
  /\ \E prompt \in Prompts : entry.chain \subseteq {prompt}
  /\ entry.reset \/ entry.chain \subseteq {entry.prompt}

TasksOnPrompt == {entry \in ScheduledTask : ToItsPrompt(entry)}

\* Such tasks under identifiers that may be handed out.
TasksTyped(tasks) ==
  /\ DOMAIN tasks \subseteq ScheduleIds
  /\ \A t \in DOMAIN tasks : tasks[t] \in TasksOnPrompt

\* The tasks a record is put, dropped or changed in, and what the file says of them.
LEMMA TasksStayTyped ==
  ASSUME NEW tasks, TasksTyped(tasks)
  PROVE  /\ \A t \in ScheduleIds : \A entry \in TasksOnPrompt : TasksTyped(Put(tasks, t, entry))
         /\ \A t : TasksTyped(Drop(tasks, t))
         /\ \A t : \A entry \in TasksOnPrompt : TasksTyped([tasks EXCEPT ![t] = entry])
         /\ TasksTyped(Stored(tasks))
<1>1. ASSUME NEW t \in ScheduleIds, NEW entry \in TasksOnPrompt PROVE TasksTyped(Put(tasks, t, entry))
  BY DEF TasksTyped, Put
<1>2. ASSUME NEW t PROVE TasksTyped(Drop(tasks, t))
  BY DEF TasksTyped, Drop
<1>3. ASSUME NEW t, NEW entry \in TasksOnPrompt PROVE TasksTyped([tasks EXCEPT ![t] = entry])
  BY DEF TasksTyped
<1>4. TasksTyped(Stored(tasks))
  <2>1. ASSUME NEW entry \in TasksOnPrompt
        PROVE  [entry EXCEPT !.due = FALSE, !.expired = FALSE,
                            !.child = IF @ = "none" THEN "none" ELSE "failed"] \in TasksOnPrompt
    BY DEF TasksOnPrompt, ToItsPrompt, ScheduledTask, Children
  <2> QED BY <2>1 DEF TasksTyped, Stored
<1> QED BY <1>1, <1>2, <1>3, <1>4

\* The scheduler's bounds are numbers.
LEMMA SchedulerNumbers ==
  MaxWriteFaults \in Nat /\ MaxRestarts \in Nat /\ FreshEvery \in Nat /\ FreshEvery # 0
BY SchedulerAssumption

\* The records a task goes through.
LEMMA NewTaskTyped ==
  ASSUME NEW prompt \in Prompts, NEW flag \in BOOLEAN
  PROVE  NewTask(prompt, flag) \in TasksOnPrompt
<1> USE SchedulerNumbers DEF ScheduledTask, Children
<1>1. NewTask(prompt, flag) \in ScheduledTask
  BY DEF NewTask
<1>2. NewTask(prompt, flag).chain = {}
  BY DEF NewTask
<1> QED BY <1>1, <1>2 DEF TasksOnPrompt, ToItsPrompt

\* The fields of a task that is scheduled.
LEMMA TaskRecords ==
  ASSUME NEW entry \in TasksOnPrompt
  PROVE  /\ [entry EXCEPT !.due = TRUE] \in TasksOnPrompt
         /\ [entry EXCEPT !.due = FALSE] \in TasksOnPrompt
         /\ [entry EXCEPT !.expired = TRUE] \in TasksOnPrompt
         /\ \A end \in {"completed", "failed"} : [entry EXCEPT !.child = end] \in TasksOnPrompt
         /\ \A prompt \in Prompts, flag \in BOOLEAN : UpdatedTask(entry, prompt, flag) \in TasksOnPrompt
         /\ Spawned(entry) \in TasksOnPrompt
<1> USE SchedulerNumbers DEF ScheduledTask, Children
<1>0. entry \in ScheduledTask /\ ToItsPrompt(entry)
  BY DEF TasksOnPrompt
<1>a. ASSUME NEW new \in ScheduledTask, new.chain = entry.chain, new.prompt = entry.prompt, new.reset = entry.reset
      PROVE  new \in TasksOnPrompt
  BY <1>0, <1>a DEF TasksOnPrompt, ToItsPrompt
<1>1. /\ [entry EXCEPT !.due = TRUE] \in TasksOnPrompt
      /\ [entry EXCEPT !.due = FALSE] \in TasksOnPrompt
      /\ [entry EXCEPT !.expired = TRUE] \in TasksOnPrompt
  BY <1>0, <1>a
<1>2. ASSUME NEW end \in {"completed", "failed"} PROVE [entry EXCEPT !.child = end] \in TasksOnPrompt
  BY <1>0, <1>a
<1>3. ASSUME NEW prompt \in Prompts, NEW flag \in BOOLEAN
      PROVE  UpdatedTask(entry, prompt, flag) \in TasksOnPrompt
  <2>1. (entry.reset \/ prompt # entry.prompt) \in BOOLEAN /\ (entry.due /\ ~flag) \in BOOLEAN
    BY <1>0
  <2>2. (IF prompt # entry.prompt THEN 0 ELSE entry.fresh) \in 0 .. FreshEvery
    BY <1>0
  <2>3. /\ UpdatedTask(entry, prompt, flag) \in ScheduledTask
        /\ UpdatedTask(entry, prompt, flag).chain = entry.chain
        /\ UpdatedTask(entry, prompt, flag).prompt = prompt
        /\ UpdatedTask(entry, prompt, flag).reset = (entry.reset \/ prompt # entry.prompt)
    BY <1>0, <2>1, <2>2 DEF UpdatedTask
  <2> QED BY <1>0, <2>3 DEF TasksOnPrompt, ToItsPrompt
<1>4. Spawned(entry) \in TasksOnPrompt
  <2>1. CASE Restarts(entry)
    <3>1. 1 \in 0 .. FreshEvery /\ {entry.prompt} \in SUBSET Prompts
      BY <1>0
    <3>2. Spawned(entry) \in ScheduledTask /\ Spawned(entry).chain = {entry.prompt}
          /\ Spawned(entry).prompt = entry.prompt
      BY <1>0, <2>1, <3>1 DEF Spawned
    <3> QED BY <1>0, <3>2 DEF TasksOnPrompt, ToItsPrompt
  <2>2. CASE ~Restarts(entry)
    <3>1. entry.fresh + 1 \in 0 .. FreshEvery /\ entry.chain \subseteq {entry.prompt}
      BY <1>0, <2>2 DEF Restarts, ToItsPrompt
    <3>2. entry.chain \cup {entry.prompt} = {entry.prompt} /\ {entry.prompt} \in SUBSET Prompts
      BY <1>0, <3>1
    <3>3. Spawned(entry) \in ScheduledTask /\ Spawned(entry).chain = {entry.prompt}
          /\ Spawned(entry).prompt = entry.prompt
      BY <1>0, <2>2, <3>1, <3>2 DEF Spawned
    <3> QED BY <1>0, <3>3 DEF TasksOnPrompt, ToItsPrompt
  <2> QED BY <2>1, <2>2
<1> QED BY <1>1, <1>2, <1>3, <1>4

\* The types but those of the tasks.
RestTyped ==
  /\ schedTimer \in BOOLEAN /\ schedLoop \in {"off", "turn", "await"}
  /\ blocked \subseteq ScheduleIds
  /\ attempt \in {"none", "started", "barrier"} /\ sharing \in BOOLEAN
  /\ reported \subseteq usedIds
  /\ writeFaults \in 0 .. MaxWriteFaults /\ restarts \in 0 .. MaxRestarts

\* The inductive invariant: the types need that the identifiers of what there is were used.
SchedulerInv == RemovalInv /\ TasksTyped(schedTasks) /\ TasksTyped(schedFile) /\ RestTyped

\* The invariant of the scheduler has its types.
LEMMA SchedulerInvTyped == SchedulerInv => SchedulerTypeOK
BY DEF SchedulerInv, RemovalInv, KnownIds, TasksTyped, TasksOnPrompt, RestTyped, SchedulerTypeOK

\* A set with at most one member.
LEMMA SchedulerInvOnPrompt == SchedulerInv => LoopKeepsToItsPrompt
<1> SUFFICES ASSUME SchedulerInv, NEW t \in DOMAIN schedTasks PROVE Cardinality(schedTasks[t].chain) <= 1
  BY DEF LoopKeepsToItsPrompt
<1>1. PICK prompt \in Prompts : schedTasks[t].chain \subseteq {prompt}
  BY DEF SchedulerInv, TasksTyped, TasksOnPrompt, ToItsPrompt
<1>2. schedTasks[t].chain \in {{}, {prompt}}
  BY <1>1
<1>3. Cardinality({}) = 0 /\ Cardinality({prompt}) = 1
  BY FS_EmptySet, FS_Singleton
<1> QED BY <1>2, <1>3

\* The scheduler begins in it.
LEMMA SchedulerInitInv == SchedulerInit => SchedulerInv
<1> SUFFICES ASSUME SchedulerInit PROVE SchedulerInv
  OBVIOUS
<1>1. RemovalInv
  BY SchedulerAssumption DEF SchedulerInit, NoTasks, RemovalInv, KnownIds, RemovedIsOut, RemovalIsFinal
<1>2. RestTyped
  <2>1. /\ schedTimer = FALSE /\ schedLoop = "off" /\ blocked = {} /\ attempt = "none" /\ sharing = FALSE
        /\ reported = {} /\ writeFaults = 0 /\ restarts = 0
    BY DEF SchedulerInit
  <2>2. 0 \in 0 .. MaxWriteFaults /\ 0 \in 0 .. MaxRestarts
    BY SchedulerNumbers
  <2> QED BY <2>1, <2>2 DEF RestTyped
<1> QED BY <1>1, <1>2 DEF SchedulerInit, SchedulerInv, TasksTyped, NoTasks

\* What a write does to the file and to what there is of faults.
LEMMA WritesTyped ==
  ASSUME TasksTyped(schedTasks'), TasksTyped(schedFile), Persisted \/ PersistFails,
         writeFaults \in 0 .. MaxWriteFaults
  PROVE  TasksTyped(schedFile') /\ writeFaults' \in 0 .. MaxWriteFaults
<1>1. CASE Persisted
  BY <1>1, TasksStayTyped DEF Persisted
<1>2. CASE PersistFails
  BY <1>2, SchedulerAssumption DEF PersistFails
<1> QED BY <1>1, <1>2

\* The timer is a flag, whether or not the loop ends.
LEMMA ArmIsFlag == (Arm => schedTimer' \in BOOLEAN) /\ (LoopEnds => schedTimer' \in BOOLEAN /\ schedLoop' = "off")
BY DEF Arm, LoopEnds

\* Every step of the scheduler keeps it.
LEMMA SchedulerStep ==
  ASSUME SchedulerInv, SchedulerNext
  PROVE  TasksTyped(schedTasks') /\ TasksTyped(schedFile') /\ RestTyped'
<1>0. TasksTyped(schedTasks) /\ TasksTyped(schedFile) /\ RestTyped /\ DOMAIN schedFile \subseteq usedIds
  BY DEF SchedulerInv, RemovalInv, KnownIds
<1>a. \A t \in DOMAIN schedTasks : t \in ScheduleIds /\ schedTasks[t] \in TasksOnPrompt
  BY <1>0 DEF TasksTyped
<1>1. ASSUME NEW t \in ScheduleIds, Elapse(t) \/ ChildEnds(t)
      PROVE  TasksTyped(schedTasks') /\ TasksTyped(schedFile') /\ RestTyped'
  <2>1. PICK entry \in TasksOnPrompt : schedTasks' = [schedTasks EXCEPT ![t] = entry]
    BY <1>a, <1>1, TaskRecords DEF Elapse, ChildEnds
  <2>2. TasksTyped(schedTasks')
    BY <1>0, <2>1, TasksStayTyped
  <2> QED BY <1>0, <1>1, <2>2 DEF Elapse, ChildEnds, RestTyped
<1>2. ASSUME NEW t \in ScheduleIds, Create(t)
      PROVE  TasksTyped(schedTasks') /\ TasksTyped(schedFile') /\ RestTyped'
  <2>1. PICK prompt \in Prompts, flag \in BOOLEAN :
          \/ schedTasks' = Put(schedTasks, t, NewTask(prompt, flag))
          \/ /\ t \in DOMAIN schedTasks
             /\ schedTasks' = [schedTasks EXCEPT ![t] = UpdatedTask(schedTasks[t], prompt, flag)]
    BY <1>2 DEF Create
  <2>2. TasksTyped(schedTasks')
    <3>1. CASE schedTasks' = Put(schedTasks, t, NewTask(prompt, flag))
      <4>1. NewTask(prompt, flag) \in TasksOnPrompt
        BY NewTaskTyped
      <4> QED BY <1>0, <3>1, <4>1, TasksStayTyped
    <3>2. CASE /\ t \in DOMAIN schedTasks
               /\ schedTasks' = [schedTasks EXCEPT ![t] = UpdatedTask(schedTasks[t], prompt, flag)]
      <4>1. UpdatedTask(schedTasks[t], prompt, flag) \in TasksOnPrompt
        BY <1>a, <3>2, TaskRecords
      <4> QED BY <1>0, <3>2, <4>1, TasksStayTyped
    <3> QED BY <2>1, <3>1, <3>2
  <2>3. TasksTyped(schedFile') /\ writeFaults' \in 0 .. MaxWriteFaults
    BY <1>0, <1>2, <2>2, WritesTyped DEF Create, RestTyped
  <2> QED BY <1>0, <1>2, <2>2, <2>3, ArmIsFlag DEF Create, RestTyped
<1>3. ASSUME NEW t \in ScheduleIds, Delete(t)
      PROVE  TasksTyped(schedTasks') /\ TasksTyped(schedFile') /\ RestTyped'
  <2>1. TasksTyped(schedTasks')
    BY <1>0, <1>3, TasksStayTyped DEF Delete
  <2> QED BY <1>0, <1>3, <2>1 DEF Delete, RestTyped
<1>4. ASSUME NEW t \in ScheduleIds, DeleteAgain(t)
      PROVE  TasksTyped(schedTasks') /\ TasksTyped(schedFile') /\ RestTyped'
  BY <1>0, <1>4 DEF DeleteAgain, RestTyped
<1>5. CASE PerformRemoval
  <2>1. TasksTyped(schedFile') /\ writeFaults' \in 0 .. MaxWriteFaults
    BY <1>0, <1>5, WritesTyped DEF PerformRemoval, RestTyped
  <2> QED BY <1>0, <1>5, <2>1 DEF PerformRemoval, RestTyped
<1>6. CASE RemovalAccepted \/ RemovalRefused
  BY <1>0, <1>6, ArmIsFlag DEF RemovalAccepted, RemovalRefused, RestTyped
<1>7. CASE TimerFires
  BY <1>0, <1>7 DEF TimerFires, RestTyped
<1>8. CASE LoopTurn
  <2>1. ASSUME NEW t \in ScheduleIds, Fire(t)
        PROVE  TasksTyped(schedTasks') /\ TasksTyped(schedFile') /\ RestTyped'
    <3>1. PICK entry \in TasksOnPrompt : schedTasks' = [schedTasks EXCEPT ![t] = entry]
      BY <1>a, <2>1, TaskRecords DEF Fire, OwedTasks
    <3>2. TasksTyped(schedTasks')
      BY <1>0, <3>1, TasksStayTyped
    <3>3. TasksTyped(schedFile') /\ writeFaults' \in 0 .. MaxWriteFaults
      BY <1>0, <2>1, <3>2, WritesTyped DEF Fire, RestTyped
    <3>4. schedTimer' \in BOOLEAN /\ schedLoop' \in {"off", "turn", "await"}
      BY <1>0, <2>1, ArmIsFlag DEF Fire, RestTyped
    <3> QED BY <1>0, <1>8, <2>1, <3>2, <3>3, <3>4 DEF Fire, LoopTurn, RestTyped
  <2>2. ASSUME NEW t \in ScheduleIds, Expire(t)
        PROVE  TasksTyped(schedTasks') /\ TasksTyped(schedFile') /\ RestTyped'
    <3>1. TasksTyped(schedTasks')
      BY <1>0, <2>2, TasksStayTyped DEF Expire
    <3>2. TasksTyped(schedFile') /\ writeFaults' \in 0 .. MaxWriteFaults
      BY <1>0, <2>2, <3>1, WritesTyped DEF Expire, RestTyped
    <3>3. blocked' \subseteq ScheduleIds
      BY <1>0, <2>2 DEF Expire, RestTyped
    <3> QED BY <1>0, <1>8, <2>2, <3>1, <3>2, <3>3 DEF Expire, LoopTurn, RestTyped
  <2>3. ASSUME UNCHANGED <<schedTasks, schedFile, expiring, blocked, gone, writeFaults>>, LoopEnds
        PROVE  TasksTyped(schedTasks') /\ TasksTyped(schedFile') /\ RestTyped'
    BY <1>0, <1>8, <2>3, ArmIsFlag DEF LoopTurn, RestTyped
  <2> QED BY <1>8, <2>1, <2>2, <2>3 DEF LoopTurn
<1>9. CASE LoopResumes
  BY <1>0, <1>9 DEF LoopResumes, RestTyped
<1>10. CASE SchedulerRestarts
  <2>1. /\ schedTasks' = schedFile /\ schedFile' = schedFile /\ usedIds' = usedIds /\ blocked' = {}
        /\ schedLoop' = "off" /\ attempt' = "none" /\ sharing' = FALSE /\ writeFaults' = writeFaults
        /\ reported' = reported \cup DOMAIN schedFile /\ restarts < MaxRestarts /\ restarts' = restarts + 1
    BY <1>10 DEF SchedulerRestarts
  <2>2. schedTimer' \in BOOLEAN
    BY <1>10, ArmIsFlag DEF SchedulerRestarts
  <2>3. restarts' \in 0 .. MaxRestarts
    BY <1>0, <2>1, SchedulerNumbers DEF RestTyped
  <2> QED BY <1>0, <2>1, <2>2, <2>3 DEF RestTyped
<1> QED BY <1>1, <1>2, <1>3, <1>4, <1>5, <1>6, <1>7, <1>8, <1>9, <1>10 DEF SchedulerNext

\* So does every step or stutter.
LEMMA SchedulerStepInv == SchedulerInv /\ [SchedulerNext]_schedulerVars => SchedulerInv'
<1>1. ASSUME SchedulerInv, UNCHANGED schedulerVars PROVE SchedulerInv'
  BY <1>1 DEF schedulerVars, SchedulerInv, RemovalInv, KnownIds, RemovedIsOut, RemovalIsFinal,
     TasksTyped, RestTyped
<1>2. ASSUME SchedulerInv, SchedulerNext PROVE SchedulerInv'
  BY <1>2, RemovalStep, SchedulerStep DEF SchedulerInv
<1> QED BY <1>1, <1>2

\* A scheduled task goes on only in a conversation that began with its own prompt, whatever is
\* edited, written in vain or restarted meanwhile, for any tasks and prompts (fireDue, create in
\* grok-build-scheduler.ts).
THEOREM LoopsKeepToTheirPrompt == SchedulerSpec => []LoopKeepsToItsPrompt
<1>1. SchedulerSpec => []SchedulerInv
  BY SchedulerInitInv, SchedulerStepInv, PTL DEF SchedulerSpec
<1> QED BY <1>1, SchedulerInvOnPrompt, PTL

-----------------------------------------------------------------------------
(***************************************************************************)
(* The registry of tasks: its types, its queue and its reminders           *)
(***************************************************************************)

\* What was cut out of a queue without repetitions is gone, and nothing else is.
LEMMA FirstIsRemoved ==
  ASSUME NEW T, NEW q \in Seq(T), IsInjective(q), NEW e
  PROVE  /\ RemoveFirst(q, e) \in Seq(T) /\ IsInjective(RemoveFirst(q, e))
         /\ ToSet(RemoveFirst(q, e)) = ToSet(q) \ {e}
<1>0. Len(q) \in Nat /\ DOMAIN q = 1 .. Len(q) /\ \A i \in 1 .. Len(q) : q[i] \in T
  BY LenProperties, ElementOfSeq
<1>1. CASE ~\E i \in 1 .. Len(q) : q[i] = e
  <2>1. RemoveFirst(q, e) = q
    BY <1>1 DEF RemoveFirst
  <2> QED BY <1>0, <1>1, <2>1 DEF ToSet
<1>2. CASE \E i \in 1 .. Len(q) : q[i] = e
  <2> DEFINE I == {i \in 1 .. Len(q) : q[i] = e}
  <2>1. PICK k \in I : \A j \in I : k <= j
    <3>1. I \subseteq Nat /\ I # {}
      BY <1>0, <1>2
    <3> HIDE DEF I
    <3> QED BY <3>1, LeastNumber
  <2>2. SelectInSeq(q, LAMBDA v : v = e) = k
    BY <1>0, <2>1 DEF SelectInSeq, Min
  <2>3. k \in 1 .. Len(q) /\ q[k] = e
    BY <2>1
  <2> DEFINE r == RemoveFirst(q, e)
             before == SubSeq(q, 1, k - 1)
             after == SubSeq(q, k + 1, Len(q))
  <2>4. r = before \o after
    BY <1>2, <2>2 DEF RemoveFirst, RemoveAt
  <2>5. /\ before \in Seq(T) /\ Len(before) = k - 1 /\ \A i \in 1 .. k - 1 : before[i] = q[i]
        /\ after \in Seq(T) /\ Len(after) = Len(q) - k /\ \A i \in 1 .. Len(q) - k : after[i] = q[k + i]
    <3>1. 1 \in 1 .. Len(q) + 1 /\ k - 1 \in 1 - 1 .. Len(q) /\ k + 1 \in 1 .. Len(q) + 1
          /\ Len(q) \in (k + 1) - 1 .. Len(q)
      BY <1>0, <2>3
    <3>2. /\ before \in Seq(T) /\ Len(before) = IF 1 <= k - 1 THEN (k - 1) - 1 + 1 ELSE 0
          /\ \A i \in 1 .. (k - 1) - 1 + 1 : before[i] = q[1 + i - 1]
      BY <3>1, SubSeqProperties
    <3>3. /\ after \in Seq(T) /\ Len(after) = IF k + 1 <= Len(q) THEN Len(q) - (k + 1) + 1 ELSE 0
          /\ \A i \in 1 .. Len(q) - (k + 1) + 1 : after[i] = q[(k + 1) + i - 1]
      BY <3>1, SubSeqProperties
    <3> HIDE DEF before, after
    <3>4. Len(before) = k - 1 /\ Len(after) = Len(q) - k
      <4>1. k \in Nat /\ k >= 1 /\ k <= Len(q)
        BY <1>0, <2>3
      <4>2. Len(before) = k - 1
        BY <3>2, <4>1
      <4>3. Len(after) = Len(q) - k
        <5>1. Len(q) \in Nat /\ Len(after) = IF k + 1 <= Len(q) THEN Len(q) - (k + 1) + 1 ELSE 0
          BY <1>0, <3>3
        <5>2. CASE k = Len(q)
          BY <4>1, <5>1, <5>2
        <5>3. CASE k < Len(q)
          <6>1. k + 1 <= Len(q)
            BY <4>1, <5>1, <5>3
          <6> QED BY <4>1, <5>1, <6>1
        <5> QED BY <4>1, <5>1, <5>2, <5>3
      <4> QED BY <4>2, <4>3
    <3>5. \A i \in 1 .. k - 1 : i \in 1 .. (k - 1) - 1 + 1 /\ 1 + i - 1 = i
      BY <2>3
    <3>6. \A i \in 1 .. Len(q) - k : i \in 1 .. Len(q) - (k + 1) + 1 /\ (k + 1) + i - 1 = k + i
      BY <1>0, <2>3
    <3>7. \A i \in 1 .. k - 1 : before[i] = q[i]
      BY <3>2, <3>5
    <3>8. \A i \in 1 .. Len(q) - k : after[i] = q[k + i]
      BY <3>3, <3>6
    <3> QED BY <3>2, <3>3, <3>4, <3>7, <3>8
  <2> HIDE DEF before, after, r
  <2>a. k \in Nat /\ k >= 1 /\ k <= Len(q)
    BY <1>0, <2>3
  <2>b. before \in Seq(T) /\ after \in Seq(T)
    BY <2>5
  <2>6. r \in Seq(T) /\ Len(r) = Len(q) - 1
    <3>1. r \in Seq(T) /\ Len(r) = Len(before) + Len(after)
      BY <2>4, <2>b, ConcatProperties
    <3> QED BY <1>0, <2>5, <2>a, <3>1
  <2>7. \A i \in 1 .. Len(q) - 1 : r[i] = IF i < k THEN q[i] ELSE q[i + 1]
    BY <1>0, <2>3, <2>4, <2>5, ConcatProperties
  <2>8. DOMAIN r = 1 .. Len(q) - 1
    BY <2>6, LenProperties
  <2>9. ASSUME NEW a \in 1 .. Len(q) - 1, NEW b \in 1 .. Len(q) - 1, r[a] = r[b] PROVE a = b
    <3> DEFINE of(i) == IF i < k THEN i ELSE i + 1
    <3>1. of(a) \in 1 .. Len(q) /\ of(b) \in 1 .. Len(q) /\ r[a] = q[of(a)] /\ r[b] = q[of(b)]
      BY <1>0, <2>7, <2>a
    <3>2. of(a) = of(b)
      BY <1>0, <2>9, <3>1 DEF IsInjective
    <3> QED BY <1>0, <2>a, <3>2
  <2>c. IsInjective(r)
    BY <2>8, <2>9 DEF IsInjective
  <2>10. ASSUME NEW x \in ToSet(q) \ {e} PROVE x \in ToSet(r)
    <3>1. PICK i \in 1 .. Len(q) : q[i] = x /\ i # k
      BY <1>0, <2>3, <2>10 DEF ToSet
    <3>2. CASE i < k
      BY <1>0, <2>3, <2>7, <2>8, <3>1, <3>2 DEF ToSet
    <3>3. CASE i > k
      <4>1. i - 1 \in 1 .. Len(q) - 1 /\ r[i - 1] = x
        BY <1>0, <2>3, <2>7, <3>1, <3>3
      <4> QED BY <2>8, <4>1 DEF ToSet
    <3> QED BY <1>0, <2>3, <3>1, <3>2, <3>3
  <2>11. ASSUME NEW x \in ToSet(r) PROVE x \in ToSet(q) \ {e}
    <3>1. PICK i \in 1 .. Len(q) - 1 : r[i] = x
      BY <2>8, <2>11 DEF ToSet
    <3>2. PICK j \in 1 .. Len(q) : q[j] = x /\ j # k
      BY <1>0, <2>3, <2>7, <3>1
    <3> QED BY <1>0, <2>3, <3>2 DEF ToSet, IsInjective
  <2> QED BY <2>6, <2>c, <2>10, <2>11 DEF r
<1> QED BY <1>1, <1>2

\* The end of a queue, and its front.
LEMMA QueueEnds ==
  ASSUME NEW T, NEW q \in Seq(T), IsInjective(q)
  PROVE  /\ \A e \in T \ ToSet(q) : /\ Append(q, e) \in Seq(T) /\ IsInjective(Append(q, e))
                                    /\ ToSet(Append(q, e)) = ToSet(q) \cup {e}
         /\ q # <<>> => /\ Tail(q) \in Seq(T) /\ IsInjective(Tail(q))
                        /\ Head(q) \in ToSet(q) /\ Head(q) \in T /\ ToSet(Tail(q)) = ToSet(q) \ {Head(q)}
<1>0. Len(q) \in Nat /\ DOMAIN q = 1 .. Len(q) /\ \A i \in 1 .. Len(q) : q[i] \in T
  BY LenProperties, ElementOfSeq
<1>1. ASSUME NEW e \in T \ ToSet(q)
      PROVE  /\ Append(q, e) \in Seq(T) /\ IsInjective(Append(q, e))
             /\ ToSet(Append(q, e)) = ToSet(q) \cup {e}
  <2> DEFINE r == Append(q, e)
  <2>1. /\ r \in Seq(T) /\ Len(r) = Len(q) + 1 /\ r[Len(q) + 1] = e
        /\ \A i \in 1 .. Len(q) : r[i] = q[i]
    BY AppendProperties
  <2>2. DOMAIN r = 1 .. Len(q) + 1
    BY <2>1, LenProperties
  <2> HIDE DEF r
  <2>3. IsInjective(r)
    BY <1>0, <1>1, <2>1, <2>2 DEF IsInjective, ToSet
  <2>4. ToSet(r) = ToSet(q) \cup {e}
    BY <1>0, <2>1, <2>2 DEF ToSet
  <2> QED BY <2>1, <2>3, <2>4 DEF r
<1>2. ASSUME q # <<>>
      PROVE  /\ Tail(q) \in Seq(T) /\ IsInjective(Tail(q))
             /\ Head(q) \in ToSet(q) /\ Head(q) \in T /\ ToSet(Tail(q)) = ToSet(q) \ {Head(q)}
  <2> DEFINE r == Tail(q)
  <2>1. /\ r \in Seq(T) /\ Len(r) = Len(q) - 1 /\ Len(q) # 0 /\ Head(q) = q[1]
        /\ \A i \in 1 .. Len(q) - 1 : r[i] = q[i + 1]
    BY <1>2, HeadTailProperties, EmptySeq
  <2>2. DOMAIN r = 1 .. Len(q) - 1
    BY <2>1, LenProperties
  <2>3. 1 \in 1 .. Len(q)
    BY <1>0, <2>1
  <2> HIDE DEF r
  <2>a. ASSUME NEW a \in 1 .. Len(q) - 1, NEW b \in 1 .. Len(q) - 1, r[a] = r[b] PROVE a = b
    <3>1. a + 1 \in 1 .. Len(q) /\ b + 1 \in 1 .. Len(q) /\ q[a + 1] = q[b + 1]
      BY <1>0, <2>1, <2>a
    <3>2. a + 1 = b + 1
      BY <1>0, <3>1 DEF IsInjective
    <3> QED BY <1>0, <3>2
  <2>4. IsInjective(r)
    BY <2>2, <2>a DEF IsInjective
  <2>5. Head(q) \in ToSet(q) /\ Head(q) \in T
    BY <1>0, <2>1, <2>3 DEF ToSet
  <2>6. ASSUME NEW x \in ToSet(q) \ {Head(q)} PROVE x \in ToSet(r)
    <3>1. PICK i \in 1 .. Len(q) : q[i] = x /\ i # 1
      BY <1>0, <2>1, <2>6 DEF ToSet
    <3>2. i - 1 \in 1 .. Len(q) - 1 /\ r[i - 1] = x
      BY <1>0, <2>1, <3>1
    <3> QED BY <2>2, <3>2 DEF ToSet
  <2>7. ASSUME NEW x \in ToSet(r) PROVE x \in ToSet(q) \ {Head(q)}
    <3>1. PICK i \in 1 .. Len(q) - 1 : r[i] = x
      BY <2>2, <2>7 DEF ToSet
    <3>2. i + 1 \in 1 .. Len(q) /\ q[i + 1] = x /\ i + 1 # 1
      BY <1>0, <2>1, <3>1
    <3> QED BY <1>0, <2>1, <2>3, <3>2 DEF ToSet, IsInjective
  <2> QED BY <2>1, <2>4, <2>5, <2>6, <2>7 DEF r
<1> QED BY <1>1, <1>2

\* Subagents that wait for a slot.
Queued == {t \in Subagents : process[t] = "queued"}

\* The queue of admission is those that wait, once each, and nobody waits for a free slot.
QueueInv ==
  /\ admitted \in Seq(Subagents) /\ IsInjective(admitted) /\ ToSet(admitted) = Queued
  /\ IsFiniteSet(Active) /\ Cardinality(Active) <= MaxConcurrent
  /\ admitted # <<>> => Cardinality(Active) = MaxConcurrent

\* An output that was read is of a task that has ended, and its end is not announced.
ReadsInv ==
  /\ \A s \in Sessions : \A t \in readOutputs[s] : status[t] \in EndStates
  /\ ReadEndIsNotAnnounced

\* The rest of the types; only subagents wait to be launched, and no task works unrecorded.
FlagsTyped ==
  /\ killed \cup timedOut \cup announced \subseteq Tasks /\ childLives \in BOOLEAN
  /\ resumable \subseteq Subagents
  /\ \A t \in Tasks : /\ process[t] = "launching" => t \in Subagents
                      /\ status[t] = "none" => process[t] = "none"

\* The inductive invariant.
TellsInv == RegistryInv /\ QueueInv /\ ReadsInv /\ FlagsTyped

\* What the registry's constants are.
LEMMA RegistryNumbers == MaxConcurrent \in Nat /\ MaxConcurrent # 0 /\ Subagents \subseteq Tasks /\ (Commands \cup Monitors) \cap Subagents = {}
BY RegistryAssumption DEF Tasks

\* Steps that begin, end or queue no work.
LEMMA QueueRests ==
  ASSUME QueueInv, admitted' = admitted,
         \A t \in Subagents : /\ process'[t] = "active" <=> process[t] = "active"
                              /\ process'[t] = "queued" <=> process[t] = "queued"
  PROVE  QueueInv'
<1>1. Active' = Active /\ Queued' = Queued
  BY DEF Active, Queued
<1> QED BY <1>1 DEF QueueInv

\* A slot is taken, or given back, or handed on to the first that waits.
LEMMA SlotsCounted ==
  ASSUME QueueInv
  PROVE  /\ \A t \in Subagents \ Active :
              IsFiniteSet(Active \cup {t}) /\ Cardinality(Active \cup {t}) = Cardinality(Active) + 1
         /\ \A t \in Active :
              /\ IsFiniteSet(Active \ {t}) /\ Cardinality(Active \ {t}) = Cardinality(Active) - 1
              /\ \A u \in Subagents \ Active :
                   /\ IsFiniteSet((Active \ {t}) \cup {u})
                   /\ Cardinality((Active \ {t}) \cup {u}) = Cardinality(Active)
         /\ Cardinality(Active) \in Nat
<1>0. IsFiniteSet(Active) /\ Cardinality(Active) \in Nat
  BY FS_CardinalityType DEF QueueInv
<1>1. ASSUME NEW t \in Subagents \ Active
      PROVE  IsFiniteSet(Active \cup {t}) /\ Cardinality(Active \cup {t}) = Cardinality(Active) + 1
  BY <1>0, FS_AddElement
<1>2. ASSUME NEW t \in Active
      PROVE  /\ IsFiniteSet(Active \ {t}) /\ Cardinality(Active \ {t}) = Cardinality(Active) - 1
             /\ \A u \in Subagents \ Active :
                  /\ IsFiniteSet((Active \ {t}) \cup {u})
                  /\ Cardinality((Active \ {t}) \cup {u}) = Cardinality(Active)
  <2>1. IsFiniteSet(Active \ {t}) /\ Cardinality(Active \ {t}) = Cardinality(Active) - 1
    BY <1>0, FS_RemoveElement
  <2>2. ASSUME NEW u \in Subagents \ Active
        PROVE  /\ IsFiniteSet((Active \ {t}) \cup {u})
               /\ Cardinality((Active \ {t}) \cup {u}) = Cardinality(Active)
    <3>1. u \notin Active \ {t}
      OBVIOUS
    <3>2. IsFiniteSet((Active \ {t}) \cup {u}) /\ Cardinality((Active \ {t}) \cup {u}) = Cardinality(Active \ {t}) + 1
      BY <2>1, <3>1, FS_AddElement
    <3> QED BY <1>0, <2>1, <3>2
  <2> QED BY <2>1, <2>2
<1> QED BY <1>0, <1>1, <1>2

\* A launch that waits is last in the queue, and one that runs is not in it.
LEMMA LaunchKeepsQueue ==
  ASSUME QueueInv, RecordsTyped, NEW t \in Tasks, Launch(t), t \in Subagents
  PROVE  QueueInv'
<1>0. process \in [Tasks -> {"none", "launching", "queued", "active", "over", "told"}] /\ process[t] = "launching"
      /\ t \notin Active /\ t \notin Queued /\ Subagents \subseteq Tasks
  BY RegistryNumbers DEF Launch, RecordsTyped, Active, Queued
<1>1. CASE process' = [process EXCEPT ![t] = "over"] /\ admitted' = admitted
  <2>1. \A u \in Subagents : /\ process'[u] = "active" <=> process[u] = "active"
                             /\ process'[u] = "queued" <=> process[u] = "queued"
    BY <1>0, <1>1
  <2> QED BY <1>1, <2>1, QueueRests
<1>2. CASE /\ process' = [process EXCEPT ![t] = "active"] /\ admitted' = admitted
           /\ Cardinality(Active) < MaxConcurrent
  <2>1. Active' = Active \cup {t} /\ Queued' = Queued
    BY <1>0, <1>2 DEF Active, Queued
  <2>2. /\ IsFiniteSet(Active \cup {t}) /\ Cardinality(Active \cup {t}) = Cardinality(Active) + 1
        /\ Cardinality(Active) \in Nat
    BY <1>0, SlotsCounted
  <2>3. admitted = <<>>
    BY <1>2, <2>2, RegistryNumbers DEF QueueInv
  <2>4. IsFiniteSet(Active') /\ Cardinality(Active') <= MaxConcurrent
    BY <1>2, <2>1, <2>2, RegistryNumbers
  <2> QED BY <1>2, <2>1, <2>3, <2>4 DEF QueueInv
<1>3. CASE /\ process' = [process EXCEPT ![t] = "queued"] /\ admitted' = Append(admitted, t)
           /\ Cardinality(Active) >= MaxConcurrent
  <2>1. Active' = Active /\ Queued' = Queued \cup {t}
    BY <1>0, <1>3 DEF Active, Queued
  <2>2. Append(admitted, t) \in Seq(Subagents) /\ IsInjective(Append(admitted, t))
        /\ ToSet(Append(admitted, t)) = Queued \cup {t}
    BY <1>0, QueueEnds DEF QueueInv
  <2>3. Cardinality(Active) = MaxConcurrent
    BY <1>3, SlotsCounted, RegistryNumbers DEF QueueInv
  <2> QED BY <1>3, <2>1, <2>2, <2>3, RegistryNumbers DEF QueueInv
<1> QED BY <1>1, <1>2, <1>3 DEF Launch

\* A task that is stopped leaves the queue.
LEMMA KillKeepsQueue ==
  ASSUME QueueInv, RecordsTyped, NEW t \in Tasks, Kill(t)
  PROVE  QueueInv'
<1>0. process \in [Tasks -> {"none", "launching", "queued", "active", "over", "told"}] /\ Subagents \subseteq Tasks
  BY RegistryNumbers DEF RecordsTyped
<1>1. process' = [process EXCEPT ![t] = IF process[t] = "queued" THEN "over" ELSE process[t]]
      /\ admitted' = RemoveFirst(admitted, t)
  BY DEF Kill
<1>2. Active' = Active /\ Queued' = Queued \ {t}
  BY <1>0, <1>1 DEF Active, Queued
<1>3. admitted' \in Seq(Subagents) /\ IsInjective(admitted') /\ ToSet(admitted') = Queued \ {t}
  BY <1>1, FirstIsRemoved DEF QueueInv
<1>4. admitted' # <<>> => admitted # <<>>
  <2>1. CASE admitted = <<>>
    <3>1. Len(admitted) = 0
      BY <2>1, EmptySeq
    <3> QED BY <1>1, <2>1, <3>1 DEF RemoveFirst
  <2> QED BY <2>1
<1> QED BY <1>2, <1>3, <1>4 DEF QueueInv

\* When a run ends the first in the queue follows.
LEMMA EndKeepsQueue ==
  ASSUME QueueInv, RecordsTyped, NEW t \in Tasks, ProcessEnds(t)
  PROVE  QueueInv'
<1>0. process \in [Tasks -> {"none", "launching", "queued", "active", "over", "told"}] /\ process[t] = "active"
      /\ t \notin Queued /\ Subagents \subseteq Tasks
  BY RegistryNumbers DEF ProcessEnds, RecordsTyped, Queued
<1>1. CASE t \in Subagents /\ admitted # <<>>
  <2>1. process' = [process EXCEPT ![t] = "over", ![Head(admitted)] = "active"] /\ admitted' = Tail(admitted)
    BY <1>1 DEF ProcessEnds, Freed
  <2>2. Head(admitted) \in Queued /\ Head(admitted) \in Subagents
        /\ Tail(admitted) \in Seq(Subagents) /\ IsInjective(Tail(admitted))
        /\ ToSet(Tail(admitted)) = Queued \ {Head(admitted)}
    BY <1>1, QueueEnds DEF QueueInv
  <2>3. Head(admitted) \notin Active /\ Head(admitted) # t /\ t \in Active
    BY <1>0, <1>1, <2>2 DEF Active, Queued
  <2>4. Active' = (Active \ {t}) \cup {Head(admitted)} /\ Queued' = Queued \ {Head(admitted)}
    BY <1>0, <2>1, <2>2, <2>3 DEF Active, Queued
  <2>5. IsFiniteSet(Active') /\ Cardinality(Active') = Cardinality(Active)
    BY <2>2, <2>3, <2>4, SlotsCounted
  <2> QED BY <1>1, <2>1, <2>2, <2>4, <2>5 DEF QueueInv
<1>2. CASE t \in Subagents /\ admitted = <<>>
  <2>1. process' = [process EXCEPT ![t] = "over"] /\ admitted' = admitted
    BY <1>2 DEF ProcessEnds, Freed, FreedOnly
  <2>2. t \in Active /\ Active' = Active \ {t} /\ Queued' = Queued
    BY <1>0, <1>2, <2>1 DEF Active, Queued
  <2>3. IsFiniteSet(Active') /\ Cardinality(Active') <= MaxConcurrent
    BY <2>2, SlotsCounted, RegistryNumbers DEF QueueInv
  <2> QED BY <1>2, <2>1, <2>2, <2>3 DEF QueueInv
<1>3. CASE t \notin Subagents
  <2>1. process' = [process EXCEPT ![t] = "over"] /\ admitted' = admitted
    BY <1>3 DEF ProcessEnds, Freed, FreedOnly
  <2>2. \A u \in Subagents : process'[u] = process[u]
    BY <1>0, <1>3, <2>1
  <2> QED BY <2>1, <2>2, QueueRests
<1> QED BY <1>1, <1>2, <1>3

\* A registry without tasks has told nothing.
LEMMA TellsInitInv == RegistryInit => TellsInv
<1> SUFFICES ASSUME RegistryInit PROVE TellsInv
  OBVIOUS
<1>1. RegistryInv
  BY DEF RegistryInit, RegistryInv, RecordsTyped, StatusFollows, Sessions
<1>2. QueueInv
  <2>1. Active = {} /\ Queued = {} /\ admitted = <<>>
    BY RegistryNumbers DEF RegistryInit, Active, Queued
  <2>2. IsFiniteSet({}) /\ Cardinality({}) = 0
    BY FS_EmptySet
  <2>3. <<>> \in Seq(Subagents) /\ IsInjective(<<>>) /\ ToSet(<<>>) = {}
    BY EmptySeq DEF IsInjective, ToSet
  <2> QED BY <2>1, <2>2, <2>3, RegistryNumbers DEF QueueInv
<1>3. ReadsInv
  <2>1. \A s \in Sessions : readOutputs[s] = {}
    BY DEF RegistryInit
  <2>2. \A t \in Tasks : owner[t] \in Sessions
    BY DEF RegistryInit, Sessions
  <2> QED BY <2>1, <2>2 DEF ReadsInv, ReadEndIsNotAnnounced
<1>4. FlagsTyped
  BY DEF RegistryInit, FlagsTyped
<1> QED BY <1>1, <1>2, <1>3, <1>4 DEF TellsInv

\* Steps that end or start tasks keep what was read of others, and of ends.
LEMMA ReadsRest ==
  ASSUME ReadsInv, RecordsTyped, RecordsTyped', readOutputs' = readOutputs,
         \A t \in Tasks : status[t] \in EndStates => status'[t] \in EndStates /\ owner'[t] = owner[t] /\ starter'[t] = starter[t],
         \A t \in Tasks \ Monitors : \A s \in Sessions :
            EndReminder(t) \in reminders'[s] /\ t \in readOutputs[s] /\ owner[t] = s /\ starter[t] = s => EndReminder(t) \in reminders[s]
  PROVE  ReadsInv'
<1>1. ASSUME NEW s \in Sessions, NEW t \in readOutputs[s] PROVE status'[t] \in EndStates
  BY <1>1 DEF ReadsInv, RecordsTyped
<1>2. ASSUME NEW t \in Tasks \ Monitors, t \in readOutputs[owner'[t]], owner'[t] = starter'[t], owner'[t] \in Sessions
      PROVE  EndReminder(t) \notin reminders'[owner'[t]]
  <2>1. status[t] \in EndStates
    BY <1>2 DEF ReadsInv
  <2>2. owner'[t] = owner[t] /\ starter'[t] = starter[t]
    BY <2>1
  <2>3. EndReminder(t) \notin reminders[owner[t]]
    BY <1>2, <2>2 DEF ReadsInv, ReadEndIsNotAnnounced, EndReminder
  <2> QED BY <1>2, <2>2, <2>3
<1>3. \A t \in Tasks : owner'[t] \in Sessions
  BY DEF RecordsTyped
<1> QED BY <1>1, <1>2, <1>3 DEF ReadsInv, ReadEndIsNotAnnounced, EndReminder

\* Every step of the registry keeps what it has told apart from what it is to tell.
LEMMA TellsStep ==
  ASSUME TellsInv, RegistryNext
  PROVE  RegistryInv' /\ QueueInv' /\ ReadsInv' /\ FlagsTyped'
<1>0. RegistryInv /\ RecordsTyped /\ StatusFollows /\ QueueInv /\ ReadsInv /\ FlagsTyped
  BY DEF TellsInv, RegistryInv
<1>t. process \in [Tasks -> {"none", "launching", "queued", "active", "over", "told"}]
      /\ status \in [Tasks -> {"none", "running"} \cup EndStates] /\ Subagents \subseteq Tasks
      /\ reminders \in [Sessions -> SUBSET Reminder] /\ readOutputs \in [Sessions -> SUBSET Tasks]
      /\ starter \in [Tasks -> Sessions] /\ owner \in [Tasks -> Sessions]
  BY <1>0, RegistryNumbers DEF RecordsTyped
<1>e. "none" \notin EndStates /\ "running" \notin EndStates
  BY DEF EndStates
<1>1. ASSUME NEW t \in Tasks, NEW s \in Sessions, StartTask(t, s)
      PROVE  RegistryInv' /\ QueueInv' /\ ReadsInv' /\ FlagsTyped'
  <2>1. RegistryInv' /\ RecordsTyped'
    BY <1>0, <1>1, TaskStepKeepsInv DEF RegistryInv
  <2>2. status[t] = "none" /\ process[t] = "none"
    BY <1>0, <1>1 DEF StartTask, FlagsTyped
  <2>3. process' = [process EXCEPT ![t] = IF t \in Subagents THEN "launching" ELSE "active"]
        /\ status' = [status EXCEPT ![t] = "running"]
        /\ UNCHANGED <<admitted, readOutputs, reminders, killed, timedOut, announced, childLives, resumable>>
    BY <1>1 DEF StartTask
  <2>4. QueueInv'
    <3>1. \A u \in Subagents : /\ process'[u] = "active" <=> process[u] = "active"
                               /\ process'[u] = "queued" <=> process[u] = "queued"
      BY <1>t, <2>2, <2>3
    <3> QED BY <1>0, <2>3, <3>1, QueueRests
  <2>5. ReadsInv'
    <3>1. \A u \in Tasks : status[u] \in EndStates => status'[u] \in EndStates /\ owner'[u] = owner[u]
                                                      /\ starter'[u] = starter[u]
      BY <1>1, <1>t, <1>e, <2>2 DEF StartTask
    <3> QED BY <1>0, <2>1, <2>3, <3>1, ReadsRest
  <2>6. FlagsTyped'
    <3>1. \A u \in Tasks : /\ process'[u] = "launching" => u \in Subagents
                           /\ status'[u] = "none" => process'[u] = "none"
      BY <1>0, <1>t, <2>3 DEF FlagsTyped
    <3> QED BY <1>0, <2>3, <3>1 DEF FlagsTyped
  <2> QED BY <2>1, <2>4, <2>5, <2>6
<1>2. ASSUME NEW t \in Tasks, Launch(t)
      PROVE  RegistryInv' /\ QueueInv' /\ ReadsInv' /\ FlagsTyped'
  <2>1. RegistryInv' /\ RecordsTyped'
    BY <1>0, <1>2, TaskStepKeepsInv DEF RegistryInv
  <2>2. t \in Subagents
    BY <1>0, <1>2 DEF Launch, FlagsTyped
  <2>3. QueueInv'
    BY <1>0, <1>2, <2>2, LaunchKeepsQueue
  <2>4. UNCHANGED <<status, owner, starter, readOutputs, reminders, killed, timedOut, announced, childLives, resumable>>
    BY <1>2 DEF Launch
  <2>5. ReadsInv'
    BY <1>0, <2>1, <2>4, ReadsRest
  <2>6. FlagsTyped'
    <3>1. \A u \in Tasks : /\ process'[u] = "launching" => process[u] = "launching"
                           /\ process[u] = "none" => process'[u] = "none"
      BY <1>2, <1>t DEF Launch
    <3> QED BY <1>0, <2>4, <3>1 DEF FlagsTyped
  <2> QED BY <2>1, <2>3, <2>5, <2>6
<1>3. ASSUME NEW t \in Tasks, Kill(t)
      PROVE  RegistryInv' /\ QueueInv' /\ ReadsInv' /\ FlagsTyped'
  <2>1. RegistryInv' /\ RecordsTyped'
    BY <1>0, <1>3, TaskStepKeepsInv DEF RegistryInv
  <2>2. QueueInv'
    BY <1>0, <1>3, KillKeepsQueue
  <2>3. /\ status' = [status EXCEPT ![t] = "cancelled"] /\ killed' = killed \cup {t}
        /\ process' = [process EXCEPT ![t] = IF process[t] = "queued" THEN "over" ELSE process[t]]
        /\ status[t] = "running"
        /\ UNCHANGED <<owner, starter, readOutputs, reminders, timedOut, announced, childLives, resumable>>
    BY <1>3 DEF Kill
  <2>4. ReadsInv'
    <3>1. \A u \in Tasks : status[u] \in EndStates => status'[u] \in EndStates
      BY <1>t, <2>3 DEF EndStates
    <3> QED BY <1>0, <2>1, <2>3, <3>1, ReadsRest
  <2>5. FlagsTyped'
    <3>1. \A u \in Tasks : /\ process'[u] = "launching" => process[u] = "launching"
                           /\ process[u] = "none" => process'[u] = "none"
                           /\ status'[u] = "none" => status[u] = "none"
      BY <1>t, <2>3
    <3> QED BY <1>0, <2>3, <3>1 DEF FlagsTyped
  <2> QED BY <2>1, <2>2, <2>4, <2>5
<1>4. ASSUME NEW t \in Tasks, TimeOut(t)
      PROVE  RegistryInv' /\ QueueInv' /\ ReadsInv' /\ FlagsTyped'
  <2>1. RegistryInv' /\ RecordsTyped'
    BY <1>0, <1>4, TaskStepKeepsInv DEF RegistryInv
  <2>2. timedOut' = timedOut \cup {t}
        /\ UNCHANGED <<status, process, admitted, resumable, killed, starter, owner, reminders, readOutputs,
                       childLives, announced>>
    BY <1>4 DEF TimeOut, processes
  <2>3. QueueInv'
    BY <1>0, <2>2, QueueRests
  <2>4. ReadsInv'
    BY <1>0, <2>1, <2>2, ReadsRest
  <2> QED BY <1>0, <2>1, <2>2, <2>3, <2>4 DEF FlagsTyped
<1>5. ASSUME NEW t \in Tasks, ProcessEnds(t)
      PROVE  RegistryInv' /\ QueueInv' /\ ReadsInv' /\ FlagsTyped'
  <2>1. RegistryInv' /\ RecordsTyped'
    BY <1>0, <1>5, EndStepKeepsInv DEF RegistryInv
  <2>2. QueueInv'
    BY <1>0, <1>5, EndKeepsQueue
  <2>3. PICK end \in {"completed", "failed"} : status' = [status EXCEPT ![t] = EndedAs(t, end)]
    BY <1>5 DEF ProcessEnds
  <2>4. EndedAs(t, end) \in EndStates
    BY DEF EndedAs, EndStates
  <2>5. process[t] = "active" /\ resumable' = (IF t \in Subagents \ killed THEN resumable \cup {t} ELSE resumable)
        /\ UNCHANGED <<killed, timedOut, starter, owner, reminders, readOutputs, childLives, announced>>
    BY <1>5 DEF ProcessEnds
  <2>6. ReadsInv'
    <3>1. \A u \in Tasks : status[u] \in EndStates => status'[u] \in EndStates
      BY <1>t, <2>3, <2>4
    <3> QED BY <1>0, <2>1, <2>5, <3>1, ReadsRest
  <2>7. FlagsTyped'
    <3>1. PICK next : process' \in {[process EXCEPT ![t] = "over"],
                                    [process EXCEPT ![t] = "over", ![next] = "active"]}
                      /\ (process' # [process EXCEPT ![t] = "over"] => next \in Queued)
      <4>1. CASE t \in Subagents /\ admitted # <<>>
        <5>1. Head(admitted) \in Queued
          BY <1>0, <4>1, QueueEnds DEF QueueInv
        <5> QED BY <1>5, <4>1, <5>1 DEF ProcessEnds, Freed
      <4>2. CASE ~(t \in Subagents /\ admitted # <<>>)
        BY <1>5, <4>2 DEF ProcessEnds, Freed, FreedOnly
      <4> QED BY <4>1, <4>2
    <3>2. \A u \in Tasks : /\ process'[u] = "launching" => process[u] = "launching"
                           /\ process[u] = "none" => process'[u] = "none"
      BY <1>t, <2>5, <3>1 DEF Queued
    <3>3. \A u \in Tasks : status'[u] = "none" => status[u] = "none"
      BY <1>t, <1>e, <2>3, <2>4
    <3>4. resumable' \subseteq Subagents
      BY <1>0, <2>5 DEF FlagsTyped
    <3> QED BY <1>0, <2>5, <3>2, <3>3, <3>4 DEF FlagsTyped
  <2> QED BY <2>1, <2>2, <2>6, <2>7
<1>6. ASSUME NEW t \in Tasks, Announce(t)
      PROVE  RegistryInv' /\ QueueInv' /\ ReadsInv' /\ FlagsTyped'
  <2>1. RegistryInv' /\ RecordsTyped'
    BY <1>0, <1>6, ReminderStepKeepsInv DEF RegistryInv
  <2>2. process' = [process EXCEPT ![t] = "told"] /\ process[t] = "over"
        /\ UNCHANGED <<status, killed, timedOut, starter, owner, readOutputs, childLives, admitted,
                       resumable, announced>>
    BY <1>6 DEF Announce
  <2>3. QueueInv'
    <3>1. \A u \in Subagents : /\ process'[u] = "active" <=> process[u] = "active"
                               /\ process'[u] = "queued" <=> process[u] = "queued"
      BY <1>t, <2>2
    <3> QED BY <1>0, <2>2, <3>1, QueueRests
  <2>4. ReadsInv'
    <3>1. ASSUME NEW u \in Tasks \ Monitors, NEW s \in Sessions, EndReminder(u) \in reminders'[s],
                 u \in readOutputs[s], owner[u] = s, starter[u] = s
          PROVE  EndReminder(u) \in reminders[s]
      <4>1. CASE UNCHANGED reminders
        BY <3>1, <4>1
      <4>2. CASE AnnounceTo(t, owner[t]) /\ ~(t \notin Monitors /\ t \in readOutputs[starter[t]])
        <5>1. u # t
          BY <3>1, <4>2
        <5>2. reminders'[s] \subseteq reminders[s] \cup {[task |-> t, about |-> "end"]}
          BY <1>t, <4>2 DEF AnnounceTo
        <5>3. EndReminder(u) # [task |-> t, about |-> "end"]
          BY <5>1 DEF EndReminder
        <5> QED BY <3>1, <5>2, <5>3
      <4> QED BY <1>6, <4>1, <4>2 DEF Announce, AnnounceToOwner
    <3> QED BY <1>0, <2>1, <2>2, <3>1, ReadsRest
  <2>5. FlagsTyped'
    <3>1. \A u \in Tasks : /\ process'[u] = "launching" => process[u] = "launching"
                           /\ process[u] = "none" => process'[u] = "none"
      BY <1>t, <2>2
    <3> QED BY <1>0, <2>2, <3>1 DEF FlagsTyped
  <2> QED BY <2>1, <2>3, <2>4, <2>5
<1>7. ASSUME NEW t \in Tasks, MonitorEvent(t)
      PROVE  RegistryInv' /\ QueueInv' /\ ReadsInv' /\ FlagsTyped'
  <2>1. RegistryInv' /\ RecordsTyped'
    BY <1>0, <1>7, ReminderStepKeepsInv DEF RegistryInv
  <2>2. UNCHANGED <<status, process, admitted, resumable, killed, timedOut, starter, owner, readOutputs,
                    childLives, announced>>
    BY <1>7 DEF MonitorEvent, processes
  <2>3. QueueInv'
    BY <1>0, <2>2, QueueRests
  <2>4. ReadsInv'
    <3>1. ASSUME NEW u \in Tasks \ Monitors, NEW s \in Sessions, EndReminder(u) \in reminders'[s]
          PROVE  EndReminder(u) \in reminders[s]
      <4>1. reminders'[s] \subseteq reminders[s] \cup {[task |-> t, about |-> "event"]}
        BY <1>7, <1>t DEF MonitorEvent
      <4>2. EndReminder(u) # [task |-> t, about |-> "event"]
        BY DEF EndReminder
      <4> QED BY <3>1, <4>1, <4>2
    <3> QED BY <1>0, <2>1, <2>2, <3>1, ReadsRest
  <2> QED BY <1>0, <2>1, <2>2, <2>3, <2>4 DEF FlagsTyped
<1>8. ASSUME NEW s \in Sessions, NEW given, given \subseteq reminders[s], Give(s, given), RegistryInv'
      PROVE  QueueInv' /\ ReadsInv' /\ FlagsTyped'
  <2>1. RecordsTyped'
    BY <1>8 DEF RegistryInv
  <2>2. UNCHANGED <<status, process, admitted, resumable, killed, timedOut, starter, owner, readOutputs, childLives>>
        /\ reminders' = [reminders EXCEPT ![s] = reminders[s] \ given]
        /\ announced' = announced \cup {r.task : r \in {g \in given : g.about = "end"}}
    BY <1>8 DEF Give, processes
  <2>3. QueueInv'
    BY <1>0, <2>2, QueueRests
  <2>4. ReadsInv'
    <3>1. \A u \in Sessions : reminders'[u] \subseteq reminders[u]
      BY <1>t, <2>2
    <3> QED BY <1>0, <2>1, <2>2, <3>1, ReadsRest
  <2>5. announced' \subseteq Tasks
    <3>1. \A g \in given : g.task \in Tasks
      BY <1>8, <1>t DEF Reminder
    <3> QED BY <1>0, <2>2, <3>1 DEF FlagsTyped
  <2> QED BY <1>0, <2>2, <2>3, <2>4, <2>5 DEF FlagsTyped
<1>9. ASSUME NEW t \in Tasks, TakeReminders(t)
      PROVE  RegistryInv' /\ QueueInv' /\ ReadsInv' /\ FlagsTyped'
  <2>1. RegistryInv'
    BY <1>0, <1>9, ReminderStepKeepsInv
  <2>2. PICK given : given = {r \in reminders["root"] : r.task = t /\ r.about = "end"}
    OBVIOUS
  <2>3. "root" \in Sessions /\ given \subseteq reminders["root"] /\ Give("root", given)
    BY <1>9, <2>2 DEF TakeReminders, Sessions
  <2> QED BY <1>8, <2>1, <2>3
<1>10. ASSUME NEW s \in Sessions, DrainReminders(s)
      PROVE  RegistryInv' /\ QueueInv' /\ ReadsInv' /\ FlagsTyped'
  <2>1. RegistryInv'
    BY <1>0, <1>10, ReminderStepKeepsInv
  <2>2. PICK given : given \subseteq reminders[s] /\ Give(s, given)
    <3>1. PICK events : events = {r \in reminders[s] : r.about = "event"}
      OBVIOUS
    <3>2. Give(s, reminders[s]) \/ Give(s, events)
      BY <1>10, <3>1 DEF DrainReminders
    <3>3. events \subseteq reminders[s]
      BY <3>1
    <3> QED BY <3>2, <3>3
  <2> QED BY <1>8, <2>1, <2>2
<1>11. ASSUME NEW t \in Tasks, NEW s \in Sessions, GetOutput(s, t)
      PROVE  RegistryInv' /\ QueueInv' /\ ReadsInv' /\ FlagsTyped'
  <2>1. RegistryInv' /\ RecordsTyped'
    BY <1>0, <1>11, ReminderStepKeepsInv DEF RegistryInv
  <2>2. UNCHANGED <<status, process, admitted, resumable, killed, timedOut, starter, owner, childLives, announced>>
        /\ readOutputs' = [readOutputs EXCEPT ![s] = readOutputs[s] \cup {t}]
        /\ reminders' = [reminders EXCEPT ![s] = {r \in reminders[s] : r.task # t}]
        /\ owner[t] = s /\ status[t] \in EndStates
    BY <1>11 DEF GetOutput, processes, ReadAndForget
  <2>3. QueueInv'
    BY <1>0, <2>2, QueueRests
  <2>4. ReadsInv'
    <3>1. ASSUME NEW z \in Sessions, NEW u \in readOutputs'[z] PROVE status[u] \in EndStates
      <4>1. u \in readOutputs[z] \/ u = t
        BY <1>t, <2>2, <3>1
      <4> QED BY <1>0, <2>2, <4>1 DEF ReadsInv
    <3>2. ASSUME NEW u \in Tasks \ Monitors, u \in readOutputs'[owner[u]], owner[u] = starter[u]
          PROVE  EndReminder(u) \notin reminders'[owner[u]]
      <4>1. owner[u] \in Sessions
        BY <1>t
      <4>2. CASE u = t
        BY <1>t, <2>2, <4>1, <4>2 DEF EndReminder
      <4>3. CASE u # t
        <5>1. u \in readOutputs[owner[u]]
          BY <1>t, <2>2, <3>2, <4>1, <4>3
        <5>2. EndReminder(u) \notin reminders[owner[u]]
          BY <1>0, <3>2, <5>1 DEF ReadsInv, ReadEndIsNotAnnounced, EndReminder
        <5>3. reminders'[owner[u]] \subseteq reminders[owner[u]]
          BY <1>t, <2>2, <4>1
        <5> QED BY <5>2, <5>3
      <4> QED BY <4>2, <4>3
    <3> QED BY <2>2, <3>1, <3>2 DEF ReadsInv, ReadEndIsNotAnnounced, EndReminder
  <2> QED BY <1>0, <2>1, <2>2, <2>3, <2>4 DEF FlagsTyped
<1>12. CASE ChildSessionEnds
  <2>1. RegistryInv' /\ RecordsTyped'
    BY <1>0, <1>12, ChildEndKeepsInv DEF RegistryInv
  <2>2. childLives' = FALSE
        /\ UNCHANGED <<status, process, admitted, resumable, killed, timedOut, starter, reminders, readOutputs, announced>>
        /\ owner' = [t \in Tasks |-> IF t \notin Subagents /\ status[t] = "running" THEN "root" ELSE owner[t]]
    BY <1>12 DEF ChildSessionEnds, processes
  <2>3. QueueInv'
    BY <1>0, <2>2, QueueRests
  <2>4. ReadsInv'
    <3>1. \A u \in Tasks : status[u] \in EndStates => owner'[u] = owner[u]
      BY <1>e, <2>2
    <3> QED BY <1>0, <2>1, <2>2, <3>1, ReadsRest
  <2> QED BY <1>0, <2>1, <2>2, <2>3, <2>4 DEF FlagsTyped
<1> QED BY <1>1, <1>2, <1>3, <1>4, <1>5, <1>6, <1>7, <1>9, <1>10, <1>11, <1>12 DEF RegistryNext

\* So does every step or stutter.
LEMMA TellsStepInv == TellsInv /\ [RegistryNext]_registryVars => TellsInv'
<1>1. ASSUME TellsInv, UNCHANGED registryVars PROVE TellsInv'
  <2>1. /\ UNCHANGED <<status, process, admitted, resumable, killed, timedOut, starter, owner>>
        /\ UNCHANGED <<reminders, readOutputs, childLives, announced>>
    BY <1>1 DEF registryVars, processes
  <2>2. RegistryInv'
    BY <1>1, <2>1 DEF TellsInv, RegistryInv, RecordsTyped, StatusFollows, EndKnown
  <2>3. QueueInv'
    BY <1>1, <2>1, QueueRests DEF TellsInv
  <2>4. ReadsInv' /\ FlagsTyped'
    BY <1>1, <2>1 DEF TellsInv, ReadsInv, ReadEndIsNotAnnounced, FlagsTyped
  <2> QED BY <2>2, <2>3, <2>4 DEF TellsInv
<1>2. ASSUME TellsInv, RegistryNext PROVE TellsInv'
  BY <1>2, TellsStep DEF TellsInv
<1> QED BY <1>1, <1>2

\* What it says of ends and of the queue, and its types.
LEMMA TellsInvHolds == TellsInv => RegistryTypeOK /\ ReadEndIsNotAnnounced /\ AdmissionIsFull
<1> SUFFICES ASSUME TellsInv PROVE RegistryTypeOK /\ ReadEndIsNotAnnounced /\ AdmissionIsFull
  OBVIOUS
<1>1. RegistryTypeOK
  BY DEF TellsInv, RegistryInv, RecordsTyped, FlagsTyped, QueueInv, RegistryTypeOK
<1>2. ReadEndIsNotAnnounced
  BY DEF TellsInv, ReadsInv
<1>3. AdmissionIsFull
  BY DEF TellsInv, QueueInv, Queued, AdmissionIsFull
<1> QED BY <1>1, <1>2, <1>3

\* For any tasks and any limit, the end of a task that was read is not announced again, and no
\* subagent waits for a place while one is free (grok-build-background-tasks.ts,
\* grok-build-subagent-admission.ts).
THEOREM TasksAreTold == RegistrySpec => [](ReadEndIsNotAnnounced /\ AdmissionIsFull)
<1>1. RegistrySpec => []TellsInv
  BY TellsInitInv, TellsStepInv, PTL DEF RegistrySpec
<1> QED BY <1>1, TellsInvHolds, PTL

-----------------------------------------------------------------------------
(***************************************************************************)
(* The loop of a session: its types                                        *)
(***************************************************************************)

\* What a session's loop counts is within its bounds: a summary is only asked for when one
\* more is allowed, and a session is only titled for a run.
LoopBounds ==
  /\ phase \in {"idle", "titling", "turn", "compacting", "sampling", "tools"}
  /\ runs \in 0 .. MaxRuns /\ task \in 0 .. runs /\ turnNumber \in 0 .. MaxTurns
  /\ titled \in BOOLEAN /\ stopping \in BOOLEAN
  /\ retries \in (0 .. RetryLimit) \cup (0 .. SummaryTries)
  /\ compactions \in 0 .. MaxCompactions /\ callCount \in 0 .. MaxCalls
  /\ notes \in 0 .. MaxNotes /\ restores \in 0 .. MaxRestores
  /\ phase = "compacting" => compactions # MaxCompactions
  /\ phase = "titling" => runs # 0

\* A call that runs was made, and what is said names runs and calls there were.
TalkTyped ==
  /\ \A i \in DOMAIN batch : batch[i].call \in 1 .. callCount
  /\ conversation \in Seq(Items) /\ saved \in Seq(Items)

\* The types of the loop, with what its transcript is true by.
LoopTyped == LoopInv /\ LoopBounds /\ TalkTyped

\* The loop's bounds are numbers.
LEMMA LoopNumbers ==
  /\ MaxTurns \in Nat /\ RetryLimit \in Nat /\ RateRetryLimit \in Nat /\ SummaryTries \in Nat
  /\ MaxTurns # 0 /\ RetryLimit # 0 /\ SummaryTries # 0
  /\ BatchLimit \in Nat /\ MaxCalls \in Nat /\ MaxRuns \in Nat /\ MaxNotes \in Nat
  /\ MaxCompactions \in Nat /\ MaxRestores \in Nat
  BY AgentLoopAssumption

\* The bounds an action of the loop leaves alone.
LEMMA BoundsRest ==
  ASSUME LoopBounds,
         phase' \in {"idle", "turn", "sampling", "tools"} \/ phase' = phase,
         turnNumber' \in 0 .. MaxTurns, retries' \in (0 .. RetryLimit) \cup (0 .. SummaryTries),
         callCount' \in 0 .. MaxCalls, notes' \in 0 .. MaxNotes,
         restores' \in 0 .. MaxRestores, stopping' \in BOOLEAN,
         UNCHANGED <<task, runs, titled, compactions>>
  PROVE  LoopBounds'
  BY DEF LoopBounds

\* One more of what is not at its limit
LEMMA OneMore == ASSUME NEW n \in Nat, NEW m \in 0 .. n, m < n \/ m # n PROVE m + 1 \in 0 .. n
  OBVIOUS

\* What every count begins with is within its bound.
LEMMA ZeroWithin == ASSUME NEW n \in Nat PROVE 0 \in 0 .. n /\ (n # 0 => 1 \in 0 .. n)
  OBVIOUS

\* Every step keeps the bounds.
LEMMA BoundsStep ==
  ASSUME LoopBounds, LoopNext \/ UNCHANGED loopVars
  PROVE  LoopBounds'
<1>1. /\ runs \in 0 .. MaxRuns /\ task \in 0 .. runs /\ turnNumber \in 0 .. MaxTurns
      /\ titled \in BOOLEAN /\ stopping \in BOOLEAN
      /\ retries \in (0 .. RetryLimit) \cup (0 .. SummaryTries)
      /\ compactions \in 0 .. MaxCompactions /\ callCount \in 0 .. MaxCalls
      /\ notes \in 0 .. MaxNotes /\ restores \in 0 .. MaxRestores
  BY DEF LoopBounds
<1>2. /\ 0 \in 0 .. MaxTurns /\ 1 \in 0 .. MaxTurns
      /\ 0 \in (0 .. RetryLimit) \cup (0 .. SummaryTries)
      /\ SummaryTries \in (0 .. RetryLimit) \cup (0 .. SummaryTries)
  BY LoopNumbers, ZeroWithin
<1>3. ASSUME RunEnds, UNCHANGED <<task, runs, titled, compactions, callCount, notes>>,
             restores' \in 0 .. MaxRestores
      PROVE  LoopBounds'
  <2>1. phase' = "idle" /\ turnNumber' = 0 /\ retries' = 0 /\ stopping' = FALSE
    BY <1>3 DEF RunEnds
  <2> QED BY <1>1, <1>2, <1>3, <2>1, BoundsRest
<1>4. ASSUME NEW n \in 0 .. 1, Drains(n)
      PROVE  notes' \in 0 .. MaxNotes
  BY <1>1, <1>4, LoopNumbers DEF Drains
<1>5. ASSUME runs' \in 0 .. MaxRuns, task' \in 0 .. runs', titled' \in BOOLEAN,
             phase' = "titling" => runs' # 0, phase' \in {"titling", "turn"},
             turnNumber' \in 0 .. MaxTurns, retries' \in (0 .. RetryLimit) \cup (0 .. SummaryTries),
             UNCHANGED <<stopping, compactions, callCount, notes, restores>>
      PROVE  LoopBounds'
  BY <1>1, <1>5 DEF LoopBounds
<1>6. CASE Run
  <2>1. runs' \in 0 .. MaxRuns /\ runs' # 0 /\ task \in 0 .. runs' /\ runs' \in 0 .. runs'
    BY <1>1, <1>6, LoopNumbers DEF Run
  <2>2. CASE Asks
    <3>1. phase' = "turn" /\ turnNumber' = 1 /\ retries' = 0 /\ task' = runs'
      BY <2>2 DEF Asks
    <3>2. UNCHANGED <<titled, stopping, compactions, callCount, notes, restores>>
      BY <1>6 DEF Run
    <3> QED BY <1>1, <1>2, <1>5, <2>1, <3>1, <3>2
  <2>3. CASE phase' = "titling" /\ UNCHANGED <<task, turnNumber, retries>>
    <3>2. UNCHANGED <<titled, stopping, compactions, callCount, notes, restores>>
      BY <1>6 DEF Run
    <3> QED BY <1>1, <1>5, <2>1, <2>3, <3>2
  <2> QED BY <1>6, <2>2, <2>3 DEF Run
<1>7. CASE Titled
  <2>1. /\ phase' = "turn" /\ turnNumber' = 1 /\ retries' = 0 /\ task' = runs'
        /\ runs' = runs /\ titled' = TRUE
        /\ UNCHANGED <<stopping, compactions, callCount, notes, restores>>
    BY <1>7 DEF Titled, Asks
  <2>2. task' \in 0 .. runs'
    BY <1>1, <2>1
  <2> QED BY <1>1, <1>2, <1>5, <2>1, <2>2
<1>8. CASE ResumeRun
  <2>1. runs' \in 0 .. MaxRuns /\ task \in 0 .. runs'
    BY <1>1, <1>8, LoopNumbers DEF ResumeRun
  <2>2. /\ phase' = "turn" /\ turnNumber' = 1
        /\ UNCHANGED <<task, retries, titled, stopping, compactions, callCount, notes, restores>>
    BY <1>8 DEF ResumeRun
  <2> QED BY <1>1, <1>2, <1>5, <2>1, <2>2
<1>9. CASE Enqueue
  <2>1. /\ notes' = notes + 1 /\ notes < MaxNotes
        /\ UNCHANGED <<phase, task, runs, turnNumber, titled, retries, stopping, compactions,
                       callCount, restores>>
    BY <1>9 DEF Enqueue
  <2>2. notes' \in 0 .. MaxNotes
    BY <1>1, <2>1, OneMore, LoopNumbers
  <2> QED BY <1>1, <2>1, <2>2, BoundsRest
<1>10. CASE TurnBegins
  <2>1. UNCHANGED <<task, runs, titled, compactions, callCount, restores>>
    BY <1>10 DEF TurnBegins
  <2>2. CASE RunEnds /\ UNCHANGED notes
    BY <1>1, <1>3, <2>1, <2>2
  <2>3. CASE /\ compactions < MaxCompactions /\ phase' = "compacting" /\ retries' = SummaryTries
             /\ UNCHANGED <<turnNumber, stopping, notes>>
    <3>1. compactions # MaxCompactions
      BY <1>1, <2>3
    <3> QED BY <1>1, <1>2, <2>1, <2>3, <3>1 DEF LoopBounds
  <2>4. CASE /\ phase' = "sampling" /\ \E n \in 0 .. 1 : Drains(n)
             /\ UNCHANGED <<turnNumber, retries, stopping>>
    BY <1>1, <1>4, <2>1, <2>4, BoundsRest
  <2> QED BY <1>10, <2>2, <2>3, <2>4 DEF TurnBegins
<1>11. CASE RequestFails
  <2>1. UNCHANGED <<task, runs, titled, compactions, callCount, notes, restores>>
    BY <1>11 DEF RequestFails
  <2>2. CASE RunEnds
    BY <1>1, <1>3, <2>1, <2>2
  <2>3. ASSUME NEW code, Retried(code), retries' = retries + 1,
               UNCHANGED <<phase, turnNumber, stopping>>
        PROVE  LoopBounds'
    <3>1. retries + 1 < RetryLimit
      BY <2>3 DEF Retried
    <3>2. retries \in Nat
      BY <1>1, LoopNumbers
    <3>3. retries' \in 0 .. RetryLimit
      BY <2>3, <3>1, <3>2, LoopNumbers
    <3> QED BY <1>1, <2>1, <2>3, <3>3, BoundsRest
  <2> QED BY <1>11, <2>2, <2>3 DEF RequestFails
<1>12. CASE SummaryFails
  <2>1. UNCHANGED <<task, runs, titled, compactions, callCount, notes, restores>>
    BY <1>12 DEF SummaryFails
  <2>2. CASE RunEnds
    BY <1>1, <1>3, <2>1, <2>2
  <2>3. CASE retries > 1 /\ retries' = retries - 1 /\ UNCHANGED <<phase, turnNumber, stopping>>
    <3>1. retries' \in (0 .. RetryLimit) \cup (0 .. SummaryTries)
      BY <1>1, <2>3, LoopNumbers
    <3> QED BY <1>1, <2>1, <2>3, <3>1, BoundsRest
  <2> QED BY <1>12, <2>2, <2>3 DEF SummaryFails
<1>13. CASE Summarized \/ CompactNow
  <2>1. /\ compactions # MaxCompactions /\ phase' \in {"idle", "sampling"}
        /\ retries' \in (0 .. RetryLimit) \cup (0 .. SummaryTries)
    BY <1>1, <1>2, <1>13 DEF Summarized, CompactNow, LoopBounds
  <2>2. /\ compactions' = compactions + 1
        /\ UNCHANGED <<titled, task, runs, turnNumber, stopping, callCount, notes, restores>>
    BY <1>13 DEF Summarized, CompactNow, Compact
  <2>3. compactions' \in 0 .. MaxCompactions
    BY <1>1, <2>1, <2>2, OneMore, LoopNumbers
  <2> QED BY <1>1, <2>1, <2>2, <2>3 DEF LoopBounds
<1>14. CASE Replies
  <2>1. UNCHANGED <<task, runs, titled, compactions, callCount, restores>> /\ notes' \in 0 .. MaxNotes
    BY <1>4, <1>14 DEF Replies
  <2>2. CASE RunEnds
    <3>1. phase' = "idle" /\ turnNumber' = 0 /\ retries' = 0 /\ stopping' = FALSE
      BY <2>2 DEF RunEnds
    <3> QED BY <1>1, <1>2, <2>1, <3>1, BoundsRest
  <2>3. CASE /\ turnNumber < MaxTurns /\ phase' = "turn" /\ turnNumber' = turnNumber + 1
             /\ retries' = 0 /\ UNCHANGED stopping
    <3>1. turnNumber' \in 0 .. MaxTurns
      BY <1>1, <2>3, OneMore, LoopNumbers
    <3> QED BY <1>1, <1>2, <2>1, <2>3, <3>1, BoundsRest
  <2> QED BY <1>14, <2>2, <2>3 DEF Replies
<1>15. CASE CallsTools
  <2>1. PICK n \in 1 .. BatchLimit : callCount' = callCount + n /\ callCount' <= MaxCalls
    BY <1>15 DEF CallsTools
  <2>2. callCount' \in 0 .. MaxCalls
    BY <1>1, <2>1, LoopNumbers
  <2>3. /\ phase' = "tools" /\ retries' = 0
        /\ UNCHANGED <<task, runs, turnNumber, titled, stopping, compactions, notes, restores>>
    BY <1>15 DEF CallsTools
  <2> QED BY <1>1, <1>2, <2>2, <2>3, BoundsRest
<1>16. ASSUME NEW i \in DOMAIN batch, CallStarts(i)
       PROVE  LoopBounds'
  BY <1>1, <1>16, BoundsRest DEF CallStarts
<1>17. ASSUME NEW i \in DOMAIN batch, CallEnds(i)
       PROVE  LoopBounds'
  <2>1. notes' \in 0 .. MaxNotes
    BY <1>4, <1>17 DEF CallEnds
  <2> QED BY <1>1, <1>17, <2>1, BoundsRest DEF CallEnds
<1>18. CASE BatchEnds
  <2>1. UNCHANGED <<task, runs, titled, compactions, callCount, notes, restores>>
    BY <1>18 DEF BatchEnds
  <2>2. CASE turnNumber = MaxTurns
    BY <1>1, <1>3, <1>18, <2>1, <2>2 DEF BatchEnds
  <2>3. CASE turnNumber # MaxTurns
    <3>1. phase' = "turn" /\ turnNumber' = turnNumber + 1 /\ UNCHANGED <<retries, stopping>>
      BY <1>18, <2>3 DEF BatchEnds
    <3>2. turnNumber' \in 0 .. MaxTurns
      BY <1>1, <2>3, <3>1, OneMore, LoopNumbers
    <3> QED BY <1>1, <2>1, <3>1, <3>2, BoundsRest
  <2> QED BY <2>2, <2>3
<1>19. CASE StopRun
  <2>1. UNCHANGED <<task, runs, titled, compactions, callCount, notes, restores>>
    BY <1>19 DEF StopRun
  <2>2. CASE RunEnds
    BY <1>1, <1>3, <2>1, <2>2
  <2>3. CASE stopping' = TRUE /\ UNCHANGED <<phase, turnNumber, retries>>
    BY <1>1, <2>1, <2>3, BoundsRest
  <2> QED BY <1>19, <2>2, <2>3 DEF StopRun
<1>20. CASE Restore
  <2>1. restores' \in 0 .. MaxRestores
    BY <1>1, <1>20, OneMore, LoopNumbers DEF Restore
  <2> QED BY <1>3, <1>20, <2>1 DEF Restore
<1>21. CASE UNCHANGED loopVars
  BY <1>1, <1>21, BoundsRest DEF loopVars
<1> QED
  BY <1>6, <1>7, <1>8, <1>9, <1>10, <1>11, <1>12, <1>13, <1>14, <1>15, <1>16, <1>17, <1>18,
     <1>19, <1>20, <1>21 DEF LoopNext, ToolStep

\* What a loop may say.
LEMMA SayableItems ==
  /\ Items \subseteq LoopItems
  /\ Note \in Items /\ <<"reply", 0>> \in Items /\ <<"summary", 0>> \in Items
  /\ \A q \in 1 .. MaxRuns : <<"query", q>> \in Items
  /\ \A c \in ToolCalls : <<"call", c>> \in Items /\ <<"output", c>> \in Items
<1>1. ToolCalls \subseteq Nat /\ 1 .. MaxRuns \subseteq Nat
  BY LoopNumbers DEF ToolCalls
<1>2. /\ {"call", "output"} \X ToolCalls \subseteq LoopItems
      /\ {"note", "reply", "summary"} \X {0} \subseteq LoopItems
      /\ \A q \in 1 .. MaxRuns : <<"query", q>> \in LoopItems
  <2>1. \A c \in ToolCalls : c \in Nat
    BY <1>1
  <2>2. \A kind \in LoopKinds, c \in Nat : <<kind, c>> \in LoopItems
    BY DEF LoopItems
  <2>3. /\ "call" \in LoopKinds /\ "output" \in LoopKinds /\ "note" \in LoopKinds
        /\ "reply" \in LoopKinds /\ "summary" \in LoopKinds /\ "query" \in LoopKinds
    BY DEF LoopKinds
  <2>4. {"call", "output"} \X ToolCalls \subseteq LoopItems
    BY <2>1, <2>2, <2>3
  <2>5. {"note", "reply", "summary"} \X {0} \subseteq LoopItems
    BY <2>2, <2>3
  <2>6. \A q \in 1 .. MaxRuns : <<"query", q>> \in LoopItems
    BY <1>1, <2>2, <2>3
  <2> QED BY <2>4, <2>5, <2>6
<1>3. Items \subseteq LoopItems
  BY <1>2 DEF Items
<1>4. Note \in Items /\ <<"reply", 0>> \in Items /\ <<"summary", 0>> \in Items
  BY DEF Items, Note
<1>5. \A q \in 1 .. MaxRuns : <<"query", q>> \in Items
  BY DEF Items
<1>6. \A c \in ToolCalls : <<"call", c>> \in Items /\ <<"output", c>> \in Items
  BY DEF Items
<1> QED BY <1>3, <1>4, <1>5, <1>6

\* Nothing or one note is drained.
LEMMA DrainedTyped == ASSUME NEW n \in 0 .. 1 PROVE Drained(n) \in Seq(Items)
<1>1. Drained(n) = <<>> \/ Drained(n) = <<Note>>
  BY DrainedIsOne
<1>2. <<Note>> \in Seq(Items) /\ <<>> \in Seq(Items)
  BY SayableItems
<1> QED BY <1>1, <1>2

\* Joined sequences
LEMMA JoinTyped == ASSUME NEW S, NEW s \in Seq(S), NEW t \in Seq(S) PROVE s \o t \in Seq(S)
  BY ConcatProperties

\* A compacted history says nothing new but its summary and a note.
LEMMA CompactionTyped ==
  ASSUME conversation \in Seq(Items), conversation \in Seq(LoopItems), LastUser # 0,
         NEW reminded, reminded \in {<<>>, <<Note>>}
  PROVE  Compacted \o reminded \in Seq(Items)
<1> DEFINE tail == SubSeq(conversation, LastUser, Len(conversation))
<1>1. LastUser \in 1 .. Len(conversation) /\ Len(conversation) \in Nat
  BY CompactedIsTail, LenProperties
<1>2. tail \in Seq(Items)
  <2>1. Len(conversation) \in LastUser - 1 .. Len(conversation)
    BY <1>1
  <2>2. \A i \in LastUser .. Len(conversation) : conversation[i] \in Items
    BY <1>1, ElementOfSeq
  <2> QED BY <1>1, <2>1, <2>2, SubSeqProperties
<1>3. Compacted = Append(tail, <<"summary", 0>>)
  BY CompactedIsTail
<1> HIDE DEF tail
<1>4. Compacted \in Seq(Items)
  BY <1>2, <1>3, SayableItems, AppendProperties
<1>5. reminded \in Seq(Items)
  <2>1. <<Note>> \in Seq(Items) /\ <<>> \in Seq(Items)
    BY SayableItems
  <2> QED BY <2>1
<1> QED BY <1>4, <1>5, JoinTyped

\* What is said is added, and kept in the checkpoint or not.
LEMMA SaidTyped ==
  ASSUME TalkTyped, NEW more \in Seq(Items), conversation' = conversation \o more,
         saved' \in {saved, conversation'},
         \A i \in DOMAIN batch' : batch'[i].call \in 1 .. callCount'
  PROVE  TalkTyped'
<1>1. conversation' \in Seq(Items)
  BY JoinTyped DEF TalkTyped
<1> QED BY <1>1 DEF TalkTyped

\* Every step keeps the talk's types.
LEMMA TalkStep ==
  ASSUME LoopInv, LoopBounds, LoopBounds', TalkTyped, LoopNext \/ UNCHANGED loopVars
  PROVE  TalkTyped'
<1>0. /\ conversation \in Seq(Items) /\ saved \in Seq(Items)
      /\ \A i \in DOMAIN batch : batch[i].call \in 1 .. callCount
      /\ DOMAIN <<>> = {}
  BY DEF TalkTyped
<1>1. ASSUME conversation' \in Seq(Items), saved' \in {saved, conversation'},
             batch' \in {batch, <<>>}, UNCHANGED callCount
      PROVE  TalkTyped'
  BY <1>0, <1>1 DEF TalkTyped
<1>2. ASSUME Asks, UNCHANGED <<batch, callCount>>, runs' # 0
      PROVE  TalkTyped'
  <2>1. conversation' = conversation \o <<<<"query", runs'>>>> /\ saved' = conversation'
    BY <1>2 DEF Asks, Says, Checkpoint
  <2>2. runs' \in 1 .. MaxRuns
    <3>1. runs' \in 0 .. MaxRuns
      BY DEF LoopBounds
    <3> QED BY <1>2, <3>1, LoopNumbers
  <2>3. <<<<"query", runs'>>>> \in Seq(Items)
    BY <2>2, SayableItems
  <2> QED BY <1>0, <1>1, <1>2, <2>1, <2>3, JoinTyped
<1>3. CASE Run
  <2>1. UNCHANGED <<batch, callCount>> /\ runs' # 0
    BY <1>3, LoopNumbers DEF Run, LoopBounds
  <2>2. Asks \/ UNCHANGED <<conversation, saved>>
    BY <1>3 DEF Run
  <2> QED BY <1>0, <1>1, <1>2, <2>1, <2>2
<1>4. CASE Titled
  <2>1. UNCHANGED <<batch, callCount>> /\ Asks /\ runs' # 0
    BY <1>4 DEF Titled, LoopBounds
  <2> QED BY <1>2, <2>1
<1>5. CASE ResumeRun
  BY <1>0, <1>1, <1>5 DEF ResumeRun, Checkpoint
<1>6. CASE Enqueue
  <2>1. <<Note>> \in Seq(Items)
    BY SayableItems
  <2> QED BY <1>0, <1>1, <1>6, <2>1, JoinTyped DEF Enqueue, Says, Checkpoint
<1>7. CASE TurnBegins
  <2>1. UNCHANGED <<saved, callCount>> /\ batch' \in {batch, <<>>}
    BY <1>7 DEF TurnBegins, RunEnds
  <2>2. conversation' = conversation \/ \E n \in 0 .. 1 : conversation' = conversation \o Drained(n)
    BY <1>7 DEF TurnBegins, Says
  <2>3. conversation' \in Seq(Items)
    BY <1>0, <2>2, DrainedTyped, JoinTyped
  <2> QED BY <1>1, <2>1, <2>3
<1>8. CASE RequestFails \/ SummaryFails
  BY <1>0, <1>1, <1>8 DEF RequestFails, SummaryFails, RunEnds
<1>9. CASE Summarized \/ CompactNow
  <2>1. /\ LastUser # 0 /\ UNCHANGED <<batch, callCount>> /\ saved' = conversation'
        /\ \E reminded \in {<<>>, <<Note>>} : conversation' = Compacted \o reminded
    BY <1>9 DEF Summarized, CompactNow, Compact, Checkpoint
  <2>2. conversation' \in Seq(Items)
    BY <1>0, <2>1, CompactionTyped DEF LoopInv
  <2> QED BY <1>1, <2>1, <2>2
<1>10. CASE Replies
  <2>1. /\ UNCHANGED callCount /\ saved' = conversation' /\ batch' \in {batch, <<>>}
        /\ \E n \in 0 .. 1 : conversation' = conversation \o (<<<<"reply", 0>>>> \o Drained(n))
    BY <1>10 DEF Replies, Says, Checkpoint, RunEnds
  <2>2. <<<<"reply", 0>>>> \in Seq(Items)
    BY SayableItems
  <2>3. conversation' \in Seq(Items)
    BY <1>0, <2>1, <2>2, DrainedTyped, JoinTyped
  <2> QED BY <1>1, <2>1, <2>3
<1>11. CASE CallsTools
  <2>1. PICK n \in 1 .. BatchLimit, paths \in [1 .. BatchLimit -> ToolPaths \cup {NoPath}],
             writing \in SUBSET (1 .. BatchLimit) :
          /\ batch' = [i \in 1 .. n |-> [call |-> callCount + i, path |-> paths[i],
                                         writes |-> i \in writing /\ paths[i] # NoPath,
                                         at |-> "waiting"]]
          /\ conversation' = conversation \o [i \in 1 .. n |-> <<"call", callCount + i>>]
          /\ callCount' = callCount + n /\ callCount' <= MaxCalls
    BY <1>11 DEF CallsTools, Says
  <2>2. callCount \in Nat /\ n \in Nat
    BY <2>1, LoopNumbers DEF LoopBounds
  <2>3. \A i \in 1 .. n : callCount + i \in 1 .. callCount' /\ callCount + i \in ToolCalls
    BY <2>1, <2>2, LoopNumbers DEF ToolCalls
  <2>4. \A i \in DOMAIN batch' : batch'[i].call \in 1 .. callCount'
    <3>1. DOMAIN batch' = 1 .. n /\ \A i \in 1 .. n : batch'[i].call = callCount + i
      BY <2>1
    <3> QED BY <2>3, <3>1
  <2>5. PICK more : more = [i \in 1 .. n |-> <<"call", callCount + i>>]
    OBVIOUS
  <2>6. more \in Seq(Items)
    <3>1. \A i \in 1 .. n : <<"call", callCount + i>> \in Items
      BY <2>3, SayableItems
    <3>2. more \in [1 .. n -> Items]
      BY <2>5, <3>1
    <3> QED BY <2>2, <3>2
  <2>7. saved' = conversation' /\ conversation' = conversation \o more
    BY <1>11, <2>1, <2>5 DEF CallsTools, Checkpoint
  <2> QED BY <2>4, <2>6, <2>7, SaidTyped
<1>12. ASSUME NEW i \in DOMAIN batch, CallStarts(i)
       PROVE  TalkTyped'
  <2>1. /\ batch' = [batch EXCEPT ![i].at = "running"]
        /\ UNCHANGED <<conversation, saved, callCount>>
    BY <1>12 DEF CallStarts
  <2>2. DOMAIN batch' = DOMAIN batch /\ \A j \in DOMAIN batch : batch'[j].call = batch[j].call
    BY <2>1, CallMoves DEF LoopInv
  <2> QED BY <1>0, <2>1, <2>2 DEF TalkTyped
<1>13. ASSUME NEW i \in DOMAIN batch, CallEnds(i)
       PROVE  TalkTyped'
  <2>1. /\ batch' = [batch EXCEPT ![i].at = "ended"]
        /\ UNCHANGED callCount /\ saved' = conversation'
    BY <1>13 DEF CallEnds, Checkpoint
  <2>2. DOMAIN batch' = DOMAIN batch /\ \A j \in DOMAIN batch : batch'[j].call = batch[j].call
    BY <2>1, CallMoves DEF LoopInv
  <2>3. PICK n \in 0 .. 1 : conversation' = conversation \o (<<<<"output", batch[i].call>>>> \o Drained(n))
    BY <1>13 DEF CallEnds, Says
  <2>4. batch[i].call \in ToolCalls
    <3>1. batch[i].call \in 1 .. callCount /\ callCount \in 0 .. MaxCalls
      BY <1>0 DEF LoopBounds
    <3> QED BY <3>1, LoopNumbers DEF ToolCalls
  <2>5. <<<<"output", batch[i].call>>>> \in Seq(Items)
    <3>1. PICK output \in Items : output = <<"output", batch[i].call>>
      BY <2>4, SayableItems
    <3>2. <<output>> \in Seq(Items)
      OBVIOUS
    <3> QED BY <3>1, <3>2
  <2>6. <<<<"output", batch[i].call>>>> \o Drained(n) \in Seq(Items)
    BY <2>5, DrainedTyped, JoinTyped
  <2>7. \A j \in DOMAIN batch' : batch'[j].call \in 1 .. callCount'
    BY <1>0, <2>1, <2>2
  <2> QED BY <2>1, <2>3, <2>6, <2>7, SaidTyped
<1>14. CASE BatchEnds
  BY <1>0, <1>1, <1>14 DEF BatchEnds, RunEnds
<1>15. CASE StopRun
  BY <1>0, <1>1, <1>15 DEF StopRun, RunEnds
<1>16. CASE Restore
  BY <1>0, <1>1, <1>16 DEF Restore, RunEnds
<1>17. CASE UNCHANGED loopVars
  BY <1>0, <1>1, <1>17 DEF loopVars
<1> QED
  BY <1>3, <1>4, <1>5, <1>6, <1>7, <1>8, <1>9, <1>10, <1>11, <1>12, <1>13, <1>14, <1>15, <1>16,
     <1>17 DEF LoopNext, ToolStep

\* A session begins with the loop's types.
LEMMA LoopInitTyped == LoopInit => LoopTyped
<1> SUFFICES ASSUME LoopInit PROVE LoopTyped
  OBVIOUS
<1>1. LoopInv
  <2>1. conversation = <<>> /\ saved = <<>> /\ batch = <<>> /\ runs = 0 /\ splitBatch = FALSE /\ callCount = 0
    BY DEF LoopInit
  <2>2. BatchInv
    BY <2>1 DEF BatchInv, InOrder
  <2> QED BY <2>1, <2>2, NothingSaid, NoneOpen DEF LoopInv
<1>2. LoopBounds
  <2>1. /\ 0 \in 0 .. MaxRuns /\ 0 \in 0 .. 0 /\ 0 \in 0 .. MaxTurns /\ 0 \in 0 .. RetryLimit
        /\ 0 \in 0 .. MaxCompactions /\ 0 \in 0 .. MaxCalls /\ 0 \in 0 .. MaxNotes
        /\ 0 \in 0 .. MaxRestores
    BY LoopNumbers
  <2> QED BY <2>1 DEF LoopInit, LoopBounds
<1>3. TalkTyped
  BY DEF LoopInit, TalkTyped
<1> QED BY <1>1, <1>2, <1>3 DEF LoopTyped

\* Every step or stutter of the loop keeps its types.
LEMMA LoopStepTyped == LoopTyped /\ [LoopNext]_loopVars => LoopTyped'
<1> SUFFICES ASSUME LoopTyped, [LoopNext]_loopVars PROVE LoopTyped'
  OBVIOUS
<1>1. LoopInv'
  BY LoopStep DEF LoopTyped
<1>2. LoopBounds'
  BY BoundsStep DEF LoopTyped
<1>3. TalkTyped'
  BY <1>2, TalkStep DEF LoopTyped
<1> QED BY <1>1, <1>2, <1>3 DEF LoopTyped

\* The loop's invariant has its types.
LEMMA LoopTypedHolds == LoopTyped => LoopTypeOK
<1> SUFFICES ASSUME LoopTyped PROVE LoopTypeOK
  OBVIOUS
<1>1. batch \in Seq([call : ToolCalls, path : ToolPaths \cup {NoPath}, writes : BOOLEAN,
                     at : {"waiting", "running", "ended"}])
  <2>1. batch \in Seq(CallOf) /\ Len(batch) \in Nat /\ DOMAIN batch = 1 .. Len(batch)
    BY DEF LoopTyped, LoopInv, BatchInv
  <2>2. ASSUME NEW i \in DOMAIN batch
        PROVE  batch[i] \in [call : ToolCalls, path : ToolPaths \cup {NoPath}, writes : BOOLEAN,
                             at : {"waiting", "running", "ended"}]
    <3>1. batch[i] \in CallOf
      BY <2>1
    <3>2. batch[i].call \in 1 .. callCount /\ callCount \in 0 .. MaxCalls
      BY DEF LoopTyped, LoopBounds, TalkTyped
    <3>3. batch[i].call \in ToolCalls
      BY <3>2, LoopNumbers DEF ToolCalls
    <3> QED BY <3>1, <3>3 DEF CallOf
  <2> DEFINE S == [call : ToolCalls, path : ToolPaths \cup {NoPath}, writes : BOOLEAN,
                   at : {"waiting", "running", "ended"}]
  <2>3. \A i \in DOMAIN batch : batch[i] \in S
    BY <2>2
  <2> HIDE DEF S
  <2>4. batch \in Seq(S)
    BY <2>1, <2>3
  <2> QED BY <2>4 DEF S
<1>2. splitBatch \in BOOLEAN
  BY DEF LoopTyped, LoopInv
<1>3. conversation \in Seq(Items) /\ saved \in Seq(Items)
  BY DEF LoopTyped, TalkTyped
<1> QED BY <1>1, <1>2, <1>3 DEF LoopTyped, LoopBounds, LoopTypeOK
=============================================================================
