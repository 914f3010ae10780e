------------------------------- MODULE Scheduler -------------------------------
(***************************************************************************)
(* The scheduler of the browser agent (grok-build-scheduler.ts): recurring *)
(* tasks, the timer that fires them, the loop that serves what is due, and *)
(* removals that count as done only when a consumer has accepted them.     *)
(*                                                                         *)
(* Time is what a task is owed: `due` once its interval has passed,        *)
(* `expired` once its seven days have.  JavaScript runs to its next await, *)
(* so while the loop stands at "turn" nothing else moves; it stands at     *)
(* "await" only behind an expiry.  The numbers of the events are left out. *)
(***************************************************************************)
EXTENDS Naturals, FiniteSets

CONSTANTS
  ScheduleIds,     \* identifiers the scheduler may hand out, each once
  DurableIds,      \* of them, those of durable tasks
  ForegroundIds,   \* of them, those that run in the conversation
  Prompts,
  NoSchedule,
  MaxScheduled,    \* MAX_SCHEDULED_TASKS
  FreshEvery,      \* LOOP_FRESH_CHAIN_EVERY
  MaxWriteFaults,  \* bound on failing writes of the state file
  MaxRestarts      \* bound on restarts of the page

ASSUME SchedulerAssumption ==
  /\ DurableIds \subseteq ScheduleIds
  /\ ForegroundIds \subseteq ScheduleIds
  /\ NoSchedule \notin ScheduleIds
  /\ {MaxScheduled, MaxWriteFaults, MaxRestarts} \subseteq Nat /\ FreshEvery \in Nat \ {0}

VARIABLES
  schedTasks,    \* the tasks in memory
  schedFile,     \* those of .grok/scheduler.json
  schedTimer,    \* whether the timer is armed
  schedLoop,     \* where fireDue stands: off | turn | await
  expiring,      \* the durable task whose expiry waits to be accepted
  blocked,       \* expiries that could not be written
  removal,       \* the task whose removal is pending
  attempt,       \* its current attempt: none | started | barrier
  sharing,       \* whether a second caller waits for that attempt
  reported,      \* history: tasks a caller was told exist
  gone,          \* history: tasks whose removal was accepted
  usedIds, writeFaults, restarts

schedulerVars == <<schedTasks, schedFile, schedTimer, schedLoop, expiring, blocked,
                   removal, attempt, sharing, reported, gone, usedIds, writeFaults, restarts>>

Children == {"none", "running", "completed", "failed"}
ScheduledTask == [due: BOOLEAN, expired: BOOLEAN, prompt: Prompts, child: Children,
                  chain: SUBSET Prompts, fresh: 0 .. FreshEvery, reset: BOOLEAN]

SchedulerTypeOK ==
  /\ DOMAIN schedTasks \subseteq ScheduleIds
  /\ \A t \in DOMAIN schedTasks : schedTasks[t] \in ScheduledTask
  /\ DOMAIN schedFile \subseteq ScheduleIds
  /\ \A t \in DOMAIN schedFile : schedFile[t] \in ScheduledTask
  /\ schedTimer \in BOOLEAN
  /\ schedLoop \in {"off", "turn", "await"}
  /\ expiring \in ScheduleIds \cup {NoSchedule}
  /\ blocked \subseteq ScheduleIds
  /\ removal \in ScheduleIds \cup {NoSchedule}
  /\ attempt \in {"none", "started", "barrier"}
  /\ sharing \in BOOLEAN
  /\ reported \cup gone \subseteq usedIds
  /\ writeFaults \in 0 .. MaxWriteFaults
  /\ restarts \in 0 .. MaxRestarts

NoTasks == [t \in {} |-> 0]

SchedulerInit ==
  /\ schedTasks = NoTasks
  /\ schedFile = NoTasks
  /\ schedTimer = FALSE
  /\ schedLoop = "off"
  /\ expiring = NoSchedule
  /\ blocked = {}
  /\ removal = NoSchedule
  /\ attempt = "none"
  /\ sharing = FALSE
  /\ reported = {}
  /\ gone = {}
  /\ usedIds = {}
  /\ writeFaults = 0
  /\ restarts = 0

-----------------------------------------------------------------------------
Put(tasks, t, task) == [u \in DOMAIN tasks \cup {t} |-> IF u = t THEN task ELSE tasks[u]]
Drop(tasks, t) == [u \in DOMAIN tasks \ {t} |-> tasks[u]]

\* What the file says of a task.  What a restored task is owed shows as time goes on, and the
\* children of an earlier page are lost.
Stored(tasks) ==
  [t \in DOMAIN tasks |->
     [tasks[t] EXCEPT !.due = FALSE, !.expired = FALSE,
                      !.child = IF @ = "none" THEN "none" ELSE "failed"]]

\* persist, of the tasks as they were before the change.
PersistedEarly == schedFile' = Stored(schedTasks) /\ UNCHANGED writeFaults

\* persist: the file becomes what is in memory, or the write throws.
Persisted == schedFile' = Stored(schedTasks') /\ UNCHANGED writeFaults
PersistFails == /\ writeFaults < MaxWriteFaults
                /\ writeFaults' = writeFaults + 1
                /\ UNCHANGED schedFile

\* arm, when the loop that calls it still counts as firing and is passed over.
ArmWhenIdle == schedTimer' = (schedLoop = "off" /\ DOMAIN schedTasks' \ blocked' # {})

\* arm: the timer is set again if a task is left that can wake it.
Arm == schedTimer' = (DOMAIN schedTasks' \ blocked' # {})

Owed(t) == t \notin blocked /\ (schedTasks[t].due \/ schedTasks[t].expired)
OwedTasks == {t \in DOMAIN schedTasks : Owed(t)}
AtAwait == schedLoop # "turn"

\* A task comes due, or reaches its seven days.
Elapse(t) ==
  /\ AtAwait
  /\ t \in DOMAIN schedTasks
  /\ \/ ~schedTasks[t].due /\ schedTasks' = [schedTasks EXCEPT ![t].due = TRUE]
     \/ ~schedTasks[t].expired /\ schedTasks' = [schedTasks EXCEPT ![t].expired = TRUE]
  /\ UNCHANGED <<schedFile, schedTimer, schedLoop, expiring, blocked, removal, attempt,
                 sharing, reported, gone, usedIds, writeFaults, restarts>>

NewTask(prompt, now) ==
  [due |-> now, expired |-> FALSE, prompt |-> prompt, child |-> "none",
   chain |-> {}, fresh |-> 0, reset |-> FALSE]

\* An update whose changed prompt leaves the chain alone.
UpdatedTaskOnChain(task, prompt, interval) ==
  [task EXCEPT !.prompt = prompt, !.due = @ /\ ~interval]

\* A changed prompt starts the loop's conversation afresh.
UpdatedTask(task, prompt, interval) ==
  [task EXCEPT !.prompt = prompt,
               !.fresh = IF prompt # task.prompt THEN 0 ELSE @,
               !.reset = @ \/ prompt # task.prompt,
               !.due = @ /\ ~interval]

\* create, for a new task (which may fire at once) and for an update.  A write that throws
\* leaves the task in memory, but neither arms the timer nor reports it.
Create(t) ==
  /\ AtAwait
  /\ removal = NoSchedule
  /\ \E prompt \in Prompts, flag \in BOOLEAN :
       \/ /\ t \notin usedIds
          /\ Cardinality(DOMAIN schedTasks) < MaxScheduled
          /\ schedTasks' = Put(schedTasks, t, NewTask(prompt, flag))
       \/ /\ t \in DOMAIN schedTasks
          /\ schedTasks' = [schedTasks EXCEPT ![t] = UpdatedTask(@, prompt, flag)]
  /\ usedIds' = usedIds \cup {t}
  /\ UNCHANGED <<schedLoop, expiring, blocked, removal, attempt, sharing, gone, restarts>>
  /\ \/ Persisted /\ Arm /\ reported' = reported \cup {t}
     \/ PersistFails /\ UNCHANGED <<schedTimer, reported>>

-----------------------------------------------------------------------------
\* delete of a task in memory: it leaves memory at once, and its removal is pending.
Delete(t) ==
  /\ AtAwait
  /\ removal = NoSchedule
  /\ t \in DOMAIN schedTasks
  /\ schedTasks' = Drop(schedTasks, t)
  /\ schedTimer' = FALSE
  /\ removal' = t
  /\ attempt' = "started"
  /\ UNCHANGED <<schedFile, schedLoop, expiring, blocked, sharing, reported, gone,
                 usedIds, writeFaults, restarts>>

\* delete of the task whose removal is pending: it joins the attempt or makes a new one.
DeleteAgain(t) ==
  /\ AtAwait
  /\ removal = t
  /\ \/ attempt # "none" /\ sharing' = TRUE /\ UNCHANGED attempt
     \/ attempt = "none" /\ attempt' = "started" /\ UNCHANGED sharing
  /\ UNCHANGED <<schedTasks, schedFile, schedTimer, schedLoop, expiring, blocked, removal,
                 reported, gone, usedIds, writeFaults, restarts>>

\* performPendingRemoval up to its barrier.
PerformRemoval ==
  /\ AtAwait
  /\ attempt = "started"
  /\ UNCHANGED <<schedTasks, schedTimer, schedLoop, expiring, blocked, removal, reported,
                 gone, usedIds, restarts>>
  /\ \/ Persisted /\ attempt' = "barrier" /\ UNCHANGED sharing
     \/ PersistFails /\ attempt' = "none" /\ sharing' = FALSE

\* The barrier: accepted, or refused, timed out or aborted, which keeps the reservation.
RemovalAccepted ==
  /\ AtAwait
  /\ attempt = "barrier"
  /\ removal' = NoSchedule
  /\ attempt' = "none"
  /\ sharing' = FALSE
  /\ gone' = gone \cup {removal}
  /\ UNCHANGED <<schedTasks, schedFile, schedLoop, expiring, blocked, reported, usedIds,
                 writeFaults, restarts>>
  /\ Arm

RemovalRefused ==
  /\ AtAwait
  /\ attempt = "barrier"
  /\ attempt' = "none"
  /\ sharing' = FALSE
  /\ UNCHANGED <<schedTasks, schedFile, schedTimer, schedLoop, expiring, blocked, removal,
                 reported, gone, usedIds, writeFaults, restarts>>

-----------------------------------------------------------------------------
\* The timer fires; a loop that is already running serves what is due.
TimerFires ==
  /\ AtAwait
  /\ schedTimer
  /\ OwedTasks # {}
  /\ schedTimer' = FALSE
  /\ schedLoop' = IF schedLoop = "off" THEN "turn" ELSE schedLoop
  /\ UNCHANGED <<schedTasks, schedFile, expiring, blocked, removal, attempt, sharing,
                 reported, gone, usedIds, writeFaults, restarts>>

\* Nothing more is due, or a write threw: the loop ends and arms the timer.
LoopEnds == schedLoop' = "off" /\ Arm

\* A turn that fires t: its child still runs, or t runs in the conversation, or a child is
\* spawned (which may throw).  The chain goes on only after a child that completed.
Restarts(task) == task.reset \/ task.fresh >= FreshEvery \/ task.child # "completed"

Spawned(task) ==
  [task EXCEPT !.due = FALSE, !.child = "running", !.reset = FALSE,
               !.fresh = IF Restarts(task) THEN 1 ELSE @ + 1,
               !.chain = IF Restarts(task) THEN {task.prompt} ELSE @ \cup {task.prompt}]

Fire(t) ==
  /\ t \in OwedTasks
  /\ ~schedTasks[t].expired
  /\ \/ schedTasks' = [schedTasks EXCEPT ![t].due = FALSE]
     \/ /\ t \notin ForegroundIds
        /\ schedTasks[t].child # "running"
        /\ schedTasks' = [schedTasks EXCEPT ![t] = Spawned(@)]
  /\ UNCHANGED <<expiring, blocked, gone>>
  /\ \/ Persisted /\ UNCHANGED <<schedLoop, schedTimer>>
     \/ PersistFails /\ LoopEnds

\* expireTask: a durable task's removal must be written and accepted, and one that cannot
\* be written is put back and no longer fired; another task's expiry is best effort.
Expire(t) ==
  /\ t \in OwedTasks
  /\ schedTasks[t].expired
  /\ schedLoop' = "await"
  /\ UNCHANGED <<schedTimer, gone>>
  /\ \/ /\ schedTasks' = Drop(schedTasks, t)
        /\ expiring' = IF t \in DurableIds THEN t ELSE NoSchedule
        /\ UNCHANGED blocked
        /\ Persisted \/ (t \notin DurableIds /\ PersistFails)
     \/ /\ t \in DurableIds
        /\ PersistFails
        /\ blocked' = blocked \cup {t}
        /\ UNCHANGED <<schedTasks, expiring>>

LoopTurn ==
  /\ schedLoop = "turn"
  /\ \/ \E t \in ScheduleIds : Fire(t) \/ Expire(t)
     \/ /\ OwedTasks = {}
        /\ UNCHANGED <<schedTasks, schedFile, expiring, blocked, gone, writeFaults>>
        /\ LoopEnds
  /\ UNCHANGED <<removal, attempt, sharing, reported, usedIds, restarts>>

\* The await of expireTask ends, with the consumer's acceptance or without.
LoopResumes ==
  /\ schedLoop = "await"
  /\ schedLoop' = "turn"
  /\ expiring' = NoSchedule
  /\ \/ gone' = gone \cup ({expiring} \ {NoSchedule})
     \/ UNCHANGED gone
  /\ UNCHANGED <<schedTasks, schedFile, schedTimer, blocked, removal, attempt, sharing,
                 reported, usedIds, writeFaults, restarts>>

\* A child ends; one that failed, was cancelled or ran out of time is not resumed.
ChildEnds(t) ==
  /\ AtAwait
  /\ t \in DOMAIN schedTasks
  /\ schedTasks[t].child = "running"
  /\ \E end \in {"completed", "failed"} : schedTasks' = [schedTasks EXCEPT ![t].child = end]
  /\ UNCHANGED <<schedFile, schedTimer, schedLoop, expiring, blocked, removal, attempt,
                 sharing, reported, gone, usedIds, writeFaults, restarts>>

\* A new page restores the file.
SchedulerRestarts ==
  /\ AtAwait
  /\ restarts < MaxRestarts
  /\ restarts' = restarts + 1
  /\ schedTasks' = schedFile
  /\ blocked' = {}
  /\ schedLoop' = "off"
  /\ expiring' = NoSchedule
  /\ removal' = NoSchedule
  /\ attempt' = "none"
  /\ sharing' = FALSE
  /\ reported' = reported \cup DOMAIN schedFile
  /\ Arm
  /\ UNCHANGED <<schedFile, gone, usedIds, writeFaults>>

SchedulerNext ==
  \/ \E t \in ScheduleIds : \/ Elapse(t)
                           \/ Create(t)
                           \/ Delete(t)
                           \/ DeleteAgain(t)
                           \/ ChildEnds(t)
  \/ PerformRemoval
  \/ RemovalAccepted
  \/ RemovalRefused
  \/ TimerFires
  \/ LoopTurn
  \/ LoopResumes
  \/ SchedulerRestarts

\* Timers fire, promises settle and barriers end after 30 seconds; people and models
\* choose when to create and delete.
SchedulerFairness ==
  /\ WF_schedulerVars(TimerFires)
  /\ WF_schedulerVars(LoopTurn)
  /\ WF_schedulerVars(LoopResumes)

SchedulerSpec == SchedulerInit /\ [][SchedulerNext]_schedulerVars /\ SchedulerFairness

-----------------------------------------------------------------------------
\* A removal that was accepted is final: the task is neither in memory nor in the file, so
\* it never fires again, in this page or in the next (delete, expireTask, restore).
RemovalIsFinal == gone \cap (DOMAIN schedTasks \cup DOMAIN schedFile) = {}

\* A loop goes on in the conversation of its own prompt: a child is resumed for the prompt
\* its conversation was started with, and at most FreshEvery times (fireDue, create).
LoopKeepsToItsPrompt ==
  \A t \in DOMAIN schedTasks : Cardinality(schedTasks[t].chain) <= 1

\* A task a caller was told of fires when it is due, or expires, whatever is created,
\* deleted, refused or written in vain meanwhile, unless a removal is left pending.
OwedTaskIsServed ==
  \A t \in ScheduleIds :
    (t \in reported /\ t \in DOMAIN schedTasks /\ Owed(t)) ~>
      (t \notin DOMAIN schedTasks \/ ~Owed(t) \/ removal # NoSchedule)
=============================================================================
