----------------------------- MODULE Workflows -----------------------------
(* One workflow run of the browser agent: the manager that starts, stops, resumes and
   restores it (grok-build-workflows.ts), the engine that drives its script from a journal
   of the host's answers (grok-build-workflow-engine.ts), and what the host keeps for a run
   that is under way (grok-build-workflow-host.ts).

   The script (external) asks the host for HostCalls agents one after another; it may pause,
   and fail when the host's last answer was an error.  A parallel panel is one host call.
   A stopped run's driver goes on until its host call is over, also beside the driver of a
   run that was resumed meanwhile. *)
EXTENDS Naturals, Sequences

CONSTANTS
  HostCalls,     \* agents the script asks for
  Budgets,       \* agent budgets one can ask for
  MaxDrivers,     \* bound on the drivers of one page
  MaxWfFaults,   \* bound on writes of the manifest or the journal that throw
  MaxWfReloads   \* bound on reloads of the page

ASSUME WorkflowAssumption ==
  /\ HostCalls \in Nat /\ Budgets \subseteq Nat \ {0}
  /\ MaxDrivers \in Nat /\ MaxWfFaults \in Nat /\ MaxWfReloads \in Nat

VARIABLES
  wfRun,         \* the manager's record of the run
  wfManifest,    \* state.json: the status and the budget
  wfMemory,      \* the engine's journals: <<>> when there is none, else <<the journal>>
  wfFile,        \* journal.jsonl
  wfDriver,      \* per epoch: the engine's run of the script
  wfRights,      \* executionForkContext: whether agents may fork the context
  wfKept,        \* history: host calls whose answer was put in the journal
  wfFaults, wfReloads

wfVars == <<wfRun, wfManifest, wfMemory, wfFile, wfDriver, wfRights, wfKept, wfFaults, wfReloads>>

\* What an agent came to: a value, whether or not it met its contract, or an error of the host.
AgentResults == {"ok", "error"}
Outcomes == {"completed", "paused", "budget_limited", "cancelled", "failed"}
CanResume == Outcomes \ {"completed"}
Journals == UNION {[1 .. n -> AgentResults] : n \in 0 .. HostCalls}
NoDriver == [pc |-> "off", journal |-> <<>>, aborted |-> FALSE]

WorkflowTypeOK ==
  /\ wfRun \in [known: BOOLEAN, epoch: 0 .. MaxDrivers, resumable: BOOLEAN, budget: Nat,
                outcome: {"none", "interrupted"} \cup Outcomes]
  /\ wfManifest \in [status: {"absent", "active", "interrupted"} \cup Outcomes, budget: Nat]
  /\ wfMemory \in {<<>>} \cup {<<j>> : j \in Journals}
  /\ wfFile \in Journals
  /\ wfDriver \in [1 .. MaxDrivers ->
                     [pc: {"off", "ready", "calling"}, journal: Journals, aborted: BOOLEAN]]
  /\ wfRights \in BOOLEAN
  /\ wfKept \subseteq 1 .. HostCalls
  /\ wfFaults \in 0 .. MaxWfFaults /\ wfReloads \in 0 .. MaxWfReloads

WorkflowInit ==
  /\ wfRun = [known |-> FALSE, epoch |-> 0, resumable |-> FALSE, budget |-> 0, outcome |-> "none"]
  /\ wfManifest = [status |-> "absent", budget |-> 0]
  /\ wfMemory = <<>> /\ wfFile = <<>>
  /\ wfDriver = [g \in 1 .. MaxDrivers |-> NoDriver]
  /\ wfRights = FALSE /\ wfKept = {}
  /\ wfFaults = 0 /\ wfReloads = 0

-----------------------------------------------------------------------------
Faulty == wfFaults < MaxWfFaults /\ wfFaults' = wfFaults + 1
Sound == UNCHANGED wfFaults

\* drive, on resume: the engine's journal or else the file's, without the host error the
\* run failed of.
ResumedOfMemory == IF wfMemory = <<>> THEN <<>> ELSE wfMemory[1]
Resumed == IF wfMemory = <<>> THEN wfFile ELSE wfMemory[1]
Pruned(j) == IF j # <<>> /\ j[Len(j)] = "error" THEN SubSeq(j, 1, Len(j) - 1) ELSE j

\* run: a manifest is written and a driver begins, or the run is forgotten.
LaunchRun(budget, journal) ==
  LET g == wfRun.epoch + 1 IN
  /\ g <= MaxDrivers
  /\ \/ /\ Sound
        /\ wfRun' = [known |-> TRUE, epoch |-> g, resumable |-> FALSE, budget |-> budget,
                     outcome |-> "none"]
        /\ wfManifest' = [status |-> "active", budget |-> budget]
        /\ wfDriver' = [wfDriver EXCEPT ![g] = [pc |-> "ready", journal |-> journal,
                                                aborted |-> FALSE]]
        /\ wfRights' = TRUE
     \/ /\ Faulty
        /\ wfRun' = [wfRun EXCEPT !.known = FALSE]
        /\ UNCHANGED <<wfManifest, wfDriver, wfRights>>

Start ==
  /\ ~wfRun.known /\ wfManifest.status = "absent"
  /\ \E b \in Budgets : LaunchRun(b, <<>>)
  /\ UNCHANGED <<wfMemory, wfFile, wfKept, wfReloads>>

\* The budget of a resumed run: asked for or not, and never lower than before.
AskedBudget(b) == b
ResumeBudget(b) == IF b > wfRun.budget THEN b ELSE wfRun.budget

Resume ==
  /\ wfRun.known /\ wfRun.resumable
  /\ \E b \in Budgets :
       /\ wfRun.outcome = "budget_limited" => b > wfRun.budget
       /\ \/ /\ UNCHANGED <<wfMemory, wfFile>>
             /\ LaunchRun(ResumeBudget(b), Resumed)
          \/ /\ wfRun.outcome = "failed"
             /\ wfFile' = Pruned(wfFile)
             /\ wfMemory' = IF wfMemory = <<>> THEN <<>> ELSE <<Pruned(wfMemory[1])>>
             /\ LaunchRun(ResumeBudget(b), Pruned(Resumed))
  /\ UNCHANGED <<wfKept, wfReloads>>

\* persistTerminalOutcome: a manifest that cannot be written makes the run interrupted.
Concluded(o, resumable) ==
  \/ /\ Sound
     /\ wfRun' = [wfRun EXCEPT !.outcome = o, !.resumable = resumable]
     /\ wfManifest' = [status |-> o, budget |-> wfRun.budget]
  \/ /\ Faulty
     /\ wfRun' = [wfRun EXCEPT !.outcome = "interrupted", !.resumable = FALSE]
     /\ wfManifest' \in {wfManifest, [status |-> "interrupted", budget |-> wfRun.budget]}

\* A driver is over: the host forgets the run, and the manager concludes it.  An aborted
\* driver finds that the run has another driver by then or was cancelled, or concludes it too.
Leaves(g) == wfDriver' = [wfDriver EXCEPT ![g] = NoDriver] /\ wfRights' = FALSE
DriveEnds(g, o) == Leaves(g) /\ Concluded(o, o \in CanResume)
AbortEnds(g) ==
  /\ Leaves(g)
  /\ IF wfRun.known /\ wfRun.epoch = g /\ wfRun.outcome # "cancelled"
     THEN Concluded("cancelled", TRUE)
     ELSE Sound /\ UNCHANGED <<wfRun, wfManifest>>

\* drive evaluates the script.
Evaluate(g) ==
  LET d == wfDriver[g]
      n == Len(d.journal) IN
  /\ d.pc = "ready"
  /\ \/ d.aborted /\ AbortEnds(g)
     \/ ~d.aborted /\ n = HostCalls /\ DriveEnds(g, "completed")
     \/ ~d.aborted /\ DriveEnds(g, "paused")
     \/ ~d.aborted /\ n > 0 /\ d.journal[n] = "error" /\ DriveEnds(g, "failed")
     \/ ~d.aborted /\ n < HostCalls /\ n + 1 > wfRun.budget /\ DriveEnds(g, "budget_limited")
     \/ /\ ~d.aborted /\ n < HostCalls /\ n + 1 <= wfRun.budget
        /\ wfDriver' = [wfDriver EXCEPT ![g].pc = "calling"]
        /\ Sound
        /\ UNCHANGED <<wfRun, wfManifest, wfRights>>
  /\ UNCHANGED <<wfMemory, wfFile, wfKept, wfReloads>>

\* The host answers: the answer is journaled, in the file and then in memory, unless the
\* driver was aborted.
HostAnswers(g) ==
  LET d == wfDriver[g] IN
  /\ d.pc = "calling"
  /\ \/ /\ d.aborted
        /\ AbortEnds(g)
        /\ UNCHANGED <<wfMemory, wfFile, wfKept>>
     \/ /\ ~d.aborted
        /\ \E answer \in AgentResults :
             LET j == Append(d.journal, answer) IN
             /\ wfDriver' = [wfDriver EXCEPT ![g] = [@ EXCEPT !.pc = "ready", !.journal = j]]
             /\ wfFile' = j /\ wfMemory' = <<j>>
             /\ wfKept' = IF answer = "ok" THEN wfKept \cup {Len(j)} ELSE wfKept
        /\ Sound
        /\ UNCHANGED <<wfRun, wfManifest, wfRights>>
     \/ /\ ~d.aborted
        /\ Faulty
        /\ wfDriver' = [wfDriver EXCEPT ![g] = NoDriver]
        /\ wfRights' = FALSE
        /\ wfRun' = [wfRun EXCEPT !.outcome = "failed", !.resumable = TRUE]
        /\ wfManifest' = [status |-> "failed", budget |-> wfRun.budget]
        /\ UNCHANGED <<wfMemory, wfFile, wfKept>>
  /\ UNCHANGED wfReloads

\* stop: the run is cancelled at once, and its driver told.
StopWorkflow ==
  /\ wfRun.known
  /\ wfRun.outcome \in {"none", "paused", "budget_limited"}
  /\ Concluded("cancelled", TRUE)
  /\ wfDriver' = [g \in 1 .. MaxDrivers |->
                    IF g = wfRun.epoch /\ wfDriver[g].pc # "off"
                    THEN [wfDriver[g] EXCEPT !.aborted = TRUE] ELSE wfDriver[g]]
  /\ UNCHANGED <<wfMemory, wfFile, wfRights, wfKept, wfReloads>>

\* The turn that started or resumed the run is stopped: its signal is the driver's as well.
StopTurn ==
  /\ \E g \in 1 .. MaxDrivers :
       /\ wfDriver[g].pc # "off" /\ ~wfDriver[g].aborted
       /\ wfDriver' = [wfDriver EXCEPT ![g].aborted = TRUE]
  /\ UNCHANGED <<wfRun, wfManifest, wfMemory, wfFile, wfRights, wfKept, wfFaults, wfReloads>>

\* A reload, and restoreRuns: a run that was active is interrupted.
ReloadRuns ==
  /\ wfReloads < MaxWfReloads
  /\ wfReloads' = wfReloads + 1
  /\ wfDriver' = [g \in 1 .. MaxDrivers |-> NoDriver]
  /\ wfMemory' = <<>> /\ wfRights' = FALSE
  /\ LET status == IF wfManifest.status = "active" THEN "interrupted" ELSE wfManifest.status IN
       /\ wfManifest' = [wfManifest EXCEPT !.status = status]
       /\ wfRun' = [known |-> status # "absent", epoch |-> 0, resumable |-> status \in CanResume,
                    budget |-> wfManifest.budget,
                    outcome |-> IF status = "absent" THEN "none" ELSE status]
  /\ UNCHANGED <<wfFile, wfKept, wfFaults>>

WorkflowNext ==
  \/ Start \/ Resume \/ StopWorkflow \/ StopTurn \/ ReloadRuns
  \/ \E g \in 1 .. MaxDrivers : Evaluate(g) \/ HostAnswers(g)

WorkflowSpec == WorkflowInit /\ [][WorkflowNext]_wfVars

-----------------------------------------------------------------------------
\* An agent whose result was journaled is not run again, whatever is stopped, resumed,
\* reloaded or fails to be written (drive, load, pruneTrailingHostError).
JournaledIsNotRepeated ==
  \A g \in 1 .. MaxDrivers :
    wfDriver[g].pc = "calling" /\ ~wfDriver[g].aborted => Len(wfDriver[g].journal) + 1 \notin wfKept

\* The agents a run has used stay within the budget it was last given (run, drive).
JournalWithinBudget == wfRun.known => Len(wfFile) <= wfRun.budget

\* A run that is under way keeps what it may do: an agent of a built-in workflow may fork
\* the context as long as its run is driven (beginExecution, endExecution).
\* It does not hold: the rights go with the first of two drivers of a run that ends.
DrivenRunKeepsItsRights ==
  wfRun.known /\ wfRun.outcome = "none" /\ (\E g \in 1 .. MaxDrivers : wfDriver[g].pc # "off")
    => wfRights

\* "The in-memory interrupted state remains authoritative" (grok-build-workflows.ts:287).
\* It does not hold of the code.
InterruptedStays ==
  [][wfRun.outcome = "interrupted" /\ wfReloads' = wfReloads => wfRun'.outcome = "interrupted"]_wfVars
=============================================================================
