------------------------------ MODULE AgentTurns ------------------------------
(***************************************************************************)
(* The turns of the browser agent's conversation: main.ts, which starts    *)
(* them for a person, for a background completion (grok-build-auto-wake.ts)*)
(* and for a scheduled prompt, the messages typed meanwhile                *)
(* (grok-build-prompt-queue.ts), and the loop of one turn                  *)
(* (grok-build-agent.ts).                                                  *)
(*                                                                         *)
(* All share one session and one `activeRun`.  A turn stands at an await:  *)
(* "prep" before its prompt is in the transcript, "loop" while it may      *)
(* compact, "sampling", "tools" until each call of the sample has its      *)
(* output, and "closing" during the summary of a finished turn.            *)
(***************************************************************************)
EXTENDS Naturals, FiniteSets, Sequences

CONSTANTS
  Wakes,         \* prompt ids of background completions, each enqueued once
  NoActor,
  MaxSamples,    \* maxTurns of a session, 100 in the code
  MaxTyped,      \* bound on the messages a person types
  MaxScheduledPrompts,  \* bound on scheduled prompts
  MaxResets,     \* bound on resets of the project
  MaxReloads     \* bound on reloads of the page

Actors == {"person", "wake", "scheduler"}

ASSUME TurnsAssumption ==
  /\ NoActor \notin Actors
  /\ {MaxSamples, MaxTyped, MaxScheduledPrompts, MaxResets, MaxReloads} \subseteq Nat

VARIABLES
  turn,          \* per actor, where its turn stands
  samples,       \* per actor, the samples of its turn
  turnSession,   \* per actor, the session its turn works on
  activeRun,     \* the actor whose controller main.ts holds
  aborted,       \* actors whose turn was aborted
  waiter,        \* per actor but the person: none | waiting | ready, for the agent to be idle
  wakeQueue,     \* completions still to be told in a turn of their own
  waking,        \* the completion the drain has taken from the queue, until its turn is over
  drainOf,       \* the generation the drain began in
  enqueued,      \* completions enqueued so far
  foreground,    \* scheduled prompts not begun
  typed, queued, interjections, \* messages typed so far, and those not yet in the transcript
  session,       \* number of the current session
  hasSession,    \* whether agentSession is set
  resetting,     \* whether resetProject stands at its first await
  unanswered,    \* actors whose calls in the transcript lack outputs; "saved" ones never get any
  savedOpen,     \* whether the last checkpoint holds such calls
  scheduledSoFar, reloads

messages    == <<typed, queued, interjections>>
transcript  == <<unanswered, savedOpen>>
wakeVars    == <<wakeQueue, waking, drainOf, enqueued>>
schedPrompts == <<foreground, scheduledSoFar>>
sessionVars == <<session, hasSession, resetting, reloads>>
runVars     == <<samples, activeRun, aborted, waiter, waking>>
turnVars    == <<turn, samples, turnSession, activeRun, aborted, waiter>>
agentVars   == <<turnVars, wakeVars, schedPrompts, messages, sessionVars, transcript>>

Stands == {"off", "prep", "loop", "sampling", "tools", "closing"}

TurnsTypeOK ==
  /\ turn \in [Actors -> Stands]
  /\ samples \in [Actors -> 0 .. MaxSamples]
  /\ turnSession \in [Actors -> 0 .. MaxResets]
  /\ activeRun \in Actors \cup {NoActor}
  /\ aborted \subseteq Actors
  /\ waiter \in [Actors -> {"none", "waiting", "ready"}]
  /\ wakeQueue \in Seq(Wakes) /\ waking \subseteq Wakes
  /\ enqueued \subseteq Wakes
  /\ drainOf \in 0 .. MaxResets
  /\ foreground \in 0 .. MaxScheduledPrompts
  /\ {queued, interjections} \subseteq 0 .. MaxTyped
  /\ session \in 0 .. MaxResets
  /\ unanswered \subseteq Actors \cup {"saved"}

TurnsInit ==
  /\ turn = [a \in Actors |-> "off"]
  /\ samples = [a \in Actors |-> 0]
  /\ turnSession = [a \in Actors |-> 0]
  /\ activeRun = NoActor
  /\ aborted = {}
  /\ waiter = [a \in Actors |-> "none"]
  /\ wakeQueue = <<>> /\ waking = {} /\ drainOf = 0
  /\ enqueued = {}
  /\ foreground = 0 /\ scheduledSoFar = 0
  /\ typed = 0 /\ queued = 0 /\ interjections = 0
  /\ session = 0 /\ hasSession = FALSE /\ resetting = FALSE /\ reloads = 0
  /\ unanswered = {} /\ savedOpen = FALSE

-----------------------------------------------------------------------------
\* A turn begins: its actor's controller replaces whatever activeRun held.
Begin(a) ==
  /\ turn' = [turn EXCEPT ![a] = "prep"]
  /\ samples' = [samples EXCEPT ![a] = 0]
  /\ turnSession' = [turnSession EXCEPT ![a] = session]
  /\ activeRun' = a
  /\ aborted' = aborted \ {a}

\* A turn ends: activeRun is cleared whoever holds it, and everyone who waits is let go.
ReleasedOne ==
  IF waiter["scheduler"] = "waiting" THEN [waiter EXCEPT !["scheduler"] = "ready"]
  ELSE IF waiter["wake"] = "waiting" THEN [waiter EXCEPT !["wake"] = "ready"] ELSE waiter
Released == [a \in Actors |-> IF waiter[a] = "waiting" THEN "ready" ELSE waiter[a]]

Ends(a) ==
  /\ turn' = [turn EXCEPT ![a] = "off"]
  /\ activeRun' = NoActor
  /\ waiter' = Released
  /\ waking' = IF a = "wake" THEN {} ELSE waking
  /\ samples' = [samples EXCEPT ![a] = 0]
  /\ aborted' = aborted \ {a}

\* drain goes on with what is queued.  It and whoever was let go run before any other
\* event (a click, an answer, the end of a task): they are promise continuations.
DrainPending == wakeQueue # <<>> /\ waking = {}
ForegroundPending == foreground > 0 /\ turn["scheduler"] = "off" /\ waiter["scheduler"] = "none"
Calm == ~DrainPending /\ ~ForegroundPending /\ \A a \in Actors : waiter[a] # "ready"

\* The person submits a message: a turn if no run is active, else sent at once or queued.
Submit ==
  /\ Calm
  /\ typed < MaxTyped
  /\ typed' = typed + 1
  /\ \/ /\ activeRun = NoActor
        /\ turn["person"] = "off"
        /\ Begin("person")
        /\ hasSession' = TRUE
        /\ UNCHANGED <<queued, interjections, waiter>>
     \/ /\ activeRun # NoActor
        /\ \/ queued' = queued + 1 /\ UNCHANGED interjections
           \/ interjections' = interjections + 1 /\ UNCHANGED queued
        /\ UNCHANGED <<turnVars, hasSession>>
  /\ UNCHANGED <<wakeVars, schedPrompts, session, resetting, reloads, transcript>>

\* Stop aborts the run main.ts holds.
Stop ==
  /\ Calm
  /\ activeRun # NoActor
  /\ aborted' = aborted \cup {activeRun}
  /\ UNCHANGED <<turn, samples, turnSession, activeRun, waiter, wakeVars, schedPrompts,
                 messages, sessionVars, transcript>>

-----------------------------------------------------------------------------
\* One turn.  runInternal puts the prompt in the transcript and enters its loop.
Prompted(a) ==
  /\ Calm
  /\ turn[a] = "prep"
  /\ turn' = [turn EXCEPT ![a] = "loop"]
  /\ UNCHANGED <<samples, turnSession, activeRun, aborted, waiter, wakeVars, schedPrompts,
                 messages, sessionVars, transcript>>

Current(a) == turnSession[a] = session

\* maybeCompact is through (it may have replaced the old transcript); what is typed to be
\* heard at once goes in, and the model is sampled.
Sample(a) ==
  /\ Calm
  /\ turn[a] = "loop"
  /\ a \notin aborted
  /\ turn' = [turn EXCEPT ![a] = "sampling"]
  /\ samples' = [samples EXCEPT ![a] = @ + 1]
  /\ interjections' = 0
  /\ \/ UNCHANGED unanswered
     \/ Current(a) /\ "saved" \in unanswered /\ unanswered' = unanswered \ {"saved"}
  /\ UNCHANGED <<turnSession, activeRun, aborted, waiter, wakeVars, schedPrompts, typed,
                 queued, sessionVars, savedOpen>>

\* The transcript is saved, unless a reset began since the session was made.
Checkpoint(a) ==
  savedOpen' = IF Current(a) /\ ~resetting THEN unanswered' # {} ELSE savedOpen

\* The answer joins the transcript: with calls, or as the last of the turn unless more was
\* typed meanwhile.  What was typed during the last sample allowed makes the loop run out.
Answered(a) ==
  /\ Calm
  /\ turn[a] = "sampling"
  /\ \/ /\ unanswered' = IF Current(a) THEN unanswered \cup {a} ELSE unanswered
        /\ turn' = [turn EXCEPT ![a] = "tools"]
        /\ UNCHANGED <<interjections, runVars>>
     \/ /\ interjections' = 0
        /\ UNCHANGED unanswered
        /\ \/ /\ interjections = 0
              /\ turn' = [turn EXCEPT ![a] = "closing"]
              /\ UNCHANGED runVars
           \/ /\ interjections > 0 /\ samples[a] < MaxSamples
              /\ turn' = [turn EXCEPT ![a] = "loop"]
              /\ UNCHANGED runVars
           \/ /\ interjections > 0 /\ samples[a] = MaxSamples
              /\ Ends(a)
  /\ Checkpoint(a)
  /\ UNCHANGED <<turnSession, wakeQueue, drainOf, enqueued, schedPrompts, typed, queued,
                 sessionVars>>

\* Each call has its output, an error when it was aborted; at the limit the turn is over.
ToolsDone(a) ==
  /\ Calm
  /\ turn[a] = "tools"
  /\ unanswered' = unanswered \ {a}
  /\ turn' = [turn EXCEPT ![a] = IF samples[a] = MaxSamples THEN "closing" ELSE "loop"]
  /\ Checkpoint(a)
  /\ UNCHANGED <<samples, turnSession, activeRun, aborted, waiter, wakeVars, schedPrompts,
                 messages, sessionVars>>

\* A turn fails where it awaits something but its tools, and must once it was aborted.
Fail(a) ==
  /\ Calm
  /\ turn[a] \in {"prep", "loop", "sampling"}
  /\ Ends(a)
  /\ UNCHANGED <<turnSession, wakeQueue, drainOf, enqueued, schedPrompts, messages,
                 sessionVars, transcript>>

\* The turn's summary is on its way: a person's run goes on with everything queued (and
\* dies of it when another turn has cleared activeRun), else the turn ends.
Close(a) ==
  /\ Calm
  /\ turn[a] = "closing"
  /\ queued' = IF a = "person" THEN 0 ELSE queued
  /\ IF a = "person" /\ queued > 0 /\ activeRun # NoActor
     THEN /\ turn' = [turn EXCEPT ![a] = "prep"]
          /\ samples' = [samples EXCEPT ![a] = 0]
          /\ UNCHANGED <<activeRun, aborted, waiter, waking>>
     ELSE Ends(a)
  /\ UNCHANGED <<turnSession, wakeQueue, drainOf, enqueued, schedPrompts, typed,
                 interjections, sessionVars, transcript>>

-----------------------------------------------------------------------------
\* enqueue, when a background task of this session has ended.
EnqueueWake(w) ==
  /\ Calm
  /\ hasSession
  /\ w \notin enqueued
  /\ wakeQueue' = Append(wakeQueue, w)
  /\ enqueued' = enqueued \cup {w}
  /\ UNCHANGED <<turnVars, waking, drainOf, schedPrompts, messages, sessionVars, transcript>>

\* waitForAgentIdle: a waiter goes on at once, or when the run that is active is over.
Waits(a) == waiter' = [waiter EXCEPT ![a] = IF activeRun = NoActor THEN "ready" ELSE "waiting"]

\* Whether the coordinator was cleared while the drain waited.
DrainIsStale == drainOf # session

\* drain takes the next completion.  One that gave up begins anew with what came since.
DrainTakes ==
  /\ DrainPending
  /\ \A a \in Actors : waiter[a] # "ready"
  /\ waking' = {Head(wakeQueue)}
  /\ wakeQueue' = Tail(wakeQueue)
  /\ drainOf' = session
  /\ Waits("wake")
  /\ UNCHANGED <<turn, samples, turnSession, activeRun, aborted, enqueued, schedPrompts,
                 messages, sessionVars, transcript>>

\* The agent is idle: a completion of this session becomes a turn, unless its reminder was
\* given to a turn meanwhile (claimReminder finds nothing).
WakeReady ==
  /\ waiter["wake"] = "ready"
  /\ waiter' = [waiter EXCEPT !["wake"] = "none"]
  /\ \/ /\ ~DrainIsStale /\ hasSession
        /\ Begin("wake")
        /\ UNCHANGED waking
     \/ /\ waking' = {}
        /\ UNCHANGED <<turn, samples, turnSession, activeRun, aborted>>
  /\ UNCHANGED <<wakeQueue, drainOf, enqueued, schedPrompts, messages, sessionVars, transcript>>

\* The scheduler fires a prompt into the conversation; they wait in a queue of their own.
FireForeground ==
  /\ Calm
  /\ scheduledSoFar < MaxScheduledPrompts
  /\ scheduledSoFar' = scheduledSoFar + 1
  /\ foreground' = foreground + 1
  /\ UNCHANGED <<turnVars, wakeVars, messages, sessionVars, transcript>>

ForegroundWaits ==
  /\ ForegroundPending
  /\ foreground' = foreground - 1
  /\ Waits("scheduler")
  /\ UNCHANGED <<turn, samples, turnSession, activeRun, aborted, wakeVars, scheduledSoFar,
                 messages, sessionVars, transcript>>

\* It runs on whatever session there is, and fails when there is none or it was stopped.
ForegroundReady ==
  /\ waiter["scheduler"] = "ready"
  /\ waiter' = [waiter EXCEPT !["scheduler"] = "none"]
  /\ \/ hasSession /\ Begin("scheduler")
     \/ UNCHANGED <<turn, samples, turnSession, activeRun, aborted>>
  /\ UNCHANGED <<wakeVars, schedPrompts, messages, sessionVars, transcript>>

-----------------------------------------------------------------------------
\* resetProject aborts the active run and awaits the end of telemetry ...
ResetBegins ==
  /\ Calm
  /\ turn["person"] = "off"
  /\ hasSession /\ ~resetting
  /\ session < MaxResets
  /\ resetting' = TRUE
  /\ aborted' = aborted \cup ({activeRun} \ {NoActor})
  /\ UNCHANGED <<turn, samples, turnSession, activeRun, waiter, wakeVars, schedPrompts,
                 messages, session, hasSession, reloads, transcript>>

\* ... before it forgets the session and what waits for it.
ResetEnds ==
  /\ Calm
  /\ resetting
  /\ resetting' = FALSE
  /\ hasSession' = FALSE
  /\ session' = session + 1
  /\ wakeQueue' = <<>>
  /\ queued' = 0 /\ interjections' = 0
  /\ unanswered' = {} /\ savedOpen' = FALSE
  /\ UNCHANGED <<turnVars, waking, drainOf, enqueued, schedPrompts, typed, reloads>>

\* A reload ends everything but the saved transcript, which the next session begins with.
Reload ==
  /\ reloads < MaxReloads
  /\ reloads' = reloads + 1
  /\ turn' = [a \in Actors |-> "off"] /\ activeRun' = NoActor /\ aborted' = {}
  /\ waiter' = [a \in Actors |-> "none"]
  /\ wakeQueue' = <<>> /\ waking' = {}
  /\ foreground' = 0 /\ queued' = 0 /\ interjections' = 0
  /\ hasSession' = FALSE /\ resetting' = FALSE
  /\ unanswered' = IF savedOpen THEN {"saved"} ELSE {}
  /\ UNCHANGED <<samples, turnSession, drainOf, enqueued, scheduledSoFar, typed, session,
                 savedOpen>>

-----------------------------------------------------------------------------
TurnStep(a) ==
  Prompted(a) \/ Sample(a) \/ Answered(a) \/ ToolsDone(a) \/ Fail(a) \/ Close(a)

TurnsNext ==
  \/ Submit \/ Stop \/ ResetBegins \/ ResetEnds \/ Reload
  \/ \E a \in Actors : TurnStep(a)
  \/ \E w \in Wakes : EnqueueWake(w)
  \/ DrainTakes \/ WakeReady
  \/ FireForeground \/ ForegroundWaits \/ ForegroundReady

\* A turn gets its answers (or an error) and goes on, promises are continued.
TurnsFairness ==
  /\ \A a \in Actors : WF_agentVars(TurnStep(a))
  /\ WF_agentVars(DrainTakes) /\ WF_agentVars(WakeReady)
  /\ WF_agentVars(ForegroundWaits) /\ WF_agentVars(ForegroundReady)

TurnsSpec == TurnsInit /\ [][TurnsNext]_agentVars /\ TurnsFairness

-----------------------------------------------------------------------------
\* Every completion leaves the queue and its drain: it becomes a turn that ends, or there is
\* nothing left to tell.  A turn that fails or a reset under the drain does not hold it.
WakeIsServed ==
  \A w \in Wakes :
    (w \in waking \/ \E i \in 1 .. Len(wakeQueue) : wakeQueue[i] = w)
      ~> (w \notin waking /\ \A i \in 1 .. Len(wakeQueue) : wakeQueue[i] # w)

\* What a turn of the agent relies on: it is alone on its session.
OneTurnAtATime ==
  Cardinality({a \in Actors : turn[a] # "off" /\ Current(a)}) <= 1
=============================================================================
