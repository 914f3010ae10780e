---------------------------- MODULE TerminalMoves ----------------------------
(***************************************************************************)
(* The daemon's queue of sessions to move from a native terminal into an   *)
(* owned tmux one (daemon.ts, processTerminalMove and the two intents that *)
(* fill and cancel the queue).  One session is moved at a time, and only   *)
(* with a proof that it is idle; the awaits of a move leave the person     *)
(* time to cancel it, and the session time to change.                      *)
(***************************************************************************)
EXTENDS Naturals, FiniteSets, Sequences, SequencesExt

CONSTANTS Sessions, NoSession, MaxToggles, MaxChanges

ASSUME MovesAssumption ==
  /\ IsFiniteSet(Sessions) /\ NoSession \notin Sessions
  /\ MaxToggles \in Nat /\ MaxChanges \in Nat

VARIABLES
  moves,       \* terminalMoves: its keys in the order of the map
  moving,      \* those whose status is "moving", the others are "waiting"
  mover,       \* the session of the move in flight, or NoSession
  moverAt,     \* where that move stands: off | refreshing | proving | moving
  retry,       \* whether the retry timer is set
  activity,    \* per session, what the last inventory says of it
  moved,       \* sessions moved
  daemonStopped,
  wanted,      \* history: the sessions the person last asked to move
  toggles, changes

moveVars   == <<moves, moving, mover, moverAt, retry, activity, moved, daemonStopped, wanted,
                toggles, changes>>
bounds     == <<toggles, changes>>

\* idle and persisted (not running) sessions may be moved, a busy one later; one that left
\* the inventory, or that no native terminal shows, not at all.
Activities == {"idle", "persisted", "busy", "gone", "hidden"}
Ready(a)   == a \in {"idle", "persisted"}
Movable(a) == a \in {"idle", "persisted", "busy"}

Waiting(q) == {k \in Range(q) : k \notin moving}

MovesTypeOK ==
  /\ moves \in Seq(Sessions) /\ IsInjective(moves)
  /\ moving \subseteq Range(moves)
  /\ mover \in Sessions \cup {NoSession}
  /\ moverAt \in {"off", "refreshing", "proving", "moving"}
  /\ retry \in BOOLEAN /\ daemonStopped \in BOOLEAN
  /\ activity \in [Sessions -> Activities]
  /\ moved \subseteq Sessions /\ wanted \subseteq Sessions

MovesInit ==
  /\ moves = <<>> /\ moving = {} /\ mover = NoSession /\ moverAt = "off"
  /\ retry = FALSE /\ daemonStopped = FALSE
  /\ activity \in [Sessions -> {"idle", "busy"}]
  /\ moved = {} /\ wanted = {} /\ toggles = 0 /\ changes = 0

-----------------------------------------------------------------------------
\* The sessions of q that are among these, in their order.
Those(q, these) ==
  LET kept[i \in 0 .. Len(q)] ==
        IF i = 0 THEN <<>> ELSE IF q[i] \in these THEN Append(kept[i - 1], q[i]) ELSE kept[i - 1]
  IN kept[Len(q)]

\* The map's set and delete: a key that is there keeps its place.
Enqueued(q, k) == IF k \in Range(q) THEN q ELSE Append(q, k)
Without(q, ks) == Those(q, Sessions \ ks)

\* The scan takes the first waiting session that may be moved now, and drops the ones before
\* it that never can; with none to take it tries again in a second.
Scan(q, timer) ==
  LET waiting == Those(q, Sessions \ moving')
      ready   == {i \in 1 .. Len(waiting) : Ready(activity'[waiting[i]])}
      first   == CHOOSE i \in ready : \A j \in ready : i <= j
      passed  == IF ready = {} THEN Range(waiting) ELSE {waiting[i] : i \in 1 .. first}
  IN /\ moves' = Without(q, {k \in passed : ~Movable(activity'[k])})
     /\ mover' = IF ready = {} THEN NoSession ELSE waiting[first]
     /\ moverAt' = IF ready = {} THEN "off" ELSE "refreshing"
     /\ retry' = (timer \/ (ready = {} /\ moves' # <<>> /\ ~daemonStopped'))

\* processTerminalMove: nothing while a move is in flight.
Process(q, timer) ==
  IF moverAt # "off" \/ q = <<>>
  THEN moves' = q /\ retry' = timer /\ UNCHANGED <<mover, moverAt>>
  ELSE Scan(q, timer)

\* A move is over: the next one begins.
EndOnly(q, timer)   == moves' = q /\ mover' = NoSession /\ moverAt' = "off" /\ retry' = timer
AfterMove(q, timer) == IF q = <<>> THEN EndOnly(q, timer) ELSE Scan(q, timer)

\* An error ends the move of its session for good.
GivesUp == wanted' = wanted \ {mover} /\ AfterMove(Without(moves, {mover}), retry)

-----------------------------------------------------------------------------
\* The person asks to move the session on show, or takes that back while it waits.
MoveToTerminal(k) ==
  /\ ~daemonStopped /\ toggles < MaxToggles
  /\ toggles' = toggles + 1
  /\ k \notin moving /\ k \notin moved
  /\ UNCHANGED <<moving, activity, moved, daemonStopped, changes>>
  /\ IF k \in Range(moves)
     THEN wanted' = wanted \ {k} /\ Process(Without(moves, {k}), retry)
     ELSE wanted' = wanted \cup {k} /\ Process(Append(moves, k), retry)

\* The person asks to move everything that can be, or takes back all that waits.
MoveAllToTerminal ==
  /\ ~daemonStopped /\ toggles < MaxToggles
  /\ toggles' = toggles + 1
  /\ UNCHANGED <<moving, activity, moved, daemonStopped, changes>>
  /\ IF Waiting(moves) # {}
     THEN /\ wanted' = wanted \ Waiting(moves)
          /\ moves' = Without(moves, Waiting(moves))
          /\ UNCHANGED <<mover, moverAt, retry>>
     ELSE /\ moving = {}
          /\ LET candidates == {k \in Sessions : Movable(activity[k]) /\ k \notin moved}
             IN wanted' = wanted \cup candidates /\ Process(SetToSeq(candidates), retry)

\* The catalog publishes an inventory in which a session has changed.
InventoryChanges(k, a) ==
  /\ changes < MaxChanges
  /\ changes' = changes + 1
  /\ a # activity[k]
  /\ activity' = [activity EXCEPT ![k] = a]
  /\ UNCHANGED <<moving, moved, daemonStopped, wanted, toggles>>
  /\ IF daemonStopped THEN UNCHANGED <<moves, mover, moverAt, retry>> ELSE Process(moves, retry)

RetryFires ==
  /\ retry
  /\ UNCHANGED <<moving, activity, moved, daemonStopped, wanted, bounds>>
  /\ Process(moves, FALSE)

-----------------------------------------------------------------------------
\* The move in flight has refreshed what it knows.  A session that is busy again (or left the
\* list) goes on waiting, one whose terminal is gone is given up.
Rechecked ==
  /\ moverAt = "refreshing"
  /\ UNCHANGED <<moving, activity, moved, daemonStopped, bounds>>
  /\ \/ /\ activity[mover] \in {"busy", "gone"}
        /\ Scan(Enqueued(moves, mover), retry \/ ~daemonStopped)
        /\ UNCHANGED wanted
     \/ /\ Ready(activity[mover])
        /\ moverAt' = "proving"
        /\ UNCHANGED <<moves, mover, retry, wanted>>
     \/ GivesUp

\* The terminal companion proves the session idle, or cannot (it goes on waiting).
Proved ==
  /\ moverAt = "proving"
  /\ UNCHANGED <<activity, moved, daemonStopped, bounds>>
  /\ \/ /\ UNCHANGED <<moving, wanted>>
        /\ Scan(Enqueued(moves, mover), retry \/ ~daemonStopped)
     \/ /\ mover \notin Range(moves)
        /\ UNCHANGED <<moving, wanted>>
        /\ AfterMove(moves, retry)
     \/ /\ mover \in Range(moves)
        /\ moving' = {mover} /\ moverAt' = "moving"
        /\ UNCHANGED <<moves, mover, retry, wanted>>
     \/ UNCHANGED moving /\ GivesUp

\* moveSession answers.
Moved ==
  /\ moverAt = "moving"
  /\ UNCHANGED <<activity, daemonStopped, bounds>>
  /\ moving' = {}
  /\ \/ moved' = moved \cup {mover} /\ wanted' = wanted \ {mover}
        /\ AfterMove(Without(moves, {mover}), retry)
     \/ UNCHANGED moved /\ GivesUp

Stop ==
  /\ ~daemonStopped
  /\ daemonStopped' = TRUE
  /\ retry' = FALSE
  /\ UNCHANGED <<moves, moving, mover, moverAt, activity, moved, wanted, bounds>>

MovesNext ==
  \/ \E k \in Sessions : MoveToTerminal(k) \/ \E a \in Activities : InventoryChanges(k, a)
  \/ MoveAllToTerminal \/ RetryFires \/ Rechecked \/ Proved \/ Moved \/ Stop

MovesSpec == MovesInit /\ [][MovesNext]_moveVars

-----------------------------------------------------------------------------
\* A session that waits to be moved is never forgotten: a move is in flight, whose end begins
\* the next one, or the timer is set.
WaitingIsTried ==
  Waiting(moves) # {} /\ ~daemonStopped => moverAt # "off" \/ retry

\* The person may take a move back while it waits: what they took back is not moved.
\* It does not hold (daemon.ts:1122, :1153).
CancelledIsNotMoved == moverAt = "moving" => mover \in wanted
=============================================================================
