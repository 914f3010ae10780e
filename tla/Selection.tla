------------------------------ MODULE Selection ------------------------------
(***************************************************************************)
(* Which conversation the panel shows and what an intent acts on: the      *)
(* intent handlers of daemon.ts over the pool of controllers.              *)
(*                                                                         *)
(* The pool is the SDK's: one selection is current at a time, a later one  *)
(* or a release supersedes it, a mirror is closed when it is left, and a   *)
(* controller that took control is retained under the key it was opened    *)
(* by.  Intents are handled concurrently: each await below is a state.     *)
(***************************************************************************)
EXTENDS Integers, FiniteSets

CONSTANTS
  Rows,        \* conversations, by their key
  Unborn,      \* of them, those a branch will create
  NoRow,
  MaxTaps,     \* bound on rows tapped
  MaxBranches, \* bound on branches
  MaxEpochs    \* bound on changes of what other windows run

ASSUME SelectionAssumption ==
  /\ Unborn \subseteq Rows /\ NoRow \notin Rows
  /\ {MaxTaps, MaxBranches, MaxEpochs} \subseteq Nat

VARIABLES
  listed,        \* descriptors: the rows of the inventory
  live, seenLive,\* the rows another window runs, and those the inventory shows as run
  born,          \* the branches made so far
  kept,          \* the conversation a retained controller holds, by the key it is kept under
  active,        \* controllerPool.activeKey, NoRow for the daemon's own
  attempts,      \* the attaches under way
  current,       \* the request the pool is selecting for, 0 for none
  attachRequest, attachError,
  resuming,      \* rows whose terminal launch is being prepared
  launched,      \* rows a second writer was launched for
  raced,         \* history: of those, the ones known to run elsewhere by then
  tapped,        \* history: the row tapped last,
  goesBy,        \* and the one its conversation is listed under since
  left,          \* history: whether it was given up for the daemon's own conversation
  epochs

inventory     == <<listed, live, seenLive, epochs>>
selection     == <<kept, active, attempts, current, attachRequest, attachError, tapped, goesBy, left>>
launches      == <<resuming, launched, raced>>
selectionVars == <<inventory, selection, launches, born>>

SelectionTypeOK ==
  /\ {listed, live, seenLive, born, resuming, launched, raced} \subseteq SUBSET Rows
  /\ kept \in [Rows -> Rows \cup {NoRow}]
  /\ {active, attachError, tapped, goesBy} \subseteq Rows \cup {NoRow}
  /\ attempts \subseteq [row : Rows, request : 1 .. MaxTaps]
  /\ {current, attachRequest} \subseteq 0 .. MaxTaps /\ left \in BOOLEAN

SelectionInit ==
  /\ listed = Rows \ Unborn /\ live = {} /\ seenLive = {} /\ born = {}
  /\ kept = [r \in Rows |-> NoRow] /\ active = NoRow
  /\ attempts = {} /\ current = 0 /\ attachRequest = 0 /\ attachError = NoRow
  /\ resuming = {} /\ launched = {} /\ raced = {}
  /\ tapped = NoRow /\ goesBy = NoRow /\ left = TRUE /\ epochs = 0

-----------------------------------------------------------------------------
\* A row is tapped, or a new terminal found its conversation while nothing is shown.
AttachSession(r) ==
  /\ attachRequest < MaxTaps
  /\ attachRequest' = attachRequest + 1
  /\ tapped' = r /\ goesBy' = r /\ left' = FALSE
  /\ IF r \in listed
     THEN /\ attachError' = NoRow
          /\ attempts' = attempts \cup {[row |-> r, request |-> attachRequest + 1]}
          /\ current' = attachRequest + 1
     ELSE attachError' = r /\ UNCHANGED <<attempts, current>>
  /\ UNCHANGED <<inventory, launches, born, kept, active>>

\* pushNow: the active controller is moved to the row its conversation is listed under.
Rekeyed(a, k, rows) ==
  IF a # NoRow /\ k[a] \in rows \ {a}
  THEN <<k[a], [k EXCEPT ![k[a]] = k[a], ![a] = NoRow]>>
  ELSE <<a, k>>

Push(a, rows) ==
  LET moved == Rekeyed(a, kept, rows) IN
    /\ active' = moved[1]
    /\ kept' = moved[2]
    /\ goesBy' = IF goesBy = a /\ current' = 0 THEN moved[1] ELSE goesBy

\* select resolves for the current request: retained, the daemon's own or a new mirror.  It is
\* released again if a row that is not listed was tapped meanwhile.
Selected(t) ==
  /\ t \in attempts /\ t.request = current
  /\ attempts' = attempts \ {t}
  /\ current' = 0
  /\ IF t.request = attachRequest
     THEN Push(t.row, listed)
     ELSE active' = NoRow /\ UNCHANGED <<kept, goesBy>>
  /\ UNCHANGED <<inventory, launches, born, attachRequest, attachError, tapped, left>>

\* failAttach: only the latest request may report.
FailsLate(t, e) == t.row
FailAttach(t, e) == IF t.request = attachRequest THEN t.row ELSE e

\* select throws or times out, also for a request that is no longer the pool's, or says that
\* it was superseded.
SelectThrows(t) ==
  /\ t \in attempts
  /\ attempts' = attempts \ {t}
  /\ current' = IF t.request = current THEN 0 ELSE current
  /\ attachError' = FailAttach(t, attachError)
  /\ active' = IF t.request = current THEN NoRow ELSE active
  /\ UNCHANGED <<inventory, launches, born, kept, attachRequest, tapped, goesBy, left>>

Superseded(t) ==
  /\ t \in attempts /\ t.request # current
  /\ attempts' = attempts \ {t}
  /\ UNCHANGED <<inventory, launches, born, kept, active, current, attachRequest, attachError, tapped, goesBy, left>>

\* The release intent, and the start of a new chat, which counts as a request too.
Release ==
  /\ active # NoRow \/ current # 0 \/ attachError # NoRow
  /\ active' = NoRow /\ current' = 0 /\ left' = TRUE
  /\ attachError' = NoRow
  /\ UNCHANGED <<inventory, launches, born, kept, attempts, attachRequest, tapped, goesBy>>

New ==
  /\ attachRequest < MaxTaps
  /\ attachRequest' = attachRequest + 1
  /\ active' = NoRow /\ current' = 0 /\ left' = TRUE
  /\ UNCHANGED <<inventory, launches, born, kept, attempts, attachError, tapped, goesBy>>

-----------------------------------------------------------------------------
Mirror == active # NoRow /\ kept[active] = NoRow

\* resume, headless: the mirror takes control of a conversation nobody runs.
ResumeHeadless ==
  /\ Mirror /\ active \notin seenLive
  /\ kept' = [kept EXCEPT ![active] = active]
  /\ UNCHANGED <<inventory, launches, born, active, attempts, current, attachRequest, attachError, tapped, goesBy, left>>

\* resume, in a terminal: the checks, then the instructions are awaited, then the launch.
ResumeInTerminal ==
  /\ Mirror /\ active \notin seenLive \cup resuming \cup launched
  /\ resuming' = resuming \cup {active}
  /\ UNCHANGED <<inventory, selection, born, launched, raced>>

Launched ==
  \E r \in resuming :
    /\ resuming' = resuming \ {r}
    /\ launched' = launched \cup {r}
    /\ raced' = IF r \in seenLive THEN raced \cup {r} ELSE raced
    /\ UNCHANGED <<inventory, selection, born>>

\* branch, reduce: the controller goes on with a conversation of its own, not listed yet.
Branch ==
  /\ Mirror /\ Cardinality(born) < MaxBranches
  /\ \E b \in Unborn \ born :
       /\ born' = born \cup {b}
       /\ kept' = [kept EXCEPT ![active] = b]
  /\ UNCHANGED <<inventory, launches, active, attempts, current, attachRequest, attachError, tapped, goesBy, left>>

\* join takes control of a shared conversation for a while, detach gives it back.
Detach ==
  /\ active # NoRow /\ kept[active] = active
  /\ kept' = [kept EXCEPT ![active] = NoRow]
  /\ UNCHANGED <<inventory, launches, born, active, attempts, current, attachRequest, attachError, tapped, goesBy, left>>

\* Another window starts or leaves a conversation; the catalog finds what there is.
WindowsChange ==
  /\ epochs < MaxEpochs
  /\ epochs' = epochs + 1
  /\ \E r \in Rows \ Unborn : live' = (live \cup {r}) \ (live \cap {r})
  /\ UNCHANGED <<listed, seenLive, selection, launches, born>>

CatalogLists ==
  /\ listed' = (Rows \ Unborn) \cup born
  /\ seenLive' = live
  /\ <<listed', seenLive'>> # <<listed, seenLive>>
  /\ UNCHANGED <<live, epochs, launches, born, attempts, current, attachRequest, attachError,
                 tapped, left>>
  /\ Push(active, listed')

SelectionNext ==
  \/ \E r \in Rows : AttachSession(r)
  \/ \E t \in attempts : Selected(t) \/ SelectThrows(t) \/ Superseded(t)
  \/ Release \/ New \/ ResumeHeadless \/ ResumeInTerminal \/ Launched \/ Branch \/ Detach
  \/ WindowsChange \/ CatalogLists

SelectionSpec == SelectionInit /\ [][SelectionNext]_selectionVars

-----------------------------------------------------------------------------
\* Once nothing is being opened the panel shows the conversation of the row that was tapped last
\* or says why it does not, and never an error about a row that was given up for another.
LastTapSettles ==
  /\ attachError \in {tapped, NoRow}
  /\ current = 0 /\ ~left => active = goesBy \/ attachError = tapped

\* daemon.ts:703: a conversation a controller of the pool runs is never opened as a mirror.
\* It does not hold of the code.
NoDuplicateMirror == Mirror => \A r \in Rows : kept[r] # active

\* daemon.ts:1611: no second writer is launched for a conversation known to run elsewhere.
\* It does not hold of the code.
NeverRaces == raced = {}
=============================================================================
