-------------------------------- MODULE Panel --------------------------------
(***************************************************************************)
(* How the daemon keeps a panel current: pushNow and schedulePush of       *)
(* daemon.ts, the patch log of widget-delivery.ts and the guest that polls *)
(* it (widget/overlay-transport.ts).                                       *)
(*                                                                         *)
(* The state pushed is two revisions: the conversation's, which only a     *)
(* "full" push carries, and that of the rest (rows, startup phase, errors, *)
(* attention), which an "inventory" push carries too.  A push whose        *)
(* fingerprint was queued before is skipped; pushes go out one at a time.  *)
(***************************************************************************)
EXTENDS Integers, Sequences, SequencesExt

CONSTANTS
  PatchLog,       \* PATCH_LOG, 500 in the code
  MaxRevisions,   \* bound on the revisions of either part
  MaxMounts,      \* bound on mounts of the guest
  MaxPushFaults   \* bound on pushes that fail

ASSUME PanelAssumption ==
  /\ {PatchLog, MaxRevisions} \subseteq Nat \ {0}
  /\ {MaxMounts, MaxPushFaults} \subseteq Nat

VARIABLES
  talk, rows,          \* the revisions: of the conversation, and of everything else
  startup,             \* connecting | starting | ready
  debounce,            \* whether the push of a controller's revision is scheduled
  lastQueued, lastInventory, \* the fingerprints of the state and of its inventory part
  outgoing,            \* inFlight: the deliveries under way, the first being pushed
  log, seqNo,          \* patches kept, and the number of the last one
  guestSince,          \* the last patch the guest has read, NotStarted before its first poll
  guest,               \* the revisions the guest shows, 0 for none
  asking,              \* "mounted" intents on their way
  lost,                \* history: of the two parts, those a failed push may have left behind
  sent,                \* history: what a guest that reads every patch shows
  mounts, pushFaults

daemonSide == <<talk, rows, startup, debounce, lastQueued, lastInventory, outgoing>>
guestSide  == <<guestSince, guest, asking, mounts>>
patchLog   == <<log, seqNo>>
panelVars  == <<daemonSide, guestSide, patchLog, lost, sent, pushFaults>>

NotStarted == -1
NotQueued  == -1
NoState    == <<NotQueued, NotQueued>>

Revisions  == 0 .. MaxRevisions
Deliveries == [full : BOOLEAN, talk : Revisions, rows : Revisions]

PanelTypeOK ==
  /\ {talk, rows} \subseteq Revisions
  /\ startup \in {"connecting", "starting", "ready"}
  /\ debounce \in BOOLEAN /\ lost \subseteq {"rows", "talk"}
  /\ lastQueued \in {NoState} \cup (Revisions \X Revisions)
  /\ lastInventory \in {NotQueued} \cup Revisions
  /\ outgoing \in Seq(Deliveries)
  /\ log \in Seq(Deliveries) /\ Len(log) <= PatchLog
  /\ guestSince \in NotStarted .. seqNo
  /\ {guest, sent} \subseteq [talk : Revisions, rows : Revisions]
  /\ asking \in 0 .. 2

PanelInit ==
  /\ talk = 1 /\ rows = 1 /\ startup = "connecting" /\ debounce = FALSE
  /\ lastQueued = NoState /\ lastInventory = NotQueued
  /\ outgoing = <<>> /\ log = <<>> /\ seqNo = 0
  /\ guestSince = NotStarted /\ guest = [talk |-> 0, rows |-> 0] /\ asking = 0
  /\ lost = {} /\ sent = guest /\ mounts = 0 /\ pushFaults = 0

-----------------------------------------------------------------------------
\* The state as it is now, and pushNow of it: a push that is forced, or of rows that changed,
\* is queued in any case.
State == <<talk', rows'>>

Queue(scope) ==
  /\ lastQueued' = State
  /\ lastInventory' = rows'
  /\ outgoing' = Append(outgoing, [full |-> scope = "full", talk |-> talk', rows |-> rows'])
  /\ lost' = lost \ {"rows"}

PushNow ==
  IF lastQueued = State
    THEN lost' = lost \ {"rows"} /\ UNCHANGED <<lastQueued, lastInventory, outgoing>>
    ELSE Queue("full")

\* A controller's revision schedules a push, a revision of the inventory makes one.
ControllerRevises ==
  /\ talk < MaxRevisions
  /\ talk' = talk + 1
  /\ debounce' = TRUE
  /\ UNCHANGED <<rows, startup, lastQueued, lastInventory, outgoing, guestSide, patchLog, lost,
                 sent, pushFaults>>

DebounceEnds ==
  /\ debounce
  /\ debounce' = FALSE
  /\ UNCHANGED <<talk, rows, startup, guestSide, patchLog, sent, pushFaults>>
  /\ PushNow

CatalogPublishes ==
  /\ rows < MaxRevisions
  /\ rows' = rows + 1
  /\ UNCHANGED <<talk, startup, debounce, guestSide, patchLog, sent, pushFaults>>
  /\ Queue("inventory")

\* Most intents end with a push, also when they changed nothing.
PushAgain ==
  /\ lost # {}
  /\ UNCHANGED <<talk, rows, startup, debounce, guestSide, patchLog, sent, pushFaults>>
  /\ PushNow

\* startDaemon pushes before and after the slow start of the controller.
StartupGoesOn ==
  /\ startup # "ready" /\ rows < MaxRevisions
  /\ startup' = IF startup = "connecting" THEN "starting" ELSE "ready"
  /\ rows' = rows + 1
  /\ UNCHANGED <<talk, debounce, guestSide, patchLog, sent, pushFaults>>
  /\ Queue("full")

\* A guest that mounted, or fell behind, asks; a panel that opens is answered alike.
Mounted ==
  /\ asking > 0
  /\ asking' = asking - 1
  /\ UNCHANGED <<talk, rows, startup, debounce, guestSince, guest, mounts, patchLog, sent, pushFaults>>
  /\ Queue("full")

-----------------------------------------------------------------------------
\* A patch shown over what was there.
Shown(g, d) == IF d.full THEN [talk |-> d.talk, rows |-> d.rows] ELSE [g EXCEPT !.rows = d.rows]

\* push numbers the patch and keeps the last PatchLog of them.
LastOf(s, n) == IF n > Len(s) THEN s ELSE SubSeq(s, Len(s) - n + 1, Len(s))

\* The first of what is under way goes next: one push ends before another begins.
AnyOut  == 1 .. Len(outgoing)
NextOut == IF outgoing = <<>> THEN {} ELSE {1}

Delivered ==
  \E i \in NextOut :
    /\ log' = LastOf(Append(log, outgoing[i]), PatchLog)
    /\ seqNo' = seqNo + 1
    /\ outgoing' = RemoveAt(outgoing, i)
    /\ sent' = Shown(sent, outgoing[i])
    /\ lost' = IF outgoing[i].full THEN lost \ {"talk"} ELSE lost
    /\ UNCHANGED <<talk, rows, startup, debounce, lastQueued, lastInventory, guestSide,
                   pushFaults>>

\* A push that failed may be made again: its fingerprints are forgotten.
Remembered(d) == UNCHANGED <<lastQueued, lastInventory>>
Forgotten(d) ==
  /\ lastQueued' = IF lastQueued = <<d.talk, d.rows>> THEN NoState ELSE lastQueued
  /\ lastInventory' = IF lastInventory = d.rows THEN NotQueued ELSE lastInventory

PushFails ==
  /\ outgoing # <<>> /\ pushFaults < MaxPushFaults
  /\ pushFaults' = pushFaults + 1
  /\ Forgotten(Head(outgoing))
  /\ outgoing' = Tail(outgoing)
  /\ lost' = {"rows", "talk"}
  /\ UNCHANGED <<talk, rows, startup, debounce, guestSide, patchLog, sent>>

-----------------------------------------------------------------------------
\* The guest's page is loaded anew: it holds its intents until its first poll.
GuestMounts ==
  /\ mounts < MaxMounts
  /\ mounts' = mounts + 1
  /\ guestSince' = NotStarted
  /\ guest' = [talk |-> 0, rows |-> 0]
  /\ UNCHANGED <<asking, daemonSide, patchLog, lost, sent, pushFaults>>

\* Whether the patches after the guest's last one are no longer all kept.
BehindByMore == guestSince < seqNo - Len(log) - 1
FellBehind == guestSince < seqNo - Len(log)

\* A poll's first answer is where the log stands, as is that of a guest that fell behind;
\* both then ask for the whole state.
PollStarts ==
  /\ guestSince = NotStarted \/ FellBehind
  /\ asking < 2
  /\ guestSince' = seqNo
  /\ asking' = asking + 1
  /\ UNCHANGED <<guest, mounts, daemonSide, patchLog, lost, sent, pushFaults>>

\* The patches after the guest's last one are shown one over the other, which leaves the rows of
\* the last, and the conversation of the last that had one.
Unread == {i \in 1 .. Len(log) : i > Len(log) - (seqNo - guestSince)}
Fulls  == {i \in Unread : log[i].full}

PollAnswers ==
  /\ guestSince # NotStarted /\ ~FellBehind
  /\ seqNo > guestSince
  /\ guestSince' = seqNo
  /\ guest' = [talk |-> IF Fulls = {} THEN guest.talk ELSE log[Max(Fulls)].talk,
               rows |-> log[Len(log)].rows]
  /\ UNCHANGED <<asking, mounts, daemonSide, patchLog, lost, sent, pushFaults>>

PanelNext ==
  \/ ControllerRevises \/ DebounceEnds \/ CatalogPublishes \/ PushAgain \/ StartupGoesOn \/ Mounted
  \/ Delivered \/ PushFails \/ GuestMounts \/ PollStarts \/ PollAnswers

PanelSpec == PanelInit /\ [][PanelNext]_panelVars

-----------------------------------------------------------------------------
\* What a guest shows never gives way to something older while it is mounted, whatever was
\* pushed, skipped, lost or asked for again.
GuestNeverGoesBack ==
  [][guestSince' # NotStarted => guest'.talk >= guest.talk /\ guest'.rows >= guest.rows]_panelVars

Quiet ==
  /\ outgoing = <<>> /\ ~debounce /\ asking = 0
  /\ guestSince = seqNo /\ lastInventory # NotQueued

\* When nothing is on its way any more the guest shows the rows as they are, also if pushes
\* failed and were made again, and the conversation as it was last sent, also if the guest
\* mounted or fell behind the log meanwhile.
QuietGuestIsCurrent ==
  Quiet => /\ "rows" \notin lost => guest.rows = rows
           /\ "talk" \notin lost => guest.talk = sent.talk

\* ... and the conversation as it is.
\* It does not hold: a push of the rows alone counts the conversation as queued.
QuietTalkIsCurrent == Quiet /\ lost = {} => guest.talk = talk
=============================================================================
