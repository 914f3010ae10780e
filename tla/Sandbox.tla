------------------------------ MODULE Sandbox ------------------------------
(***************************************************************************)
(* The page and the frame of another origin in which the generated project *)
(* is previewed: the handshake of the two (start in main.ts and in         *)
(* sandbox-bridge.ts) and the requests of the preview, which the frame's   *)
(* service worker sends through the frame to the page's virtual server     *)
(* (BrowserSandboxBridge).                                                 *)
(*                                                                         *)
(* The service worker is a library's and external: it gives its requests   *)
(* numbers, asks for a port when it has none, and may be stopped by the    *)
(* browser, after which it knows nothing and counts from 1 again.          *)
(***************************************************************************)
EXTENDS Naturals, FiniteSets

CONSTANTS
  MaxActive,    \* MAX_ACTIVE_REQUESTS
  MaxFetches,   \* bounds what the preview fetches in one life of the worker
  MaxStops      \* bounds how often the browser stops the worker

ASSUME SandboxAssumption == {MaxActive, MaxFetches, MaxStops} \subseteq Nat \ {0}

VARIABLES
  start,        \* how far start() of the page is
  handPromises, \* ready and initialPreviewReady
  handTimers,   \* of these, the ones whose timer still runs
  failShown,    \* the status says that the sandbox failed
  activeIds,    \* activeRequestIds
  served,       \* the requests the virtual server has under way
  frameStage,   \* how far start() of the frame is
  activePort,   \* the life of the worker the frame's port leads to, 0 for none
  swLife, swPort, swControls,   \* the worker: its life, has it a port, does it control the frame
  swPending, swNext,            \* the requests it waits for, and its next number
  previewStage, \* the generated page: is it asked for, and loaded
  needsInit,    \* messages to the frame by which the worker asks for a port
  toBridge,     \* envelopes to the page
  answers       \* responses to the frame

pageBridge == <<start, handPromises, handTimers, failShown>>
bridgeWork == <<activeIds, served>>
frameSide  == <<frameStage, activePort>>
swSide     == <<swLife, swPort, swControls, swPending, swNext>>
sandboxVars == <<pageBridge, bridgeWork, frameSide, swSide, previewStage, needsInit, toBridge, answers>>

Lives   == 1 .. (MaxStops + 1)
Handshakes == {"ready", "preview-load"}
SandboxRequests   == [type : {"request"}, id : 1 .. MaxFetches, life : Lives]
BridgeReports == [type : Handshakes \cup {"error"}]
PromiseStates == {"pending", "resolved", "rejected"}

SandboxTypeOK ==
  /\ start \in {"starting", "framed", "bridged", "ready", "failed"}
  /\ handPromises \in [Handshakes -> PromiseStates] /\ handTimers \subseteq Handshakes
  /\ failShown \in BOOLEAN
  /\ activeIds \subseteq 1 .. MaxFetches /\ served \subseteq SandboxRequests
  /\ frameStage \in {"none", "activating", "connecting", "controlling", "open", "failed"}
  /\ activePort \in Lives \cup {0} /\ swLife \in Lives
  /\ {swPort, swControls, needsInit} \subseteq BOOLEAN
  /\ swPending \subseteq 1 .. MaxFetches /\ swNext \in 1 .. (MaxFetches + 1)
  /\ previewStage \in {"none", "asked", "loading", "loaded"}
  /\ toBridge \subseteq SandboxRequests \cup BridgeReports /\ answers \subseteq [id : 1 .. MaxFetches, life : Lives]

SandboxInit ==
  /\ start = "starting" /\ handPromises = [p \in Handshakes |-> "pending"] /\ handTimers = Handshakes
  /\ failShown = FALSE /\ activeIds = {} /\ served = {}
  /\ frameStage = "none" /\ activePort = 0
  /\ swLife = 1 /\ swPort = FALSE /\ swControls = FALSE /\ swPending = {} /\ swNext = 1
  /\ previewStage = "none" /\ needsInit = FALSE /\ toBridge = {} /\ answers = {}

-----------------------------------------------------------------------------
(* start() of the page, and the promises it waits for *)

\* The project, the workflows and the server are there: the frame is opened.
OpensFrame ==
  /\ start = "starting" /\ start' = "framed" /\ frameStage' = "activating"
  /\ UNCHANGED <<handPromises, handTimers, failShown, bridgeWork, activePort, swSide, previewStage,
                 needsInit, toBridge, answers>>

\* The next thing that is awaited.
Awaited == IF start = "framed" THEN "ready" ELSE "preview-load"

\* The variant that does not wait for the preview.
GoesOn_OnceBridged ==
  /\ start = "framed" /\ handPromises["ready"] # "pending"
  /\ start' = IF handPromises["ready"] = "resolved" THEN "ready" ELSE "failed"
  /\ failShown' = (failShown \/ handPromises["ready"] = "rejected")
  /\ UNCHANGED <<handPromises, handTimers, bridgeWork, frameSide, swSide, previewStage, needsInit,
                 toBridge, answers>>

GoesOn ==
  /\ start \in {"framed", "bridged"} /\ handPromises[Awaited] # "pending"
  /\ start' = IF handPromises[Awaited] = "rejected" THEN "failed"
               ELSE IF start = "framed" THEN "bridged" ELSE "ready"
  /\ failShown' = (failShown \/ handPromises[Awaited] = "rejected")
  /\ UNCHANGED <<handPromises, handTimers, bridgeWork, frameSide, swSide, previewStage, needsInit,
                 toBridge, answers>>

Settles(ps, result) ==
  handPromises' = [p \in Handshakes |->
                 IF p \in ps /\ handPromises[p] = "pending" THEN result ELSE handPromises[p]]

\* Both timers run from the moment the page's script does.
HandTimerFires(p) ==
  /\ p \in handTimers /\ handTimers' = handTimers \ {p} /\ Settles({p}, "rejected")
  /\ UNCHANGED <<start, failShown, bridgeWork, frameSide, swSide, previewStage, needsInit,
                 toBridge, answers>>

BridgeHears(m) ==
  /\ m \in toBridge /\ m.type # "request" /\ toBridge' = toBridge \ {m}
  /\ LET told == IF m.type = "error" THEN Handshakes ELSE {m.type} IN
       /\ handTimers' = handTimers \ told
       /\ Settles(told, IF m.type = "error" THEN "rejected" ELSE "resolved")
  /\ failShown' = (failShown \/ m.type = "error")
  /\ UNCHANGED <<start, bridgeWork, frameSide, swSide, previewStage, needsInit, answers>>

-----------------------------------------------------------------------------
(* BrowserSandboxBridge.handleRequest *)

Answer(m) == [id |-> m.id, life |-> m.life]

\* validateSandboxRequest: what it looks at is well formed or not.
FormsOfRequest == BOOLEAN

\* One too many, or of a number that is in use.
NoSlotFor(m) == Cardinality(activeIds) >= MaxActive \/ m.id \in activeIds

Receives(m) ==
  /\ m \in toBridge /\ m.type = "request" /\ toBridge' = toBridge \ {m}
  /\ UNCHANGED <<pageBridge, frameSide, swSide, previewStage, needsInit>>

\* The variant in which nobody is told that there is no slot.
TakesRequest_Silently(m) ==
  /\ Receives(m)
  /\ \E valid \in FormsOfRequest :
       IF ~valid \/ NoSlotFor(m)
       THEN UNCHANGED <<bridgeWork, answers>>
       ELSE activeIds' = activeIds \cup {m.id} /\ served' = served \cup {m} /\ UNCHANGED answers

\* What is refused is answered with the error.
TakesRequest(m) ==
  /\ Receives(m)
  /\ \E valid \in FormsOfRequest :
       IF ~valid \/ NoSlotFor(m)
       THEN answers' = answers \cup {Answer(m)} /\ UNCHANGED bridgeWork
       ELSE activeIds' = activeIds \cup {m.id} /\ served' = served \cup {m} /\ UNCHANGED answers

\* The server responds, fails or says too much: an answer in every case.
ServerResponds(m) ==
  /\ m \in served /\ served' = served \ {m}
  /\ activeIds' = activeIds \ {m.id} /\ answers' = answers \cup {Answer(m)}
  /\ UNCHANGED <<pageBridge, frameSide, swSide, previewStage, needsInit, toBridge>>

-----------------------------------------------------------------------------
(* start() of the frame *)

FrameFails ==
  /\ frameStage \in {"activating", "connecting", "controlling"}
  /\ frameStage' = "failed" /\ toBridge' = toBridge \cup {[type |-> "error"]}
  /\ UNCHANGED <<pageBridge, bridgeWork, activePort, swSide, previewStage, needsInit, answers>>

\* connect: a new channel, whose other end the worker is sent; the worker takes
\* it, claims the frame and says bridge-ready.
TakesPort ==
  /\ activePort' = swLife /\ swPort' = TRUE /\ swControls' = TRUE
  /\ UNCHANGED <<swLife, swPending, swNext>>

ConnectsFirst ==
  /\ frameStage = "activating" /\ frameStage' = "connecting" /\ TakesPort
  /\ UNCHANGED <<pageBridge, bridgeWork, previewStage, needsInit, toBridge, answers>>

BridgeReady ==
  /\ frameStage = "connecting" /\ activePort = swLife /\ frameStage' = "controlling"
  /\ UNCHANGED <<pageBridge, bridgeWork, activePort, swSide, previewStage, needsInit, toBridge,
                 answers>>

\* Once the worker controls the frame the preview is navigated, and the page told.
OpensPreview ==
  /\ frameStage = "controlling" /\ swControls /\ frameStage' = "open"
  /\ previewStage' = "asked" /\ toBridge' = toBridge \cup {[type |-> "ready"]}
  /\ UNCHANGED <<pageBridge, bridgeWork, activePort, swSide, needsInit, answers>>

\* sw-needs-init: a new channel, or an error when the worker does not take it.
ConnectsAgain ==
  /\ needsInit /\ needsInit' = FALSE /\ TakesPort
  /\ UNCHANGED <<pageBridge, bridgeWork, frameStage, previewStage, toBridge, answers>>

ReconnectFails ==
  /\ needsInit /\ needsInit' = FALSE /\ toBridge' = toBridge \cup {[type |-> "error"]}
  /\ UNCHANGED <<pageBridge, bridgeWork, frameSide, swSide, previewStage, answers>>

\* A response goes to the port that is the active one by then.
RelaysAnswer(a) ==
  /\ a \in answers /\ answers' = answers \ {a}
  /\ swPending' = IF activePort = swLife THEN swPending \ {a.id} ELSE swPending
  /\ UNCHANGED <<pageBridge, bridgeWork, frameSide, swLife, swPort, swControls, swNext,
                 previewStage, needsInit, toBridge>>

-----------------------------------------------------------------------------
(* The service worker, the browser and the preview *)

PreviewFetches ==
  /\ previewStage # "none" /\ swPort /\ swNext <= MaxFetches
  /\ swNext' = swNext + 1 /\ swPending' = swPending \cup {swNext}
  /\ toBridge' = toBridge \cup {[type |-> "request", id |-> swNext, life |-> swLife]}
  /\ previewStage' = IF previewStage = "asked" THEN "loading" ELSE previewStage
  /\ UNCHANGED <<pageBridge, bridgeWork, frameSide, swLife, swPort, swControls, needsInit, answers>>

\* Of a worker without a port the fetch waits, and every frame is asked for one.
AsksForPort ==
  /\ previewStage # "none" /\ ~swPort /\ ~needsInit /\ needsInit' = TRUE
  /\ UNCHANGED <<pageBridge, bridgeWork, frameSide, swSide, previewStage, toBridge, answers>>

\* A page of an error loads too.
PreviewLoads ==
  /\ previewStage = "loading" /\ 1 \notin swPending
  /\ previewStage' = "loaded" /\ toBridge' = toBridge \cup {[type |-> "preview-load"]}
  /\ UNCHANGED <<pageBridge, bridgeWork, frameSide, swSide, needsInit, answers>>

\* What it waited for fails, and it counts from 1 again.
BrowserStopsWorker ==
  /\ swPort /\ swLife <= MaxStops
  /\ swLife' = swLife + 1 /\ swPort' = FALSE /\ swPending' = {} /\ swNext' = 1
  /\ UNCHANGED <<pageBridge, bridgeWork, frameSide, swControls, previewStage, needsInit, toBridge,
                 answers>>

SandboxNext ==
  \/ OpensFrame \/ GoesOn \/ \E p \in Handshakes : HandTimerFires(p)
  \/ \E m \in toBridge : BridgeHears(m) \/ TakesRequest(m)
  \/ \E m \in served : ServerResponds(m)
  \/ FrameFails \/ ConnectsFirst \/ BridgeReady \/ OpensPreview \/ ConnectsAgain \/ ReconnectFails
  \/ \E a \in answers : RelaysAnswer(a)
  \/ PreviewFetches \/ AsksForPort \/ PreviewLoads \/ BrowserStopsWorker

SandboxSpec == SandboxInit /\ [][SandboxNext]_sandboxVars

-----------------------------------------------------------------------------
(* main.ts:1155: "Do not let the agent mutate files until the cross-origin *)
(* bridge and the starter application have both loaded."  Whatever timers  *)
(* fire, ports are replaced and requests refused, the page is ready only   *)
(* when the preview it shows was fetched under the worker and has loaded.  *)
RunWaitsForPreview ==
  start = "ready" => frameStage = "open" /\ previewStage = "loaded"

(* No fetch of the preview waits for nothing: its request is on its way to *)
(* the page, with the server, or its answer is on its way; and the slots   *)
(* that are taken are those of what the server has under way.              *)
EveryRequestIsAnswered ==
  /\ \A id \in swPending : \E m \in toBridge \cup served \cup answers :
       \/ m \in answers /\ m = [id |-> id, life |-> swLife]
       \/ m \notin answers /\ m = [type |-> "request", id |-> id, life |-> swLife]
  /\ activeIds = {m.id : m \in served}

SandboxIsSound == RunWaitsForPreview /\ EveryRequestIsAnswered

\* A request is answered with its own answer: not when the worker was stopped
\* while the page served a request of that number.
AnswerIsTheRequests ==
  [][\A id \in swPending \ swPending' :
       swLife' = swLife => [id |-> id, life |-> swLife] \in answers \ answers']_sandboxVars

\* The handshake's timer does not end before the handshake begins: it does when
\* the start takes longer.
HandshakeHasItsTime == start = "starting" => handPromises["ready"] = "pending"

\* A page that says its sandbox failed takes no run: a later channel may fail.
FailedIsNotReady == ~(failShown /\ start = "ready")
=============================================================================
