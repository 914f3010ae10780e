# Vibewaiting: models, checks and proofs

This directory is a TLA+ development of the Vibewaiting repository: a browser
extension, a native companion, a browser agent and a Cloudflare worker that let
a person chat with coding agents while those agents use the person's browser.
It models the parts where several actors interleave, checks them with TLC on
small instances, and proves with TLAPS, for every value of the constants, what
matters most. Paths below are relative to the repository's root, which the
modules' `map` in `PROJECT.json` calls `src/`; `agent/` stands for
`experiments/browser-agent/src/`, and `grok-build-x.ts` is there too.

    tlc -workers 2 -config MCBrowserCalls_cancel.cfg MCBrowserCalls
    tlapm BrowserCallsSafety.tla

`PROJECT.json` lists the components, the runs, the mutants (bugs a change of the
code could bring, at least one per property, which its run must catch), the map
from definitions to source lines, the findings, the hazards and the theorems.

## 1. Inventory

| Component | State it keeps | Operations | Interacts with |
|---|---|---|---|
| Companion broker (`src/native-host.ts`, `browser-broker.ts`, `mcp-server.ts`) | calls waited for, timers, aborts | dispatch, abort, time out, answer, loss of the port | agents over MCP; extension |
| Extension service worker: browser calls (`extension/background.ts`) | coroutine of each call, timers, cards, allowances, debugger counts | route, prepare, send, ask, allow, deny, expire, cancel, close tab | companion, Playwright host, the person, `chrome.tabs` |
| Playwright host (`extension/playwright.ts`, `offscreen.ts`) | per-tab queue, held tabs, offers, marks | receive, begin, check, confirm, run, finish | service worker, page |
| Action policy (`browser-policy.ts`, `browser-approvals.ts`) | none | what needs a card | Playwright host |
| Extension service worker: native link | port, settings, intents, panels, launcher | connect, lose, send, show, hide, take settings | native host, messengers of the pages |
| Debugger relay | attached targets, ports, idle timer | attach, command, detach, cancel | Playwright, Chrome's debugger |
| Extension pages (`content.ts`, `app.tsx`) | ports of each page, captures, pending opens | mount, leave, restore, capture | service worker |
| Daemon (`src/daemon.ts`) | rows, selection, controllers, terminal moves, queued pushes | intents, pushes, moves | companion, panels, the SDK's sessions |
| Remote messenger (`src/remote-messenger.ts`) | tunnel, codes, phone sessions, origins | enable, pair, log in, revoke, report | phones, native host, options page |
| Widget and mobile app (`widget/`, `mobile/`) | numbered intents, watched effects, promises, link | send, acknowledge, reconnect, rejoin | daemon |
| Native transport (`src/native-messaging.ts`) | partial frames and chunks | encode, decode, reassemble | companion, service worker |
| Persistence, projection, presentations | small stores | pure projections | daemon |
| Native install and command line | launcher, manifests | install, uninstall | browsers |
| Project store (`agent/browser-project-store.ts`, `browser-storage-engine.ts`) | primary, backup, conflict keys; each tab's write tail and known revision | load, recover, autosave, rotate, clear | other tabs through IndexedDB |
| Sandbox bridge (`browser-sandbox-bridge.ts`, `sandbox/`) | handshake, requests under way | hello, ready, request, answer | the preview's frame and its service worker |
| Rate gate and chat relay (`cloudflare/rate-gate.ts`, `worker.ts`) | daily counters, leases | acquire, release, expire; fetch, renew | xAI, accounts |
| Sign-in session (GrokSession in `worker.ts`) | device code, credential, settings, videos, generation | start, poll, refresh, register, complete, log out, alarm | xAI, routes |
| Other worker routes | catalog, claims of downloads | media, video, fetch, MCP, telemetry | xAI, session, gate |
| Browser-side sign-in (`browser-grok-auth.ts`, `grok-build-bootstrap.ts`) | panel, polls, startup promises | poll, sign out, fetch, refresh, prepare | worker, `main.ts` |
| Agent loop (`grok-build-agent.ts`, `-compaction.ts`, `main.ts`) | transcript, one active run | sample, retry, compact, batch, stop, reload | relay, tools |
| Live prompts (`-prompt-queue.ts`, `-auto-wake.ts`) | queue of messages, wakes | send, interject, wake, drain | agent loop |
| Scheduler (`grok-build-scheduler.ts`) | tasks, timer, pending removal | create, fire, expire, delete | agent loop, files |
| Tasks and subagents (`-background-tasks.ts`, `-subagent-*.ts`) | registries, admission, stored sessions | start, end, kill, time out, resume | agent loop |
| Workflows (`-workflow-*.ts`, `-workflows.ts`) | runs, journal, budget | start, drive, stop, resume | agents, storage |
| MCP client (`-mcp-*.ts`) | connections, calls, tokens | connect, call, abort, authorize | servers, other tabs |
| Skills and slash commands | tables of what was found and told | discover, touch, sync, compact, resolve | files, model |
| Permissions and plan mode | rules, grants, line of prompts, plan | check, ask, grant, enter, present | the person |
| Published bundle | manifest of the last sync | fetch, compare, write, prune | files |
| Telemetry | counters, spans | begin, end, flush, shut | `main.ts` |
| Development relay (`grok-relay.ts`) | settings, tool ids | handlers of requests | xAI |
| Grok protocol; scripts and harness | none | formats, tooling | |

**What is hard.** All of this is asynchronous single-threaded code spread over
many processes, where the bugs are in what changes across an `await`. A browser
call is owned by four parties at once (agent, companion, service worker,
Playwright host), each with its own timers; it may be cancelled at any await; the
person's decision, the offer of a grant and the re-run are separate messages, and
pages navigate in between. Tabs share a database and a token store without a lock
across transactions. Durable Objects wait for xAI with their state read before the
wait. The daemon handles intents side by side, and its panels see patches computed
against what they may not have. The agent's one conversation is written to by
the person, by background tasks and by the clock. `hazards` names forty such places.

**What makes each component correct.** Browser calls: nothing acts without the
person's leave, the agent is told the truth, a stopped call sends nothing more,
what is held is released, every call is answered. Project store: no change is
forgotten, no save destroys what it does not know. Gate: budgets hold and slots
come back. Session: what was ended stays ended, tokens are used once. Daemon: it
comes to rest on what the person asked for last. Extension tables: what is kept
about a page, a port, a debugger or the companion is what is there. Agent: calls
get exactly one output each, a batch's writes are alone, a task's end is told, a
removal is final, a journaled call is not repeated, tools stay within their
ceilings. Messenger: what is on its way settles and the panel follows. The rest is
under the modules below.

## 2. Modules

A module per component keeps its state as variables, its `XInit`, one action per
handler or per piece of a coroutine between two awaits, its `XNext` and its
`XTypeOK`; the properties close it. MC modules only instantiate.

**The core: a browser call from the agent to the page.**

| Module | Models | State and actions |
|---|---|---|
| `CallChannels` | channels, messages, tabs, pages | shared vocabulary |
| `Companion` | `native-host.ts` and its callers | `op[c]` is what the caller of a call knows |
| `Background` | `background.ts` | `stage[c]` is where the routing coroutine awaits; cards in `decision`, `cardPage` |
| `PlaywrightHost` | `playwright.ts`, `offscreen.ts` | `queue`, `phase`, `awaiting`, `offers`, `ran` |
| `BrowserCalls` | the composition, properties, fairness | |
| `Consent` | the abstract specification of what the person is promised | implemented by `BrowserCalls` (`ConsentPromise`) |
| `BrowserCallsSafety` | proofs | |

**The rest of the extension, the companion and the daemon.**

| Module | Models | Checked property |
|---|---|---|
| `ExtensionLink` | port, settings, intents, panels, launcher | `OpenPanelIsReal`: a panel that counts as open has a guest |
| `DebuggerRelay` | debugger relay of one tab | `UnusedRelayIsTimed`: a relay nobody uses has a timer that ends it |
| `TabPorts` | ports of pages and messengers, captures | `TablesAreThePages` |
| `RemoteAccess` | companion's server, phones, panel, options page | `PanelIsTrue`: the panel tells what was last reported |
| `TerminalMoves` | daemon's queue of sessions to move | `WaitingIsTried`: a move is in flight or the timer is set |
| `Panel` | pushes, patches, the guest that polls | `QuietGuestIsCurrent`: a guest with nothing under way shows the current state |
| `Selection` | selection, attaching, resuming | `LastTapSettles`: the row tapped last is shown, or why not |
| `PhoneLink` | phone's page, web socket, patches | `PhoneFollows`: a visible phone has a link or a retry; one that was answered is current |
| `Messenger` | panel's bridge: intents, effects, promises, images | `BridgeSettles` |
| `NativeInstall` | the two install commands, interrupted and repeated | `ManifestHasItsLauncher` |

**The browser agent.**

| Module | Models | Checked property |
|---|---|---|
| `AgentLoop` | turn loop, retries, compaction, batches | `WritesAreAlone`, `CallsAreAnswered` |
| `AgentTurns` | who starts a turn: person, completion, schedule | `WakeIsServed` |
| `ToolGate` | permissions, prompts, plan mode | `RejectedIsAskedFirst` |
| `Scheduler` | recurring tasks, removals | `RemovalIsFinal`, `OwedTaskIsServed` |
| `TaskRegistry` | background tasks, admission, reminders | `EveryEndIsTold` |
| `SubagentRuns` | a subagent's configuration, tools, rounds | `ToolsWithinCeilings` |
| `Workflows` | runs, journal, budget, reload | `JournaledIsNotRepeated` |
| `McpClient`, `McpAuth` | stdio server and calls; OAuth tokens | `EveryCallSettles`; `TokensComeInTurn` |
| `Skills` | discovery, manager, slash commands | `SkillsStayTrue` |
| `BundleSync` | sync of the published bundle | `BundleKeepsOwnership` |
| `Startup` | sign-in panel, startup coordinator | `StartupSettles` |
| `Telemetry` | deltas and spans | `TelemetryIsTrue` |
| `Sandbox` | handshake and requests of the preview | `SandboxIsSound` |
| `ProjectStore` | project store | four properties of `saves` |
| `DevRelay` | development relay | `RepliesStayTrue` |
| `SharedSafety` | proofs about `ProjectStore`, `McpAuth`, `Sandbox` and their sum | |
| `AgentSafety` | proofs about `Scheduler`, `TaskRegistry`, `Workflows`, `AgentLoop`, `ToolGate`, `SubagentRuns`, `Telemetry`, `DevRelay`, `PhoneLink` and `Messenger` | |
| `PageSafety` | proofs about `Startup`, `BundleSync` and `Skills`, and of the types of all parts of the agent and their sum | |

**The worker.**

| Module | Models | Checked property |
|---|---|---|
| `ChatRelay` | handlers of the rate gate, as operators over `gate` and `today`, and the chat route over them | `DailyBudget`, `FirstAttemptsWithinBudget`, `SlotComesBack` |
| `GrokSession` | session object | `EndedLoginStaysOut`, `TokensUsedOnce`, `RegisteredVideoStays` |
| `WorkerRoutes` | the other routes | `ClaimHasADownload`: a video that counts as being downloaded is, or its worker is gone |
| `ServicesSafety`, `ExtensionSafety` | proofs about the worker, the daemon and the sum of the services, and about the extension's tables and the install | |

**Instances.** `MCBrowserCalls` instantiates the core, and `GrokSession_logout.cfg`
and `ToolGate_prompts.cfg` their modules directly. `MCProjectStore`, `MCServices`,
`MCAgents` and `MCServed` put components that share no state side by side: the
variable `part` is chosen initially and only that component moves. A run therefore
explores the sum of their state spaces, not their product, every property of a
component is checked in all of its states, and what does not move keeps its initial
value, which the view `Moving` leaves out. An invariant that gathers several
components reads each of them only under its `part`: `DaemonSettles`
(TerminalMoves, Selection, Panel), `ExtensionTablesTrue` (ExtensionLink,
DebuggerRelay, TabPorts, RemoteAccess, NativeInstall), `TabsAndFramesAgree`
(McpAuth, Sandbox), `MessengerFollows` (PhoneLink, Messenger), `LoopKeepsItsCalls`
(AgentLoop), `TelemetryIsTrue`, `RepliesStayTrue` (DevRelay), `PageBeginsWell`
(BundleSync, Startup, Skills). Each part of a conjunction has its own mutant.

**How code becomes actions.** A handler or coroutine runs to its next `await` in
one step, so each await whose outcome depends on another actor is a boundary
between two actions; code between two awaits is one action with everything it
changes. Guards are the code's conditions and early returns. Messages are
records in a sequence where the channel is ordered (native port, runtime messages
to the offscreen document, one page's port) and members of a set where they may
overtake one another (`sendMessage` replies, intents at the daemon). Data is
reduced to what properties tell apart: an action's key is the page it was described
on, a saved project is its version and what it was made from, a token is a number,
a tool is its kind, a conversation item is a query, call, output, note, reply or
summary. Operators named `X_Something` and commented as mutants are faulty variants
that no specification uses.

**Abstractions of the core.** What `browser-policy.ts` decides enters as constants
(`Acting`, `OnceOnly`, `AcceptsPending`, `ActionOrigin`), which the proofs leave
arbitrary. A nonce is represented by its call, as one is minted per call. `Events`
switches off events outside the program's control, so that an instance can be kept
small or a property stated under named events; `StoreEvents`, `ChatEvents` and
`SessionEvents` do the same elsewhere.

**The refinement.** `Consent` knows only, for each call, how its card stands and
what it names, and what acted; its steps are `Ask`, `Allow`, `Refuse` and `Act`.
`BrowserCalls!ConsentPromise` maps its variables to those of the four parties: every
message, timer, cancellation and navigation must be one of these steps or a stutter.
It says more than `ActsOnlyWithConsent`: a card is asked once and decided once, and
no call acts twice, or while its card is open or after it was refused.

**Project store.** A step is one IndexedDB transaction (`Load`, `SaveStored`,
`ClearStored`, `Recover`), because the code awaits each, and other tabs get in
between. `blind` marks a tab that could neither read nor clear the store; `excused`
remembers when a tab was allowed not to know.

**Gate, relay and session.** A handler of a Durable Object is one step: the input
gate closes while it awaits storage. The worker's part of a chat is in steps of its own:
the gate grants (`StartChat`), the grant reaches the worker, which sends (`SendChat`),
and after a 401 it sends again without asking (`TokenRenewed`). The day may change
between any two of them, so `sentToday`, which counts every fetch of a chat, is not the
gate's counter. Time is in ticks: a grant, a fetch and a refresh take at most one each
and a lease is four, which keeps the order of the code's times (a grant, 120 s and
15 s within 180 s, and not a second fetch with them). Polls and refreshes wait for xAI
between two steps and carry the session they read (`polls`, `exchanges`). A restart
of the object loses the generation together with the handlers that knew it.

**What is not under the repository's control.** The person, Chrome, the tunnel and the
codes of its library, the user's files, the worker's crashes, a package's other copy
and the preview's service worker are actions marked external in the map, modelled
from how the code uses or meets them.

## 3. Runs

| Run | Question | Instance | Distinct states |
|---|---|---|---|
| `consent` | Does anything act without leave? `ActsOnlyWithConsent`, `ConsentPromise`, `GrantFindsItsOffer`, `TypeOK` | two acting calls of one task, two tabs, two pages, one navigation | 100 thousand |
| `cancel` | Is the agent told the truth, and does a stopped call stop? `AnswersAreTrue`, `StoppedCallSendsNoInput`, `NothingOutlivesItsCall` | two calls, one tab; agent, timer, companion may end each | 529 thousand |
| `answered` | Is every call answered? `Answered` | two acting calls; page and person may be silent | 24 thousand |
| `released` | Is what is held released? `TabReleased`, `BusyCountsWork` | two calls, closing tabs, a lost port | 33 thousand |
| `saves` | Is a project ever lost, do tabs share tokens, does the preview answer? | two tabs with edits, damage, failures, reset, closing; two MCP calls and a sign-in; a preview whose worker stops | 838 thousand |
| `services` | Are the worker's, the daemon's and the extension's tables true? | eleven components of section 2, see the bounds in the `.cfg` | 1.02 million |
| `agents` | Does the browser agent keep its books? | thirteen components | 822 thousand |
| `served` | Is everyone served? `SlotComesBack`, `OwedTaskIsServed`, `EveryCallSettles`, `WakeIsServed` | relay, scheduler, MCP client and turns with their fairness | 118 thousand |
| `held`, `recovery`, `logout`, `prompts` | violated: see section 6 | smallest instances that show them | |

`services` checks `DailyBudget`, `FirstAttemptsWithinBudget`, `EndedLoginStaysOut`,
`TokensUsedOnce`, `RegisteredVideoStays`, `ClaimHasADownload`, `DaemonSettles` and
`ExtensionTablesTrue`; `agents` checks `RemovalIsFinal`, `EveryEndIsTold`,
`JournaledIsNotRepeated`, `LoopKeepsItsCalls`, `ToolsWithinCeilings`,
`MessengerFollows`, `RejectedIsAskedFirst`, `TelemetryIsTrue`, `RepliesStayTrue` and
`PageBeginsWell`; `saves` checks the four properties of the project store and
`TabsAndFramesAgree`. Each also checks the type invariants of its parts.

**Why the bounds are enough.** The properties of the core relate at most two calls
on one tab (a call and the one whose card is open), two tabs (an allowance given on
one must not serve the other) and two pages (the action described and the one met).
One navigation separates every check from the input after it, as only one can
matter between two steps of one call. Two tabs of the store are the fewest that
race; a third would repeat what the second does, since each property compares one
save with one other. Elsewhere the bound is what a property relates, and one more
where a limit must be reached:

- three chats of two accounts, two chats a day for the service and each account, two at
  once and one of an account, two days: midnight falls between a grant, its fetch and
  the second fetch, while the other chats use up both days;
- two polls, two videos for one place, four tokens, three ends of a session;
- two sessions to move and two to show, a third row born later, three taps (one
  given up, one that fails, one that stays);
- two tabs with a buffer of two intents and five acts, so that it overflows, and a
  host lost twice; two visits of a tab, so that a page leaves and returns;
- two recurring tasks, one durable, one restart and one failing write between;
- one command, one monitor, two subagents against one place, so that one waits;
- three drivers of a workflow, so that a resumed run is resumed again; two faults of
  storage, one reload; budgets of one and two agents, so that one is used up;
- two turns, two calls in a batch, two retries, one compaction and one reload of a
  loop; three dialogs' worth of calls in `prompts`, as the third shows the order;
- two handlers of the relay, of which one changes what the other uses, two
  syncs with one edit, two sign-ins with an outage, three writes of a skill.

Each is a constant named in the module (`MaxNavigations`, `MaxEdits`, `MaxDrivers`,
`MaxSyncs`, ...) and appears in the guard it bounds. What holds at these sizes and is
listed in section 5 is proved for every size.

**Deadlock** is checked nowhere: a call that was answered, a session that is over, a
sum in which the part chosen has nothing left to do, or a bound that is used up may stop. What
must go on is stated as liveness instead.

## 4. Fairness

`Spec` of each module has none where its properties are safety. `BrowserCalls!FairSpec`
assumes that a message that was sent is handled, that the browser's own calls
(`tabs.query`, `createDocument`, `executeScript`) settle, and that timers fire; this
is what the event loop gives. It assumes nothing of the agent, the person or the
page: `Answered` holds by the program's own timers. `ResponsiveSpec` adds that
Playwright settles each tool call, which its own timeouts do while the page's debugger
answers; `TabReleased` needs it, for a tab whose tool never returns is kept by its
queue.

`served` gives each part weak fairness of its own, as `WF_vars(part = p /\ A)`, so
that nothing is asked of the parts at rest. The relay: the clock runs, a
grant's answer arrives and a fetch that timed out is aborted; never that a worker
survives to release its slot, so `SlotComesBack` holds through the lease. The scheduler: its timer fires and its loop
takes its turns, `LoopResumes` once an acknowledgement arrived. The MCP client: the
connection that calls share settles and the server answers what it was asked while it
lives; it may die in the middle of a line. The turns: an actor that may run does, samples and tools end, and the queue's
microtasks run. No run assumes strong fairness.

**Assumed of the platforms.** Native messages and runtime messages arrive in order
and once while their port lives; the chunks that carry long ones are not modelled.
IndexedDB transactions are atomic. A Durable Object's input gate closes while it
waits for its storage, and `crypto.subtle` gives no other request a turn. An
`AbortSignal.timeout` passed to `fetch` also ends the stream of its answer. A Web
Lock is given to one tab at a time and freed with its tab.

## 5. Proofs

All of them are checked by `tlapm` to the last leaf, for every value of the
constants that satisfies the assumptions the modules name (`ConstantsAssumption`,
`StoreAssumption`, `RelayAssumption`, `SessionAssumption`, `RoutesAssumption`,
`SchedulerAssumption`, ...). These ask for no more than types and finite sets;
for the relay also that a lease is longer than a grant, a fetch and a refresh together.
The code has no timer for the grant's answer (`worker.ts:1104`): that it takes less than
the 45 s which a lease has left is an assumption about the platform (`GrantDelay`).
The bounds of the
runs are constants of which a proof uses at most that they are numbers.

Most theorems are about the components' own specifications (`Spec`, `ChatSpec`,
`StoreSpec`, `LoopSpec`, ...), and where a run's property gathers several components a
theorem about the sum follows from them. Each rests on an inductive invariant, of
which TLC was first asked whether it holds.

**Browser calls.** `BrowserCallsSafety`, three layers, each
of which the next contains.

- `TypeInv` gives `TypeCorrect`. Types alone are not inductive: a call at the head of a
  queue must be there, and a call past routing must have a tab.
- `ConsentInv` gives `ConsentHolds`: `[]ActsOnlyWithConsent`. *FreshRequests*: before
  its request arrives a call has no card and no run. *CardsFollowCalls*: a card's
  tab and page are those its call was refused on, and do not change once decided.
  *OnTheWay*: every operation, offer, check and confirmation under way carries a
  grant only of an allowed card for its tab and page, and allowances only that
  some allowed card gave. The argument follows the authority, from the person's
  click to the input, through every message that may carry it.
- `SafetyInv` gives the rest. A call has one place: it is on its way to the
  host, at work there, or its end is on its way back, and never two of these (*OnePlace*),
  so that an end, once told, is the end (*EndedIsClosed*, *ToldTrue*, with *SpentOnce*
  and *NotLost*: no result is consumed twice or dropped): `AnswersHold`. A cancellation is
  ahead of nothing it cancels, since it is sent after the call on the same
  channel (*CancelsTrail*, *CancelsFollow*), so the host marks a call before it could do
  more for it (*StoppedMarked*, *RunsUnmarked*), and takes the mark away with the call
  (*MarksDieWithTheirCalls*): `StoppedStays`, `MarksDie`, `NothingOutlives`. An offer is at the
  host before its grant may come (*OffersReady*, *GrantsMatch*): `GrantsFound`.
  `BusyCountsWork` is inductive with them: `BusyCounts`.
- `PromiseKept`: `Spec => ConsentPromise`, the refinement. The initial states map to
  `Consent`'s, and under `SafetyInv` each of the actions is `Ask`, `Allow`,
  `Refuse`, `Act` or a stutter.

`NothingOutlives` assumes `"port lost" \notin Events`: when the native port goes the cards
of its calls stay, which is the observation `CardHasCaller` of section 6. The run
`cancel` makes the same restriction.

**Shared stores and frames.** `SharedSafety`.

- `StoreTypeCorrect` and the four properties of `saves`: a change that is not saved has a
  timer or a running drain; what a tab knows is what the key held when it last read or
  wrote; a verified value is in one of the keys until a load could not read any.
- `SandboxSound`: `SandboxInv`. What the service worker was told is of the preview that
  runs (*ToldOfPreview*), and a request that waits is under way, served or answered, in
  the life of the worker that asked (*FetchesAreUnderWay*).
- `TokensTakeTurns`: `AuthInv`. Who prepares a token holds the lock or waits for it
  (*Turns*); the newest token issued is the stored one or on its way there
  (*StoredIsNewest*); and a refresh token is not spent twice (*UnspentIsKept*) as long
  as no two preparations overlapped, which the history variable `overlapped` tells.
- `KeptTypeCorrect`, `SharedAgrees`: the same of the sum `MCProjectStore`.

**Worker.** `ServicesSafety`, first part.

- `RelayTypeCorrect`, `BudgetHolds`, `FirstAttemptsHold`: each chat under way still
  owes xAI up to two sends (*Owes*), and what was sent today with what is owed is at most
  twice what the gate counted today and, of chats admitted before, twice the
  reservations that lasted to midnight (*SendsCovered*, *CountsWithin*). *LeaseCovers*
  says that a lease outlives the grant, the first fetch and the refresh, so what is
  owed at midnight is owed by reservations, whose number the gate bounds.
  `DailyBudget` is then what the code gives: of each account and of the service, twice the
  day's budget and twice the concurrency; TLC reaches the bound. It speaks of chats:
  of the daily routes the relay's model has what they ask of the gate, and their
  sends are in `WorkerRoutes`.
- `SessionTypeCorrect` with the limit of videos, `EndedStaysOut`, `TokensHeldOnce`,
  `VideosStay`: there is at most one exchange, it belongs to the stored generation or
  nothing is stored, and no exchange of the current generation survives a
  sign-out.
- `RoutesTypeCorrect`, `ClaimsAreDownloads`: `RoutesInv` adds to the types that the
  clips that wait are no more than the limit, and who downloads is at one of the two
  stages of a download, in which its claim names its clip.

**Daemon.** `ServicesSafety`, second part.

- `MovesAreTried`: `QueueIsTried`. Every scan leaves a move in flight, the timer set, or
  nothing that waits.
- `TapsSettle`: `SelectionInv`. An attempt under way of the newest request is for the row
  tapped last; what an older one left is overruled by the newer one or reported as an error.
- `QuietGuests`: `PanelInv`. The log holds the last pushes in order and what each carried
  (*PushesAreKnown*), and a guest has what the log had up to its number, or its answer
  under way brings it there (*GuestFollows*).
- `DaemonComesToRest`: the same of the sum, `ServicesSpec => []DaemonSettles`.
- `ServicesAreTyped`: the types of all eleven services, `ServicesSpec => []ServicesTypeOK`,
  from *TypesInv*, the invariant of the service that moves. Most of the types are
  not inductive: what a wire carries is known from who wrote to it (`TabInv`, `LinkInv`,
  `RelayTimerInv`, `RemoteInv`, each widened by the kinds of its messages), and a session
  waits once for its terminal, and is there while it moves, because one that waits keeps
  its place (*QueueTyped*).
  `TerminalMoves` filters its queue with `Those`, a recursive function, as `TabPorts` does.

**Extension and install.** `ExtensionSafety`, where each component's types follow its theorem.

- `OpenPanelsAreReal`: `LinkInv`. A closed port has nothing on it, the start is the first
  message of its port, a panel that is ready stays so, and the closing of a page that is
  gone is on its way.
- `TablesFollowThePages`: `TabInv`. A wire brings the hello first and the goodbye last
  (*ContentInOrder*, *GuestsInOrder*), and mounts in the order they were made
  (*MountsInTurn*). The port, the guests and the mark the worker keeps for a tab are those
  of its page, or the message that ends them is on its way (*PortIsThePages*,
  *GuestsAreThePages*, *MarkIsThePages*); captures and promises have someone who will end
  them (*CapturesEnd*, *PromisesEnd*).
  `TabPorts` filters a wire with `Among`, a recursive function, for `SelectSeq` says
  nothing to the provers; what it keeps (`AmongKeeps`) is proved by contradiction, from
  the least index at which it would be false.
- `RelaysAreTimed`: `RelayTimerInv`. The count of commands in flight is that of the
  commands on the two channels and at the host, and a relay nobody uses has its timer.
- `PanelShowsTheTruth`: `RemoteInv`. The counts are those of the server's sessions when
  it reported, and each report on its way, and then the panel, follows the one before.
- `LaunchersAreKept`: `InstallInv`, which says of each step of a command what it already
  knows of the files. Its hypothesis is `OneShell`: two commands at once may leave a
  manifest without its launcher, which TLC shows.
- `TablesAreTrue`: the five of the sum, under `OneShell`:
  `ServicesSpec => []ExtensionTablesTrue`. The run has one shell.

**Browser agent.** `AgentSafety`, where each invariant stands before its lemmas.

- `RemovalsAreFinal`: `RemovalInv`. What memory, the file and the removals name was handed
  out, and an identifier is handed out once (*KnownIds*); a task that is being removed is not
  in memory, nor in the file once its consumer is asked (*RemovedIsOut*).
- `EndsAreTold`: `RegistryInv`. A killed task has ended and a running one has work that
  has not (*StatusFollows*), so a task whose end was announced is not handed to
  another session; and of each end of the root's the root was told, or its reminder waits.
- `JournaledOnce`: `JournalInv`. At most one driver was not told to stop, that of the
  run's epoch, and it goes by the journal in the file (*OneDrives*), which is that in
  memory (*OneJournal*); what an agent answered stays in it, where the script finds it
  (*KeptInJournal*, *FirstStart*).
- `CallsStayAnswered`: `LoopInv`. Calls on a file that the batch writes begin in order, each
  when those before it have ended (*InOrder*). Of the transcript, and of what was saved of
  it, *Answers*: a call that is not open in the batch has its output behind it, and an
  output or an open call has only calls, outputs and replies between its call and itself,
  so that a compaction, which keeps what follows the last text, keeps both or none. A note
  or a reload that comes between a call and its output divides them, as section 6 says,
  and is the exception the property names.
- `RejectionsHold`: `GateInv`. What was rejected for good is denied, in memory and in what
  was stored last, which a reload makes the memory of the next page.
- `ToolsAreCeiled`: `CeilingInv`, with the lemma that where two modes meet neither lets a
  tool through that the other forbids.
- `TelemetryStaysTrue`: `CountsInv` and `TracesInv`, which do not meet. Calls have spans only
  while their batch runs, and what a reset has forgotten was shut down before.
- `RepliesAreTrue`: `RelayTrue`. Headers are out only while a body is copied, and a fetch is
  where its caller sent it.
- `PhonesFollow`: `PhoneInv`. What a phone that was answered has drawn, followed by the
  patches on their way to it, ends with the version that was queued last (*Brings*).
- `BridgesSettle`: `BridgeInv`. As long as no daemon was lost, whatever the panel waits for
  has its intent on the way or in hand, or its answer on the way back; and a rejoining has
  its end.
- `EndsFollow`: the two of the sum, `AgentsSpec => []MessengerFollows`.

**What a page begins with.** `PageSafety`, first part.

- `StartupComesToRest`: `StartupInv`. The first fetch of the models comes before every other
  (*FirstFetchFirst*), a run waits for at most one promise and has a profile once past
  it (*RunFits*), and while a page rests signed in the settings of a sign-in are in the
  profile or a promise under way will bring them (*SettingsFollow*).
- `BundleKeeps`: `BundleInv`. Of a file the user never touched it says, for each stage of a
  sync, whether it is as the manifest has it, as the sync found it, or as it is
  published (*UntouchedFollow*); what was digested is still there unless someone
  wrote meanwhile (*DigestHolds*), and an archive of the older form, which names no
  workflows, has none to write (*FlowsAreApart*).
- `SkillsHold`: `SkillsInv`, the two properties with what makes them inductive: a name in a
  reminder was announced by the manager (*RemindersFit*).
- `PagesBeginWell`: the same of the sum, `AgentsSpec => []PageBeginsWell`.

**Types of the agent.** `AgentSafety`, last part, for the scheduler, the registry and the
loop, and `PageSafety`, second part, for the others and the sum. `AgentsAreTyped` is
`AgentsSpec => []AgentsTypeOK`, from `AgentsInv`, which has the invariant of the part that moves. No type
is inductive by itself, so each begins from the safety invariant of its component:

- `SchedulerInv`: a task goes on in a conversation of one prompt, its own (*TasksOnPrompt*), and
  it was handed an identifier that was used. It also gives `LoopsKeepToTheirPrompt`.
- `TellsInv`: the queue of admission is those that wait, once each, with no free place
  (*QueueInv*), and what was read has ended (*ReadsInv*). It also gives `TasksAreTold`.
- `ScriptInv`: no journal is longer than its script, nor what a driver has asked (*Short*).
- `LoopTyped`: a summary is asked for only when one more is allowed, and a call that
  is open was made.
- `LineInv`: the call the person is asked about is at the head of the line, so the line that
  loses its head when a dialog goes has one.
- `TriesInv`: a subagent has tried no more often than it may.
- `TelemetryTyped`: what was counted when the last delta was told is not more than what
  has been counted since, so that no delta is negative.
- `RelayTyped`: a server that is down has no handler left.

What these proofs found in the models, which now say what the code does:

- `Startup`: a sign-in whose answer is lost leaves a page signed in without its settings, as
  a lost sign-out does; `faulty` remembers both, and the property leaves them out.
- `BundleSync`: a manifest that could not be read can be read again once a sync has written it.
- `ToolGate`: what is remembered of a tool that is not a command has its own key
  (`ToolKey`, the code's `permissionKey`), and the person is not offered to reject the
  reading or editing of files for good.
- `AgentLoop`: `retries` counts the tries of a summary too, which may be more than
  `RetryLimit`; its type says so.
- Assumptions: `FreshEvery` and `MaxVersions` are not zero, a path of a skill is that of
  one of its files.

A few definitions of these modules are `IF` chains where a `CASE` would be shorter: a
`CASE` whose guards overlap leaves open which arm is taken, and nothing follows from it.

**Only model-checked.** Liveness (`Answered`, `TabReleased` and `served`) is out of this
prover's reach, as is ENABLED. Every invariant and every action property a passing run
checks has a theorem. The library's induction theorems cannot be
instantiated here; where a fact about a recursive function is needed it is proved from
the least counterexample. No module declares a recursive operator.

## 6. Findings and observations

Findings are violated runs whose counterexample is a behaviour of the code as it is,
against what the repository says.

- `held` (`extension/background.ts:642`): an approved re-run that is voided between
  two awaits leaves its tab held for ever.
- `recovery` (`agent/browser-project-store.ts:94`): a recovery overwrites a verified
  save that another tab stored after the recovery read the keys.
- `logout` (`cloudflare/worker.ts:2002`): a poll that overlaps the logout stores a
  credential in the session that was ended.
- `prompts` (`agent/grok-build-permissions.ts:138`): a call aborted while it waits
  for its prompt's turn leaves its place in the line unreleased, and every
  later prompt waits for ever.

Many modules also define what one would expect of the code and what their state
space refutes. Those definitions say so in their comments and are in no run. By module:

- `BrowserCalls`: `NoStartUnderOpenCard` (`background.ts:662`: the release after an
  approved re-run clears the hold of the next card, against
  `docs/browser-tools.md:167`); `CardHasCaller` once the port is lost
  (`background.ts:1090`, against `docs/browser-tools.md:196`).
- `ExtensionLink`: `LauncherStays` (`daemon.ts:854`) and `OpenPanelIsKnown`
  (`daemon.ts:1005`). Intents wait while the companion starts; beyond a hundred the
  oldest is dropped (`background.ts:404`), and what waits survives the host's crash
  but not a disconnect.
- `DebuggerRelay`: `BarHasARelay` (`background.ts:951-955`, `:1004-1009`); an attach
  that was refused is remembered (`background.ts:894`).
- `TabPorts`: `EventsStayOnTheirPage` (`background.ts:269`); the late disconnect of a
  page that is gone fails the capture of the next one (`:1352`).
- `TerminalMoves`: `CancelledIsNotMoved` (`daemon.ts:1122`, `:1153`), against
  `test/daemon.test.ts:617`.
- `Panel`: `QuietTalkIsCurrent` (`daemon.ts:961`): a push of the rows alone counts the
  conversation as pushed too.
- `Selection`: `NoDuplicateMirror` (`daemon.ts:703`) and `NeverRaces` (`:1611`).
- `RemoteAccess`: `OptionsAsksAgain` (`options.ts:373`); the last state reported is
  kept when the native host goes.
- `PhoneLink`: `QuietPhoneIsCurrent` (`remote-messenger.ts:169`): a socket opened again
  is sent the last patch only.
- `Messenger`: `PromisesAreWatched` (`messenger.tsx:318-344`): an acknowledged tap
  whose daemon is lost leaves its button busy.
- `NativeInstall`: `ExtendedIsKept` (`cli.ts:84-86`): a manifest the person extended is
  removed, as only its name and path are compared. Two commands at once may leave a
  manifest without its launcher.
- `AgentTurns`: `OneTurnAtATime`: the end of a turn releases every waiter, and two
  begin.
- `AgentLoop`: `QueryIsSeen` (`compaction.ts:127-135`); a compaction may leave an output
  without its call (`:59`).
- `ToolGate`: `PlanModeEditsNothing` (`runtime.ts:307`).
- `Workflows`: `InterruptedStays` (`workflows.ts:209-215`, `:287`) and
  `DrivenRunKeepsItsRights` (`workflow-engine.ts:128-130`).
- `SubagentRuns`: `StartsAreOwedByRuns` (`subagent-runner.ts:107-119`).
- `McpClient`: `AnswerIsTheCalls` (`mcp-stdio.ts:34`): a process that is started again
  answers an earlier process's number. Half a line of a process that died stays
  (`:203-216`) and spoils the next one's first answer, which is dropped (`:171-183`)
  while its request's timer is off (`mcp-protocol.ts:306-308`): the call hangs until that
  process dies too or the call is aborted. `EveryCallSettles` names this exception.
- `McpAuth`: `JoinedHaveTheirOwnEnd` (`mcp-oauth.ts:111`): one call's abort ends the
  preparation others joined.
- `Skills`: `GatedAreWithheld` (`main.ts:353`) and `FoundStayListed`
  (`skill-manager.ts:68`, `:166`) after a compaction.
- `BundleSync`: `UserFilesStay` (`bundle.ts:195-197`, against
  `test/grok-build-bundle.test.ts:104`) and `CutOffSyncHeals` (`:216` there).
- `Startup`: `LiveIsTheProfile` (`main.ts:395`, `:1009`) and `SignedInModels`.
- `Telemetry`: `SampleHasItsSpan` (`otlp-trace.ts:234`) and `TurnsAreTold`.
- `Sandbox`: `HandshakeHasItsTime` (`browser-sandbox-bridge.ts:163`: the time runs from
  the module's load, before the frame is opened), `AnswerIsTheRequests` (a restarted
  service worker's numbers begin again), `FailedIsNotReady`.
- `WorkerRoutes`: `OneDownload` (`worker.ts:1868`): a download may outlast its claim.
- `DevRelay`: `RelayStaysUp` (`grok-relay.ts:959`: the error of a stream nobody hears ends the
  server) and `CalledIsIssued`.

Seen while reading, and not stated as a definition: a refresh stores the settings and
videos it read before it asked xAI (`RegisteredVideoStays` names the exception, so it
does not catch a refresh begun before the video); a chat's second fetch after a 401 is
not counted by the gate (`worker.ts:1126`; hence the factor two of `DailyBudget`) and may
outlast its lease, so that `FirstAttemptsWithinBudget` holds of first fetches only; a
poll's older answer may be
stored after a newer one (`worker.ts:1973`); a refresh token lost with its answer
(`worker.ts:1777`); a failed save waits for the next change (`browser-project-store.ts:282`);
there is one conflict key (`browser-storage-engine.ts:83`); a revision of the scheduler
is used again when a creation overlaps an awaited removal; completions between a
subagent's last look and its end are lost; resuming a subagent without naming its
persona drops that role's ceiling; the second of two questions replaces the first.

## 7. Not modelled

Four components carry the status `not_modelled`. *Native messaging transport*: frames
and chunks are an encoding; the channels of the core take its promise (whole messages,
in order) as given, although two long messages written at once interleave their
chunks, which this leaves out. *Persistence, projection and presentations*: pure
functions of the daemon's state, and files written whole. *Grok protocol and
conformance*: formats and recorded traces. *Scripts and end-to-end harness*: tooling.

Four hazards are covered in part. The page may leave between the last check of an action
and its input, where the code looks no more: `ActsOnlyWithConsent` and
`ConsentPromise` compare the page that was checked. A journal that is missing or cannot be
read is not an event of `Workflows`, a query the model answers after a compaction is
`QueryIsSeen` of section 6, and the refresh that overlaps a registration is above.

Inside modelled components what is left out is in each component's note. In general:
text, layout and drawing; what a tool does; how a shell command, a pattern, a
front matter or an envelope is parsed (it is taken as parsed); encodings, batches and
headers; the Codex relay and the prototype. A restart of the extension's service
worker is not an action of the core: while calls run its native port keeps it alive,
and one the browser kills all the same takes its cards with it (a hazard without a
property).

Components are not composed where they share no state, or share it through something
the properties do not relate: the scheduler and the registry feed `AgentTurns` as
events, and `ToolGate` is a step of a call in `AgentLoop`. The core and `GrokSession`
do not meet.

## 8. Plan

The models are complete for the components with state, and every safety property the
runs check is proved. What remains are the statements of section 6 that no run makes,
to be stated where the code changes so that they hold.
