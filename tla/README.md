# NovaProxy in TLA+

NovaProxy is a desktop HTTP debugging proxy: a Rust engine (`crates/nova-core`)
captures traffic, a Tauri back end (`src-tauri`) owns what was captured, a page
(`src/`) shows it, and two crates (`crates/nova-os`, `crates/nova-helper`) change
the machine's settings. These modules specify the parts of it that are concurrent
or stateful, and the analysis it runs over captured traffic. TLC checks each on
small instances; TLAPS proves the safety of twelve of them for every instance.

Paths below are relative to the repository's root; `flowstore.rs` and its kind
are in `crates/nova-core/src/`, `sysproxy.rs`, `oscmd.rs` and `helper.rs` in
`crates/nova-os/src/`, `state.rs`, `commands.rs` and the app's `lib.rs` in
`src-tauri/src/`, `App.tsx`, `store.ts` and `streamQueue.ts` in `src/`.

## The system

| Component | State | Operations | Talks to |
|---|---|---|---|
| Request handler (`intercept.rs`) | per connection: queue of ids awaiting a response; per engine: `seq`, WebSocket routes | `handle_request`, `handle_response`, `handle_error`, `should_intercept`, the relay's `handle_message`, the task behind each `tee` | flow store and UI stream (through `Shared`), body store, breakpoints, rules, scripts |
| Connection timings (`timing.rs`) | scratch of each connect, log of samples | the timed connectors, `record`, `claim` | handler |
| Flow store (`flowstore.rs`) | `flows` map, `order` queue, counters | `insert`, `update`, `get`, `clear`, `shells` | body store (deletes with the flow) |
| Body store (`bodystore.rs`) | spill files, `files`, `used` | `BodyCapture::push`/`finish`, `register`, `remove_flow`, `read` | disk |
| UI stream (`state.rs`) | queues of flows and frames, pause, channel | `bind`, `emit`, `queue_frame`, `pause`, `resume`, `discard_flows`, `flush` | flow store (on resume), page |
| Page (`App.tsx`, `store.ts`, `streamQueue.ts`) | queue, list, frames, recording, breakpoint switch, modal | flush, clear, record, reload, arm, decide | commands |
| Insights (`state.rs`, `insights.rs`) | one report and its key | `insights`, `analyze` | flow store |
| Breakpoints (`breakpoint.rs`) | armed, pattern, pending senders | `arm`, `disarm`, `should_break`, `wait`, `resume` | handlers, page |
| Engine lifecycle (`commands.rs`, nova-core `lib.rs`) | the engine's handle | `ensure_engine`, `stop_proxy`, `start` | handlers |
| System proxy (`sysproxy.rs`, `oscmd.rs`, `windows/inet.rs`, `commands.rs`, `lib.rs`) | OS settings, backup file, sign-in entry, two flags | enable, disable, restore, launch, quit, update | OS, helper |
| Privileged helper (`nova-helper`, `helper.rs`) | one request at a time | sweeps as root | OS |
| Rules (`rules.rs`, `commands.rs`, `mcp.rs`) | live list, `rules.json` | `glob_match`, `set_rules`, the agent's tools | handler, disk |
| MCP endpoint (`commands.rs`, `mcp.rs`) | handle, port, `mcp.json` | `set_mcp_enabled`, launch restore, `stop_mcp` | agents |
| Root certificate (`ca.rs`, `trust.rs`, `commands.rs`) | `ca.pem`, `ca.key`, the platform's stores | `load_or_create`, install, uninstall, regenerate, trust report | OS, engine |

What is hard here: handlers, relays, body tasks, the flush thread and commands
run at once over shared state that is guarded by several short locks; snapshots
are taken under one lock and delivered under another; the engine may be replaced
while its connections and body tasks live on; clients leave in the middle; the
disk fails; machine settings are changed one command at a time by processes that
outlive the app; the page keeps copies of what the back end knows and is reloaded.
`PROJECT.json` lists these hazards at their lines with the properties that cover
them.

What makes each part correct: the store never loses or doubles a flow and its
accounts balance (`FlowStore`); a cached report is current (`Insights`) and its
findings are what they claim (`Analysis`); the list ends up showing what the
store holds (`FlowStream`) and accounts for every frame (`Sockets`); a paused
request can always be released (`Breakpoints`); a flow holds one exchange and
keeps its outcome (`Exchange`) and is charged its own handshake (`Timings`); the
disk budget is kept of all there is and a read is honest (`Bodies`); the user's settings are on
the machine or in a readable backup (`SystemProxy`); nothing is left running that
its switch cannot stop (`Engines`, `McpEndpoint`); a restart changes no rule
(`Rules`); the key fits the certificate and trust is reported as it is
(`Certificates`).

## The modules

    RetentionWindow   what the flow store promises: a log of flows, oldest first
      ^ implemented by  FlowStore  <- Insights          (the cache over the store)
      ^ used as a store by  FlowStream, Exchange, Bodies
    UiStream          the stream of snapshots  <- FlowStream (engine, stream, page)
    Sockets           WebSocket frames, from the relay to the panel
    Timings           connects, their log and its claims
    Breakpoints       handlers, commands and the page at a breakpoint
    Engines, McpEndpoint, Rules, Certificates     state the app owns or saves
    SystemProxy       the machine's settings, the backup file, the helper
    Analysis          the checks over captured traffic
    FlowStoreProofs   theorems about FlowStore, Insights and Analysis
    FlowStreamProofs  about FlowStream and its UiStream
    AppStateProofs    about Engines, McpEndpoint, Rules and Certificates
    ConnectionsProofs about Sockets and Timings
    ExchangeProofs, BodiesProofs, BreakpointsProofs, SystemProxyProofs
                      about the module each is named after
    MC*               instances for TLC

Definitions called mutants in a comment are not part of a specification: each is a
plausible mistake in the definition that follows it, and TLC finds the property it
is listed with in `PROJECT.json` broken when it is put in that one's place.

**RetentionWindow** is the abstract specification: `Insert` appends or changes
in place and cuts to the window, `Update` changes a known entry, `Clear` empties.
`FlowStore` refines it (`RefinesWindow`), and the modules of the store's callers
use it as their store, so what they check rests on the refinement.

**FlowStore** splits a call where the code gives up atomicity. `insert` counts
(`BeginInsert`), stores and evicts under both locks (`StoreFlow`), then deletes
bodies one id at a time (`RemoveBodies`, `Return`); `clear` shares the last part.
`update` holds one lock and is one step. A flow's data is the number of preview
bytes it holds.

**Insights** adds readers of `AppState::insights`: the key is loaded before the
cache lock and the flows are read after. `racing` is a history variable: an
insert was counted and not stored when the report was computed.

**Analysis** is `analyze` and every check it runs, as operators over a sequence of
flows. A flow is a record of what the checks tell apart; the facts its headers,
query and edits amount to are Boolean marks in `has`. The thresholds are the
constant `Limit`; `CodeLimits` has the program's values. What a report says in
words, and its order, are left out: a finding is its rule, its key, its severity
and its flows.

**UiStream** has one action per operation of `UiStream`; `flush` is `Take` under
the lock and then one `Send` per message. An id is its `seq`. `Resume` queues what the
store has of each noted flow, one after the other, as a recursive function.

**FlowStream** composes a store, engine tasks (`BeginFlow`, `InsertFlow`,
`ChangeFlow`, and `EmitFlow` for the sink's half), the flush thread, the commands
in the order the page sent them, and the page. A message goes to the page its
channel was bound for. `clock` makes every snapshot's data its own moment, so
"shows what the store holds" means the latest change. `missed` and `bornPaused`
are history: flows the page has a reason not to list, and flows that began during
the pause that is on. The page's list is a function from ids to data: its order is
left out.

**Sockets** takes frames the same way. `Handshake` registers a route under host
and path and lists the flow; each direction is a task that looks a message up
(`Record`, `Unrouted`), emits it (`EmitFrame`) and on a close finishes the flow and
retires the route (`Finish`, `Retire`). The stream cuts its queue to a byte budget,
`Flush` takes a tick's worth of frames, `Message` sends flows before frames, `Send`
is the channel with the page's own queue, and `Paint` applies it to the list with
the list's cap and the panel's budgets. A batch may push a flow out of the full list
and bring it back with a later snapshot; the page deletes a flow's frames and their
count each time it goes, so `Gone` is all but the flows that every snapshot of the
batch left in the list (`Stayed`). A frame is its size and whether it closes.

**Timings** has a clock, flows that go out over a connect of their own or a pooled
connection, and the three phases of a connect; for a host that is an address there is
no name to resolve, and that phase stays `None`. `Respond` claims a sample. A sample
is kept under its place in the history `logged`, so the log's order is the order of
those places, and a sample keeps its name when one before it goes. A flow's
`alone` and `own` are history: no other flow was at its host, and its own sample
was in the log, when it claimed.

**Breakpoints** splits `should_break` into its two reads and `wait` into its three
effects. A pattern is the set of requests it matches. The handler does not await
between those steps, so a client can only end it while it waits. It waits until its
sender is no longer on the map: used for a decision, or dropped by a request that came
later with the same id, which counts as Continue. The id is `FlowId`, and only
requests of two engines have the same. The page's part
is the switch, the channel, the modal and its textarea, which React keeps when a
second interception replaces the first.

**Exchange** follows a connection through every outcome of `handle_request` and
on to the response, the error or the client's departure, cut where the handler
awaits or changes the store. Rule outcomes, hooks and breakpoint decisions are
choices. An exchange is `<<engine, seq>>`, its flow's id only `seq`: that is the
code's numbering, and what a flow says carries the exchange it came from, so a
mix-up is visible. A body ends (`EndBody`) or is cut by upstream or by the client
(`CutBody`), and the task that captured it cannot tell which. One connection serves one exchange at a time (HTTP/1.1); over
HTTP/2 the code itself calls its pairing an approximation (`intercept.rs:7-10`).

**Bodies** models a body by how much of it is where: total, inline, written to
the buffer, on the disk. `Push` has one disjunct per way through
`BodyCapture::push`, failures included; `Buffered` leaves open whether the buffer
has reached the file. A file that is deleted while open goes on as nobody's, as on
Unix. `ReadBody`, `Exported`, `AgentRead` and `Replayed` are what the page, an
export, an agent and a replay get.

**Engines** splits `ensure_engine` at its two locks (`Ensure`, `StartEngineTask`,
`KeepEngine`) and lets the engine's task bind later, be refused, or end after its
handle is gone. `hasty` and `foreign` are history: an engine was started before an
earlier one had let the port go; another program held the port.

**McpEndpoint** splits `set_mcp_enabled`, and the launch's restore, at every await
and lock: take the handle, clear the port, bind, tell the port, keep the handle,
save. A listener told to stop holds its port until its accept loop ends.

**Rules** has the matcher `GlobMatch` next to what a glob means (`IsGlobOf`), and the
list with its writers: the page puts back its whole copy (`SetRules`), agents change
one rule (`SetRule`, `DeleteRule`), and each then writes the file in two steps, which
an exit may part (`ExitAndLaunch`).

**Certificates** has a plan per platform and direction as a sequence of steps, each
with the outcomes it may have on the platform's store; a generation number stands for
a certificate, its key and its digests. `Regenerate` runs beside the page's own
command, and `CertCrash` may fall anywhere, in the middle of a file too.

**SystemProxy** lets a command, the main thread (launch, exit hook, or the sign-in
restore on Windows) and a sweep whose caller is gone each work through the plan's
slots, one write per step: `left` is the set of those still to come, and `Foremost`
takes them in the plan's order. Which way a sweep goes (own process, helper, one password
prompt) decides what it reports. A read that fails is an answer like any other to the
code: a service or key that cannot be read is recorded as off, a WinINet connection is
left out, a list of services that cannot be had is empty (`Readings`, `StartSweep`),
and an empty snapshot of connections makes an enable take the LAN (`Targets`). `givenUp`
is history: slots a read or a restore failed for and nobody was told, until the user
sets them again. It is assumed that the user changes a setting by
hand only while no backup is held, that a ping of the helper waits for a sweep in
progress, and that commands of the page do not overlap: `toggleProxy` in App.tsx has
no busy guard, and a second click during the first one's sweep is not modelled.

## What is checked

`PROJECT.json` has one line per run. All instances are small because the
interesting collisions need few actors; what each bound has to be large enough
for is said here.

| Run | Instance | Why it is enough | Distinct states |
|---|---|---|---|
| `MCInsights` | 3 flows, window 2, 2 callers, 1 reader, 3 inserts, 4 generations, sizes {1,3}, 2 latencies; flows symmetric | one more flow than fits; an insert racing an insert, update, clear or reader; a repeated insert | 432,528 |
| `MCAnalysis` | every capture of up to 5 flows from four pools of six or seven; small thresholds | each threshold just missed, met and exceeded; runs that overlap; chains that fork and loop; two programs at one host | 9,714 |
| `MCFlowStream` | 2 seqs, 1 task, message size 1, window 2, 3 changes, 2 toggles, 1 clear, 2 pages, 1 restart | a batch of two messages, a pause and a resume around each step, a clear and a reload anywhere, an id given out twice | 481,038 |
| `MCConnections` | sockets: 2 at one place from the start, 2 frames of size 1 or 2, every other budget 1 or 2, and 3 at 2 places from a list that is full of the first two, open, with frames of size 1; timings: 2 flows, 2 hosts of which one is an address, 3 moments, ages of 1, a log of 1 | each budget met and exceeded; a frame on each leg while another is; a batch that pushes out one of two flows, brings it back and pushes out the other; two connects at once, a reused and an abandoned one, a sample pushed out | 473,553 |
| `MCBreakpoints` | 2 requests, patterns "all" and "one", 2 arms, 1 disarm, 1 reload | two handlers inside the check at once, a second arm while one is paused, a disarm between the steps of `wait` | 139,256 |
| `MCExchange` | 2 connections, 2 requests in all, window 2, 2 engines, 1 leave, 1 clear | two exchanges one after the other on a connection or side by side on two; the same ids from two engines | 196,810 |
| `MCBodies` | 3 flows, 1 side, window 2, inline 1, per-body cap 3, budget 4, read 2, chunks {1,2}, body 4, 1 fault, 1 clear; flows symmetric | a body within each cap and past it, two files that do not fit together, an eviction during each step of a capture | 1,054,443 |
| `MCSystemProxy` | 2 slots on each platform, 2 failures, 2 crashes or restarts, 1 vanished service | a snapshot or a list that could not be read; a sweep with one step done and one not; a crash during the restore from a crash; a failure in the launch after it | 707,033 |
| `MCAppState` | patterns and texts of up to 4 letters over {a, A, b}; 2 rules, 2 agents, 3 edits, 2 exits; 2 ports, 2 callers, 3 listeners; 3 platforms, 2 certificates, 1 fault, 1 refusal; 2 callers, 4 engines | segments that overlap; the page and two agents at the file; a call inside another; leftovers of an earlier certificate; an engine replaced twice | 1,472,282 |

`MCConnections` and `MCAppState` hold components that share no state with one another
in the models. A variable `focus`, chosen at the start, says which one a behaviour is
about, so their states add and do not multiply. `MCConnections` also starts from the
full list that way, where one frame at a time is in hand.

Symmetry is used only where all properties of the run are safety properties and
the constants occur symmetrically. Deadlock checking is off everywhere because
each system may really stop: the bounds end the traffic, and nobody has to type.

The action and liveness properties:

- `OldestGoesFirst`, `LeavingBodiesAreListed`, `OutcomeStands` speak of a step.
- `ListCatchesUp`: with recording left on, the list in the end agrees with the
  store. Fairness: the flush thread loops for ever (`state.rs:199`), the page's
  flush is on a timer (`App.tsx:350-357`), commands that were sent are run, and a
  task that has changed a flow goes straight on to emit it. Traffic and the user
  are never obliged to act.
- `DisarmFrees`: once a disarm was asked for, whoever is paused goes on. Fairness:
  handlers are polled and commands run; the user may never answer.
- `NoFlowLeftRunning`: a forwarded flow reaches an outcome, is held at a
  breakpoint or leaves the store, as long as no client leaves. Fairness: handlers
  run, origins answer or fail, bodies end, body tasks finish. What an origin does
  is an assumption about the world: the proxy sets no timeout on a response.
- `LaunchSettles`: what a launch finds to restore is restored, offered to the user,
  or the app ends. Fairness: `WF_vars(Running)`, the threads and the daemon run.
  Nobody has to launch, toggle or quit.

The bounded counters are part of the specifications, so "always eventually" is
judged over behaviours in which traffic ends.

## Where the code and its comments disagree

Three have a run that TLC ends with a counterexample (`expect: violation`), and an
entry in `findings`:

| Run | What happens |
|---|---|
| `MCExchangeRestart` | a restarted engine counts flows from 0 and its flows replace captured ones |
| `MCSystemProxyLaunch` | the exit hook restores and removes the backup while a command is still taking the proxy, whose settings then have nothing to be restored from |
| `MCExchangeCut` | a response whose body upstream broke off counts as fully captured |

The modules state more such properties, below a line or in a comment that says so;
each can be seen by adding it to the configuration of the run that checks its module:

- `InsightsNeverStale` (`Insights`): a report computed while an insert was counted
  and not yet stored lacks that flow and stays current until the next change.
- `ClearedFlowsStayGone` (`FlowStream`): a snapshot on its way during a clear brings
  the cleared flow back, which `state.rs:241-242` means to prevent.
- `StartedWhilePausedLeftOut` (`FlowStream`): an engine's first flow has seq 0, and
  a pause that saw no flow also ends at 0, so that flow is noted.
- With two tasks (`Tasks = {t1, t2}`), `ListShowsStore` fails: two updates of one
  flow may emit in the other order, and the list keeps the older snapshot. A clear
  or a reload in the middle has a similar effect on a snapshot that was queued,
  which is why these properties speak of a page that saw neither.
- `ListSettles` (`Sockets`): the page's queue lets its oldest flow go at the list's
  cap, and with it a change to a flow the list goes on showing.
- `ListedIsWhole` (`Sockets`): `prependWithinCap` deletes the frames and the dropped
  count of a flow it pushes out, as "nothing can reach them again" (`store.ts:107-108`),
  but the flow's next snapshot lists it again, with part of its conversation and nothing
  counted as dropped.
- `PausedUntilDecided` (`Breakpoints`, with `FlowId <- TwoEngines`): the map of senders is
  the app's while every engine counts from 0, so a request of a restarted engine takes
  the place of a paused one with its id, and that one goes on unedited and undecided
  (`breakpoint.rs:1-2` against `breakpoint.rs:83` and `:87`).
- `NotJustOff` (`SystemProxy`): a service or key that could not be read is recorded as
  off and restored so, where `sysproxy.rs:8-9` promises "never a blanket off".
- `LeftOutIsLeftAlone` (`SystemProxy`): where no connection could be read the snapshot is
  empty, which enable takes for one of an older build and points the LAN at the proxy,
  with nothing recorded of it; `inet.rs:173-174` says such a connection is left alone.
- `OneShot`, `DisarmLeavesNobody`, `ShownIdleIsIdle`, `PausedIsShown`, `EditsAreItsOwn`
  (`Breakpoints`): two requests can pass the armed test before either takes it down;
  a handler can list itself after the disarm has drained the list; an arm sent while
  an interception is on its way leaves the page showing idle over an armed breakpoint;
  a second interception hides the first and keeps its text.
- `PausedIsHeld` (`Exchange`): a client that leaves at a breakpoint leaves its flow
  Paused.
- `NoOrphans`, `ReplaySendsAll`, `CaptureSurvives`, `ReadReportsSize`,
  `NothingStoredIsWhole` (`Bodies`): a body still being captured when its flow is
  evicted leaves a file; a stored body longer than one read is replayed cut; a retried
  spill underflows and kills the capturing task; a body past the per-body cap is read
  back with the cap as its size; a body whose file the budget evicted is answered from
  its preview. After a failed write the part on the disk is read as the whole, which
  is why `ReadIsHonest` speaks, for the page, of a disk that works.
- `OriginBlamedForItsOwn` (`Analysis`, with `Pools <- BlockedOnly`): the error rate
  counts answers that NovaProxy's own rules made, which the module's comment excludes
  (`insights.rs:15-17` against `insights.rs:536`).
- `RunningIsListening` (`Engines`): the status calls an engine running whose port was
  refused.

What the models show besides, without a property of its own:

- System proxy: one prompt runs an elevated restore as commands joined by `;`, so only
  the last one's failure is reported, and the backup is removed over the others. An
  enable that fails half way leaves the machine partly ours while neither
  `system_proxy` nor the pending restore is shown, until the next launch.
- Engines: turning the proxy off and on quickly, or two replays at once, may leave the
  handle of an engine that never got the port, and a replay may be sent before the
  engine it started has bound it.
- Analysis: the findings of two visits to one redirect chain share an id; a
  chain's id changes when its first hop is evicted; a relative `Location` with `://` in
  its query is taken for an absolute one.
- Sockets: the panel words what it misses as "earlier frames", though the budgets may
  cut out of the middle; a socket that dies without a close frame leaves its flow
  pending and its route registered; concurrent sockets to one host and path are recorded
  under the latest one's flow, as `flow.rs:59-62` says they are.
- Timings: a flow on a pooled connection may claim the handshake of one that is still
  waiting beside it, as the code's comment grants (`timing.rs:18-27`).
- Rules: the page's copy, put back whole, undoes an agent's edit it has not seen; two
  edits that overlap may leave the file with the list of the one that was first; a
  `rules.json` cut short means no rules at the next launch.
- MCP: overlapping calls can leave a port that is not the handle's; a start that fails
  after the stop leaves `mcp.json` saying running; a port just left may still be held.
- Certificates: on Linux a failed bundle update after the anchor was copied is reported
  as trusted; two faults can leave a new certificate beside an old key; a torn key
  keeps the engine from starting until the certificate is regenerated; a regeneration
  goes on when the uninstall before it failed, and does not restart a running engine.

## What is proved

Every theorem is for all values of the constants its module's assumption allows; the
listed invariants are what each proof adds to the property to make it inductive.

`FlowStoreProofs`, for all sets of ids, callers and sizes and every window of at
least one flow, from `StoreAssumption`:

- `StoreTypes`: `TypeOK`.
- `StoreConsistent`: `QueueMatchesMap`.
- `EvictionByAge`: `OldestGoesFirst`.
- `NoBodyForgotten`: `LeavingBodiesAreListed`.
- `AccountsBalance`: `HeldIsWhatIsRetained`.
- `StoreImplementsWindow`: `FlowStore!Spec` implements `RetentionWindow!Spec` under
  the mapping that reads the log as `shells` does.

The inductive invariant is `TypeOK /\ QueueMatchesMap`: neither half is inductive
alone, because what `StoreFlow` leaves in the map is known only through the queue,
and what eviction takes from the queue is known to be old only if no id is queued
twice. The lemmas `QueuedFacts` and `KeptFacts` say what a queue is after an insert
and after eviction; `NextInv` has one step per action. The refinement goes through
`InsertKnown` and `InsertNew`, which compare the log before and after an insert,
and `UpdateChanges`.

`AccountsBalance` is about a fold over a set. The section on sums unfolds
`MapThenSumSet` into a function over the subsets and shows that the order in which it
takes the elements does not matter, from a counterexample with the fewest elements
(`Smallest`); what a call does to the count is then one flow more, one less, or one in
place of another (`BytesTaken`, `BytesSame`, `BytesSplit`).

In the same module, for the cache over the store: `ReportsAreTrue` proves
`ReusedReportIsTrue`. Its invariant adds that no key lies ahead of the generation
(`KeysArePast`) and that a report filed under the present generation, and not computed
in the middle of an insert, is that of the store with no insert begun since
(`CacheIsTrue`): an insert counts first, so the one that would make it stale has
retired it already.

And for the analysis behind the report, for any pools of flows with a place in time and
an id each, any captures of any length, and all thresholds that are numbers
(`AnalysisAssumption`), theorems of `AnalysisSpec`. What was captured is a sequence of
flows of the traffic, each once (`CaptureFine`), which is all that is needed of the
state; the rest is about `analyze`, and is shown of recursive functions of a length from
the first place where it would fail (`FirstWrong`):

- `RunsTold`: `RunsAreExact`. `JudgedFacts` says that judging sorts, loses nothing and
  repeats nothing, and `WithinFacts` and `EndpointGroups` that a group is all the flows
  of its key in that order. Of the sweep, `SeenTo` says where the window starts and how
  long the longest run is, and `MarkedTo` that the indices marked so far rise and are
  those covered by some dense window: marking from the first unmarked index on loses
  nothing because a later window never starts earlier (`SinceGrows`). `SizeIsHeld` and
  `HeldIsSize` compare the sweep's count of indices with the definition's count of flows.
- `RedirectsAreTold`: `RedirectsTold`. `Walked` is what a walk is after any number of
  hops, `ToldTo` what has been told and used after so many starts: a redirect neither
  told nor used starts a walk that is short (`Short`), with the flows that were used
  then. `FewRedirectsLeft` shows that a walk cannot be short where each hop is the only
  one there is. Different requests are asked for in `RedirectsTold` because a request
  already on a walk is no candidate for its next hop: two redirects of the same instant
  that lead to each other are neither a loop nor a chain.
- `FindingsStand`: `FindingsStandAlone`. `Grouped` is what groups by host and by endpoint
  have in common, and `Stands` what each of the twenty-one checks other than that of
  redirects owes (`ChecksStand`): its own rule, flows of one group in order, one finding
  per key. `CheckFound` says that a finding stems from the check named by its rule, so
  two findings with one rule and one key are one. `NewestCarried` is about the cut to
  `Limit.ids`, and `OneOrder` says that flows which start at different times have one
  order, so the order in which they were stored is lost in judging.

`FlowStreamProofs`, for all sets of seqs and data, any number of tasks, pages, pauses,
changes and restarts, every message size and every window, from `StreamAssumption` and
`FlowStreamAssumption`:

- `SlotsStayTrue`: `SlotIndexesQueue`, from `Base`, the types of every part with the
  facts about the queue of commands that the rest needs. `EnqueueFacts`,
  `RefreshedFacts` and `ResumeFacts` say what one snapshot, and a whole resume, do to the
  queue and its index.
- `FlowsArrive`: `NoFlowLost`, which looks at settled states only. `Accounted` is its
  inductive form: as long as nothing is cleared, every retained flow is in the hand of
  a task about to emit it, noted by a pause, queued, in the batch being sent, in the
  page's queue or its list, or the page has a reason not to list it. Each action moves
  a flow from one of these places to the next; what must be excluded is that it leaves
  one for a page that is gone, which is what the bound page in `Underway` is for.
- `NewestIsListed`: `ListShowsStore`. The inductive form `Fresh` says that of the
  snapshots of a flow on their way the last one is what the store holds
  (`NewestArrives`, place by place from the queue back to the list), that a snapshot in
  a task's hand is (`HandIsNewest`), and that nothing on its way lies behind a pause
  that would drop it (`Heard`). `HandIsNewest` fails when two tasks have changed one
  flow and neither has emitted yet, and so does the property; the theorem is for
  behaviours in which no two tasks have a snapshot of one flow in hand at a time
  (`[]Apart`), and says so. `OneTaskIsListed` draws the case of one task, where `Apart`
  holds of itself. TLC has checked `Accounted` and `Fresh` with two tasks under that
  constraint as well.

`ExchangeProofs`, for any number of connections and requests and every window, from
`ExchangeAssumption`: `ExchangesStayApart` (`OneExchangePerFlow`),
`CompletionsAreAnswered` (`CompletedIsAnswered`, which does not say that the body came
to its end: `MCExchangeCut` shows that it need not have) and `OutcomesStand`
(`OutcomeStands`). All three say what they say of the first engine, and so does the invariant. It ties four places together: an
entry of the store says only what came from the exchange it is named after; a tee
brings what that same exchange sent, and a response's only to an entry that has its
answer; a connection's queue is exactly the id it serves while it waits upstream, and
empty elsewhere; and no two connections serve one id. Without the last, the response
of one could complete the flow of another; without the queue's exact content, an
aborted or failed exchange could leave an id for the next response. `FlowsTrue` adds
that a flow at a handler before its answer has no outcome, which is what `Stands`, the
step form of `OutcomeStands`, rests on. The store is `RetentionWindow`: `InsertFacts`
and `UpdateFacts` are all that is used of it, so eviction may fall anywhere.

`BreakpointsProofs`, for all sets of requests and patterns, from
`BreakpointAssumption`:

- `BreakpointTypes`: `TypeOK`, from `Types`, which adds the commands on their way.
- `DecisionsAreAwaited`: `HeldUntilDecided`, inductive with `Types`. `Drain` and
  `RunResume` send down each sender they take off the map; `List` drops one, but only
  of its own id (`StepDisplaces`).
- `ShownArmed`: `ShownArmedIsArmed`, which looks only at settled states and says
  nothing of how they are reached. Its inductive strengthening `ShownArmedInv` follows
  the queue of commands: the page's own subscribe is the last one on its way, or has
  run (`SubscribesInOrder`, `ListeningOrWill`); and while the page shows armed, either
  an arm is on its way with no disarm after it and the subscribe before it
  (`ArmToCome`), or it has run, no disarm is on its way, and a breakpoint that is
  down again has a handler about to tell the page or a message that does
  (`ArmHasRun`). Without the order of the subscribes a message could go to a page
  that is gone. The lemmas on what is taken from and added to the queue (`PopArm`,
  `PushArm`, ...) carry this through each command.

`AppStateProofs` is about four components that share no state:

- `GlobsAreGlobs`: `GlobIsGlob`, for patterns and texts of any length. `IsGlobOf` says how
  far the text may be read (`reached`) when the first n characters of the pattern are.
  `SegmentFacts` says where the segments lie in the pattern, `SegmentReach` where one can
  end, and `StarReach` that what a star reaches is all from some place on; so the least
  place is enough to keep (`Least`), which is why the first fit loses nothing. All are
  about recursive functions of a length, and shown from the first place where they would
  fail.
- `EnginesAreOwned`: `EngineOwned`, for any number of callers. The invariant needs
  that an engine has one owner only (`OwnersApart`), or a caller that stores its handle
  could tell another's engine to stop, and that one at a time (`OneAtATime`) is what no
  start beside another means, from which follows that no bind was refused
  (`NoneRefused`).
- `EndpointIsOwned`: `EndpointOwned`, for any number of calls and ports, from
  `McpAssumption`. `OneByOne` says, for calls that have not overlapped, what handle and
  port are at each stage of the one that is running.
- `FileIsLive`: `RulesFileIsLive`. `OneWriter` says that unless edits met there is one
  writer, and what it holds is the live list.
- `KeyFits`: `KeyFitsCertificate`, on any set of platforms, as is `TrustIsReal`. The bound of one fault makes it a count: with no
  fault yet (`StepByStep`) both files are there or both gone but for the stages between,
  and one fault from there leaves nothing that parses and does not fit, except while the
  pair is being written (`PairsFit`).
- `TrustIsReal`: `ReportedTrustIsReal`. What a plan may still have to do is one of a few
  sequences per platform (`Planned`); where no plan is between the two steps it takes
  for a certificate's presence and its effect, and no step has failed, the two records
  the report and the verifier read agree (`StoresAgree`).

`BodiesProofs`, for bodies of any size, every window, budget and number of failures, and
all caps that `BodiesAssumption` allows: a body's is at least the preview's, and those of
a read are less than a body's, as in the code.

- `BudgetIsKept`: `BudgetKept`. `Total` is a recursive function of the length, and the
  facts about it (a total grows by what is appended, and splits where the sequence does)
  come from a least length at which they fail (`Smallest`), which is all the induction
  it takes. `DroppedFacts` says that what an eviction leaves fits the budget.
- `DiskIsCounted`: `DiskIsAccounted`. `Flawless` is its inductive form: while the disk
  works, a file that is there is being written or is counted. So a capture that goes on
  after its flow has left the store is counted in the end.
- `SpilledAreStored` (`SpilledIsStored`) and `ReadsAreHonest` (`ReadIsHonest`). `Capturing`
  says what each stage of a capture has written and `Counted` what an entry stands for:
  one capture that ended well, whose file is there unless its flow's bodies were
  deleted (`Kept`). That no file is counted twice (`CountedOnce`) is needed for it: the
  eviction of one entry would take the other's file. `Shown` ties the previews to the
  captures they come from.

`ConnectionsProofs`, for any flows, hosts, ages, slop and length of the log, from
`TimingsAssumption`: `ChargedOnce` (`HandshakeOfItsOpener`) and `PhasesAreOwn`
(`PhasesAddUp`), theorems of `TimingsSpec`. The invariant `TimingsInv` says that a
connect's phases follow one another, with none for a name that is an address (`Phases`),
that a sample is that of the connect
logged at its place (`LogIsTrue`), that what was told was taken from there and is there
no more (`Charged`), and why a logged connect has no sample: it was claimed, pushed out
by later ones, or too old (`LogIsKept`). The last is what shows that a flow alone at its
host finds its own sample, or none.

In the same module, for any places, sockets, frame sizes, budgets and caps and finitely
many directions, from `SocketsAssumption`: `FramesAreTold` (`FramesAccounted`) and
`FramesAreBounded` (`FramesBounded`), theorems of `SocketsSpec`. Sums, the frames of one
flow and the merge of two queues are recursive functions of a length; each lemma about
them is shown from the first place where it would fail (`FirstWrong`). The invariant
`SocketsInv` has the types, the equation of `FramesAccounted` (`Balanced`), the bounds,
and `FlowsFirst`: what is queued belongs to a flow that is listed, is on its way no
later than the frame, or was pushed out of the list or of the page's queue. Of the
last nothing is claimed; `Stayed` is what shows that a flow the list still has, and
has had all along, keeps its frames through a batch. Without the last, a paint could drop frames of a
flow still to come, and the equation would not be kept. `BudgetFacts` shows that the
eviction ends within the budget: each frame that goes lowers the number of frames by
one, and with none left the sum is zero.

`SystemProxyProofs`, for any plan of slots on any of the platforms and any number of
failures, crashes and vanished services, from `SystemProxyAssumption`:
`UserSettingsAreHeld` (`UserSettingsHeld`), `QuitGivesBack` (`QuitReleases`) and
`SignInIsArmed` (`SignInWillRestore`). Each has the hypothesis `Serial`: commands, the
launch's restore and a sweep left behind do not overlap. It cannot be dropped, as
`MCSystemProxyLaunch` shows with `Serial = FALSE`. `UserSettingsHeld` excepts the slots
in `givenUp`; `QuitReleases` is for sessions without a failed step, and
`SignInWillRestore` for those without a failed step, a crash or a restart. The invariant `ProxyInv` has

- `Control`: who may be at which stage, and that beside a task at work there is at most
  a sweep it has given up on, after a failure;
- `Held`: besides the property, what each command has in hand. A snapshot not yet
  written records what the user chose, a sweep works from what the backup says, and a
  restore has put back each slot that is not still to come and did not fail (`InHand`);
  on Windows a readable backup leaves out only slots that were given up (`Recorded`),
  so the LAN is one of those where an empty backup makes a sweep take it;
  With `GivenBack`, that no setting is ours, this is what allows the backup's removal;
- `Flawless`: with no failure so far, a command that ends in an error or leaves for the
  exit has given everything back, from which `QuitGivesBack` follows;
- `SkipIsRight` and `TakingIsArmed`: an update goes on without a restore only where
  there is none to make, and Windows takes a setting only once the sign-in is armed.

No part of it names a platform's sequence of slots: the order of the plan matters only
to what an elevated restore reports, by the last step it has (`Hindmost`).

Every invariant and action property of the passing runs is a theorem, with three
hypotheses or limits that the theorems or properties name: `Exchange`'s properties speak
of the first engine, `NewestIsListed` of tasks that do not meet (`Apart`), and
`SystemProxyProofs` of commands that do not overlap (`Serial`).

Only model-checked are the properties about what must happen in the end, as liveness and
`ENABLED` are out of the prover's reach: `ListCatchesUp` (`FlowStream`), `DisarmFrees`
(`Breakpoints`), `NoFlowLeftRunning` (`Exchange`) and `LaunchSettles` (`SystemProxy`).

## What is not modelled

- Scripting: one worker thread that runs hooks; what a hook answers is a choice.
- What a matching rule does to a request (`apply_request`, remapping) and the TLS scope
  (`tlsscope.rs`), one more use of the matcher. A request mapped by two Map Remote rules
  is labelled with the first target's host.
- Process attribution, the list's order, filters, search, session files and exports,
  logging, crash reports, menus and icons.
- The helper's socket protocol and its own installation; the app's side of both is in
  `SystemProxy`.
- The MCP server's listing and search tools, which are filtered reads.
- Compression of previews, content decoding, wording and layout, HTTP/2 multiplexing,
  Windows' refusal to delete open files, and weak memory orderings of the atomics (each
  is its own step in the code's order).
- In `Certificates`, the browsers' databases of a user on Linux are one, and macOS'
  `add-trusted-cert` is one step or one failed step with the certificate left behind.
- In `Sockets`, the retention of the flows, pauses, clears and reloads, which are in
  `FlowStream`.

## What is left to do

1. Two tasks that change one flow, once the code orders what they emit.
2. The stream as an abstract register per flow that the page reads late, and
   `FlowStream` shown to implement it.
