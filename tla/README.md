# A TLA+ model of the plan44 integration

This directory specifies, model-checks and partly proves the behaviour of the
Home Assistant integration `custom_components/plan44`: what its asyncio tasks
may do to each other, what survives a lost connection, and what an unload
leaves behind. Line numbers below and in `PROJECT.json` refer to the sources
under `src/custom_components/plan44/`.

## 1. The system

The integration talks to a plan44 bridge (the `vdcd` daemon) over three paths:
the external-device API (a TCP connection, JSON lines, on which Home Assistant
entities are exported to the bridge as virtual devices and on which the bridge
sends commands and sensor values), the web API (HTTP polls and service calls)
and the bridge API (pushes, through an SSH tunnel). Everything runs on one
asyncio event loop.

| Component | State | Operations | Correct when |
|---|---|---|---|
| TCP client `plan44_client.py` | reader, writer, write lock, reader task, keepalive task, intentional-disconnect flag | `async_connect`, `async_send`, `async_disconnect`, reader loop with its finally block, keepalive loop | one connection at a time is in use; the lock is never left behind; a lost connection is reported; nothing runs after a disconnect |
| Entry coordinator `coordinator.py` | exports, reconnect task, shutting-down flag, connected-since, startup listener, origin and time of the last write per entity, inbound callbacks, discovered channels, back-off delays | initialise, shut down, handle a disconnect, reconnect loop, republish, register, forward a state, apply a reverse command, dispatch a channel value | one reconnect loop; every outage ends connected, with the devices registered; no connection survives the unload; a command is not echoed |
| Export store `store.py` | exported entities, in memory and on disk | load, add, remove, iterate | what a finished call said is on disk, whatever calls overlap |
| Entry lifecycle `__init__.py` | the entry's runtime data, its persisted data (pinned certificate and host key) | set-up, unload, reload on an update, services | a failed set-up leaves nothing running; a pin is never lost or overwritten |
| SSH bridge client `bridge_client.py` | run task, closing flag, status, delay, failed attempts, pinned key | start, stop, run loop, one session | it backs off, says what it does, ends when told |
| Push protocol `bridge_protocol.py` | none | parse a line into updates | - |
| Device data `device_coordinator.py` | data by device, last update's success | poll, merge a push, issue | push and poll together converge on the bridge's values |
| Web API client `web_client.py` | TLS pin | requests with retries, light fades, packet times, parsers | a retry does not harm; a light changes in one move; an interval is one between two packets |
| Entities `light.py`, `sensor.py`, `binary_sensor.py`, `button.py`, `radio.py`, `inbound.py`, `bridge_entities.py` | last values, callbacks | show data, take pushed values, call services | they show the latest value; they are those of the subentries |
| Conversions `state_mapping.py`, `plan44_core/protocol.py`, `plan44_core/naming.py` | none | brightness, names | a round trip returns the value; names stay distinct |
| Configuration flow `config_flow.py` | subentries | add, change, remove virtual and imported devices; options | a change reaches the running entry |
| Command-line client `plan44_core/session.py`, `harness.py`; `diagnostics.py`, `system_health.py`; `devtools/` | their own | reports, scripts | - |

**How they interact.** The coordinator awaits the methods of the TCP client;
the client calls back from its reader task: `async_handle_plan44_message` for
every line, `async_handle_disconnect` when a connection ended that nobody asked
to end. The latter starts the reconnect task, which calls `async_connect`
again, as do all tasks that forward a state (`async_ensure_connected`). Unload
cancels the reconnect task and calls `async_disconnect`, which cancels and
awaits the reader task. The bridge client feeds pushes to the device
coordinator by a callback; the device coordinator polls the web client.

**What is hard.** All of these tasks share the client's five fields and read
them before an `await` and use them after it: two tasks may connect at once;
the finally block of a reader whose stream ended tears down whatever writer the
client has *now*; a cancellation may be swallowed by a task that awaits another
cancelled task; a keepalive, too, may hold the write lock while it waits for
the bridge to read; a report of a lost connection may find the reconnect task not
yet done though it is past its loop; an unload may meet any of them. Outside
this core: cooldowns measured from a time read before an await, a poll that
overwrites a newer push, back-off that must not be reset by a session that
dies at once, retries of requests that were executed, rounding.
`PROJECT.json` lists these hazards at the lines where they bite.

## 2. Plan

In order of importance; a module marked * is written.

| Module | Code | Abstract specification, composition, theorems |
|---|---|---|
| `Plan44Client` * | `plan44_client.py` | extended by the coordinator; its invariant is proved |
| `Plan44Coordinator` * | `coordinator.py` 155-263, 407-487, `__init__.py` 300-392 | composes the client with every task that uses it; `OneReconnectLoop`, `KeptAlive`, `StatusTrue`, `NeverGivesUp` proved, and, for set-up, loop and unload alone, `OneConnection` and `ShutdownIsFinal` |
| `ReconnectBackoff` * | `coordinator.py` 68-81, 197-245 | the two delays of the reconnect loop; bounds proved |
| `EchoGuard` * | `coordinator.py` 450-552 | one entity, its forwards, commands and cooldowns; `InSync` proved |
| `BridgeLink` *, `PinnedLink` * | `bridge_client.py` | run loop and host-key pin; implements `PinnedLink`, proved |
| `DeviceStates` * | `device_coordinator.py` | poll and push, which converge once the bridge is quiet; `NotMasked` proved |
| `Exports` * | `store.py`, `coordinator.py` 284-430, the virtual-device flow | the five copies of an export through services, flows, outages and restarts; all its invariants proved |
| `Inbound` * | `coordinator.py` 436-448, 603-700, `inbound.py`, the import flow | imports, reloads, callbacks and the bounded cache of discovered channels; all its properties proved |
| `WebRequests` * | `web_client.py` 307-453 | attempts and fades against a bridge that executes them; all its properties proved |
| `PacketInterval` * | `web_client.py` 840-934, `device_coordinator.py` 190-206, `radio.py` | packet times made of ages; proved |
| `Levels` * | `protocol.py` 137-191, `light.py` 171-272, `naming.py` | conversions there and back; proved |
| `MCBridge` *, `MCExchange` *, `MCRetries` *, `NoValue` * | - | instances for TLC; the `None` their modules share |
| `EntryLifecycle` | `__init__.py` | failing platform set-ups and the web certificate's pin beside the host key's |

Theorems worth proving next: `OneConnection` without the premise `QuietUnload`, of
which TLC finds no violation; and, with auto-republish, how far `NeverGivesUp`
still holds as long as no connection is lost in mid-republish.

## 3. Modules

**`Plan44Client`** is the TCP client at the granularity of asyncio. Variables
are the fields of `Plan44Client` (`reader`, `writer`, `readerTask`,
`keepaliveTask`, `intentional`, `lock`), the state of every transport (`sock`),
of every reader task (`rd`) and keepalive task (`ka`, and `kaWriter` for the
one whose message waits in `drain()`), and, for each task that
may call the client, the place inside the method (`call`) and a cancellation
on its way (`cancel`). One action stands for the code between two awaits:
`Connect`, `KeepaliveStopped`, `OpenConnection`, `Acquire`, `LockGranted`,
`DrainReturns`, ... for the methods; `ReaderStarts`, `ReaderSeesEnd`,
`ReaderFinishes`, `ReaderReports` for the reader and its finally block (which
reads `self._writer` when it runs, not when the reader started);
`CancelKeepalive`, `KeepaliveEnds`, `KeepaliveWaits` and `KeepaliveResumes` for the keepalive; `Disconnect` to `WriterClosed` for `async_disconnect`; and the
network's `PeerCloses`, `ConnectionReset`, `ConnectionLost` and asyncio's
`WriterDropped`. Errors leave a
method through the result `"error"`, cancellations through `"cancelled"`.

**`Plan44Coordinator`** extends it with the program counters of the coroutines
that use the client: `Entry` (set-up, then unload), `Loops` (reconnect tasks)
and `Forwarders` (a state change, a service, the startup listener).
`pc` names the statement a coroutine executes next, `todo` the devices it still
has to register, and the remaining variables are the coordinator's fields.
`known` is what the bridge has been told on the newest connection; a new
connection empties it, as the bridge forgets the devices of a lost one.

| Action | Code |
|---|---|
| `CallClient`, `ClientProgress`, `ConnectionOpened` | the awaits of the client's methods |
| `Connected` | `coordinator.py` after `async_connect` in set-up (157-175) and in the loop (245-263) |
| `StartDevices`, `Registered` | `async_republish_virtual_devices` and its likes (407-425) |
| `CheckShutdown`, `Reached`, `Pushed` | `async_forward_entity_state` (450-487) |
| `RetryLater`, `Fails`, `Throttle`, `LoopCancelled` | the reconnect loop's failure path, sleeps and end |
| `HandleDisconnect` | `async_handle_disconnect` (190-195) |
| `StateChanged`, `DevicesRequested`, `HomeAssistantStarted` | the tasks Home Assistant starts |
| `Shutdown`, `Disconnected` | `async_shutdown` (178-188) and unload |
| `Fault`, `IncomingMessage`, `KeepaliveMessage`, `StreamStep`, `ClientTasks` | network, reader and keepalive |

`Plan44Client_proofs` and `Plan44Coordinator_proofs` hold the proofs.

**`ReconnectBackoff`** is the loop again, on a clock and without the client's
insides: a connection is up or down, and `_last_connect_at` and
`_short_session_delay` are `lived` and `shortDelay`. `Drop` is
`async_handle_disconnect` with the start of the loop up to its first sleep,
`ThrottleOver`, `ConnectFails`, `Retry` and `ConnectSucceeds` are its turns,
`ForwardConnects` a forward that reconnects beside it. `age` is what the
property compares with: how long the connection has really been up.

**`EchoGuard`** has one exported entity and its device on the bridge.
`forwards` is the queue of the forwards at the write lock, of which the first
has sent; each remembers when it began, which is the time it records
(`ForwardDone`). `command` is the service call the reader waits for; the entity
takes its value during the call (`ServiceApplies`) or after it (`LateEffect`).
`ForwardSuppressed` and `ReverseSuppressed` are the two guards.

**`PinnedLink`** is what a real-time link promises: stopped, it reports no
connection, and it is never connected to a host whose key is not the one it
trusts. **`BridgeLink`** is the run task of `bridge_client.py` with an action
from await to await (`at` names the await), `async_stop`, and the set-up and
options code that keep the key (`Authenticated`, `Reload`, `ForgetHostKey`). It
refines `PinnedLink` by `on` = the task runs, `up` = the peer's key while the
status says connected, `trusted` = the key in the entry's data.

**`DeviceStates`** is the data coordinator: `poll` names the request
`_async_update_data` waits for, `states` its local result, `data` what the
entities read. `SensorsAnswered`, `LightsAnswered` and `RadioAnswered` end in
the next request or in the result, which replaces the data; `ApplyPush` is
`apply_push_update`; `PollFails` raises the issue or, for an exception that is
not the web API's, leaves it (`IssueOfFailure`); `TurnLight` to
`CommandFails` are the service calls of a light, which ask for a refresh.

**`Exports`** follows an export through its five copies: `file` and `mem` are
the store's, `subentries` the config entry's, `view` is
`_exports_by_entity`, `tracked` what the state listener listens to, `bridge`
what is registered on the present connection. `task` holds, for each service
call, listener call, the startup listener and the reconnect loop, the step it
is about to take and the exports it has still to register. `Create` to `Saved`
are `async_create_virtual_device` from await to await (connect, announce, the
store's `async_add_export` before and after its `async_save`, the forward),
`Remove` and `Removed` the removal, `EditSubentry` a flow with the update
listener and `Sync`, `Republish` to `Push` the republish in all its four
callers. `Lose`, `Reconnect`, `Load`, `Loaded` and `Restart` are what happens to
the connection and the entry. `Merged` is the merge of the two sources, in which
the last subentry counts. Two ghosts say what the properties need: `reported`,
what a finished call has left behind, and `torn`, the registrations a lost
connection undid in mid-create or in mid-republish.

**`Inbound`** is the other direction. `imports` are the subentries of imported
devices, `planned`, `entities` and `callbacks` what set-up makes of them,
`shown` the entities' states and `found` `_discovered_indices_by_tag`. `stage`
walks through set-up (`Initialize`: the reader runs; `ForwardSetups`:
`resolve_device` has read the subentries; `AddEntity`, `SetUp`) and unload
(`Unload`, `RemoveEntity`, `Shutdown`), with imports, removals and pushed
values at every stage. `Import` is the flow with `_async_schedule_entry_reload`,
`PushValue` `dispatch_inbound_channel` with `_notify_discovered_channel`.

**`WebRequests`** is a set of executor threads in `_request_sync`. `at` is the
place within an attempt (the token request, the vdc request, its reply), `queue`
the requests of a fade; `Executed` is the bridge's part, which stores a channel
(`pending`) or applies what is stored (`light`). `Fails` is what an attempt that
fails in a given way leads to: `IsOSError` says which failures the except
clause of `_request_sync` takes for transient.

**`PacketInterval`** has the bridge's clock of packets (`packets`, `last`) and
what polls make of it: `Reply` and `Arrived` are the two ends of a radio query,
between which at most `Transit` passes; `Steady` and `WithPacketInterval` are
`steady_last_packet` and `with_packet_interval`; `entity` is what the
diagnostic entities show.

**`Levels`** applies conversions to a state in a chain and compares the ends:
`LightStateToP44` and `P44ToBrightness` for the exported light, `Percent` and
`Shown` for the imported lamp, `DisplayNames` for names. A name is a base and a
sequence of value ranges, of which `DisplayName` cuts off the last.

**`MCBridge`**, **`MCExchange`** and **`MCRetries`** put modules together for TLC
that share no variable: `part` chooses which of them a behaviour is one of, so
that the state space is the sum and not the product of theirs.

Their modules are extended, so that a run checks the very definitions the proofs
are about (hence `LinkInit`, `EchoInit`, `InboundInit`, `WebNext`, `RadioTypeOK`).

The proofs are in `Plan44Client_proofs`, `Plan44Coordinator_proofs`,
`BridgeLink_proofs`, `DeviceStates_proofs` and `Exports_proofs`, each about the
module it is named after; in `Exchange_proofs` (`Inbound` and `EchoGuard`),
`Retries_proofs` (`ReconnectBackoff` and `WebRequests`) and `Conversions_proofs`
(`PacketInterval` and `Levels`). None is extended by a module of the model.

## 4. Modelling decisions

- **One event loop.** `running` names the task that has the loop. A coroutine
  keeps it from one suspending `await` to the next, so everything between two
  awaits is atomic with respect to other tasks, although a method of the client
  and its caller are separate actions. Actions of the network and of other
  tasks wait for `running = None`. Tasks made with `hass.async_create_task`
  start eagerly, as Home Assistant does.
- **Sockets have identities.** A connection is a member of `Sock`, and readers,
  writers, reader tasks and keepalive tasks are named by the socket they were
  made for. This is what lets the model tell the connection a task *has* from
  the one the client *has now*. A dead socket that nothing refers to any more
  (`Free`) is used again, so a few identities stand for any number of
  connections.
- **Ready tasks before handshakes.** `OpenConnection` and `OpenFails` require
  `NothingReady`: what is ready runs in this or the next pass of the loop, a TCP
  handshake takes several. A reader whose stream or writer has ended, a `drain()`
  on a lost transport, a waiter of a free lock and a writer to be collected are
  ready. A reader that was just created or cancelled (`ReaderAroused`) is not
  waited for: two handshakes may end in neighbouring passes, and the second
  finds the reader the first has made not yet run. What the network makes ready
  needs no such exception, since it might as well have become ready later. For
  the same reason the shortest trace of `forward_after_unload` lets a handshake
  end before a reader that was cancelled has run; the run fails without that too.
- **Two readers of one stream.** A reader takes `self._reader` when it starts,
  which may be the stream of a newer connection with a reader of its own.
  asyncio lets one task wait for a stream and raises `RuntimeError` in another;
  which of them comes to wait last is open, so `Contended` lets either leave,
  through its finally block.
- **Forgotten writers.** A connection that another has replaced closes when the
  last reference to its `StreamWriter` is gone (`WriterDropped`); a `drain()`
  that still waits for it is such a reference.
- **drain().** A send suspends in `drain()` or not. `initvdc`, the first line
  on a fresh transport whose buffer is empty, never does. A drain that returned
  still has to get the loop back (`drained`), and may be cancelled before. The
  constant `Backpressure` says whether the bridge may be so slow that a drain
  has to wait at all.
- **The keepalive's message** takes the write lock like any other. One whose
  drain does not wait changes nothing; one that waits (`KeepaliveWaits`,
  `KeepaliveResumes`) holds the lock under the name of its socket until the
  bridge has read, the transport is lost or a connect cancels it. A keepalive
  that waits for the lock itself changes nothing either.
- **Waiters of the lock** are served in any order in the core; asyncio's FIFO
  order is one of them. `EchoGuard`, where the order of the values matters,
  keeps the queue.
- **Blocking handlers.** `async_handle_plan44_message` may await a service
  call; the reader is then in `handling`, and its stream may end meanwhile.
- **Time.** The core lets a sleeping loop wake at any time. `ReconnectBackoff`,
  `EchoGuard`, `DeviceStates` and `PacketInterval` count ticks; ages are counted up to the
  threshold beyond which nothing depends on them. In `BridgeLink` the only
  clock is whether `HEALTHY_SESSION_SECONDS` have passed (`TimePasses`), and
  the delays are numbers that are remembered, not waited for.
- **Not modelled in the core:** payloads and which state a push carries.
- **Connections, coarse and fine.** `Exports` and `Inbound` take the connection
  as up or down; how it comes up and which task it is lost to is the core's
  subject. A call that awaits the client fails whenever the connection is down
  (`Fails`).
- **Threads.** A web request runs in an executor thread, so the steps of two
  requests interleave at the bridge. A request the bridge executes after the
  client has given it up is not modelled, and a reply is assumed to take no
  longer than `_LAST_PACKET_JITTER` (`RadioAssumption`): with a slower network
  `RealInterval` would not hold. The bridge's clock does not jump.
- **A failed poll** raises the issue only for a `Plan44WebApiError`; another
  exception, of a body that is no text, fails the update and leaves the issue as
  it was (`IssueOfFailure`).
- **Unload with calls in flight.** `Restart` of `Exports` ends all calls. In the
  code a service call in flight across a reload goes on with the old
  coordinator and writes the old store's file; this is not modelled.
- **Exports** of the core are those whose entities have a state; the others are skipped by
  the code. Whether an export is enabled or a state convertible is a
  nondeterministic choice (`CheckShutdown`, `Reached`).
- **External code.** The event loop, the bridge, the network, Home Assistant's
  service calls and its `DataUpdateCoordinator` (when a poll is due, what a
  failed one does, that a requested refresh is brought forward but not past a
  poll under way) are modelled from how the code uses them and are marked
  external in `PROJECT.json`.

## 5. Runs and their bounds

The runs of the core use module `MCPlan44Coordinator`; identities of the same
kind are symmetric (not in the liveness run). Deadlock is not checked in them:
once the entry is unloaded nothing is left to do. It is checked in the others.

| Run | Instance | Question |
|---|---|---|
| `startup` | auto-republish in set-up, startup listener and loop, a forwarder, 2 loop identities, 2 sockets, 1 export, 1 fault, drains that wait | types; one reconnect loop; the lock only across `drain()` |
| `outages` | a forwarder that only reconnects, 1 loop identity, 3 sockets, 2 faults; no drain waits, no unload meets a call | whatever tears down what, the program comes to rest connected, with a keepalive, and says so |
| `unload_quiet` | set-up, loop and unload only, 3 sockets, 2 faults, drains that wait; an unload only while no task is inside the client | never two live transports, readers or keepalives; an unloaded entry owns nothing |
| `reconnects` | a forwarder, 2 sockets, 1 fault, drains that wait, fairness | a lost connection is replaced |
| `bridge` | `BridgeLink`: 2 host keys, the code's delays and warning threshold; `DeviceStates`: a device that is sensor and light, a stranger, 2 values, 2 changes, 1 push on its way, interval 2; fairness | back-off; refinement of `PinnedLink`; the session comes back; the data converges, polls go on, a broken web API is not masked |
| `exchange` | `Exports`: 2 entities, 2 subentries, 2 contents, 2 calls, 3 edits, 1 loss or restart, auto-republish; `EchoGuard`: 2 values, cool-downs of 2 and 3 ticks of half a second, 3 changes, 2 lines per direction; `Inbound`: 2 subentries, tags, channels and values, a cache of 1 tag, 2 changes of imports | what services reported is on disk; the view and the listener follow the exports; the bridge knows them at rest; entity and device agree unless a cool-down dropped something; every pushed value reaches its entity; no import is left out; the cache's bound |
| `retries` | `ReconnectBackoff`: ticks of 10 s, healthy 6, maximum 30, base 1; `WebRequests`: 2 threads, 2 channels, 3 attempts; `PacketInterval`: ticks of 5 s, jitter and transit 2, 7 ticks; `Levels`: every brightness, every whole percent and four others, 3 names of up to 2 ranges | both delays of the loop; a light moves in one; success means done; each request has its attempts; an interval is one between packets; levels, sliders and names survive their conversion |
| `gives_up`, `forward_after_unload`, `bridge_alarms`, `web_permanent`, `names_collide` | see findings | expected to fail |

Why these bounds are enough to be of interest: two loop identities let a second
reconnect task exist if the code ever started one; two sockets are needed for
one connection to replace another, three for a racing connect to replace a
replacement; one forwarder already races set-up, loop and unload on every
await; one fault is one lost connection, two let the second meet the recovery
from the first. `MaxFaults` bounds losses of connections (an end of file, a
reset, or a handler that raises); failed connection attempts are not bounded.
`outages` is without auto-republish, exports and waiting drains: with all three a
loss in mid-republish breaks `NeverGivesUp` (finding 1), with waiting drains alone
the notes below finding 5 do. Its forwarder connects and sends nothing; section 8
proves the three properties for any number of tasks, sockets, exports and
faults. One loop identity is enough there because they speak of an entry that
is not being unloaded, where `OneReconnectLoop` leaves one, and `QuietUnload`
takes away only what follows an unload. In `unload_quiet` the same constant is the
premise; finding 2 and the notes below it say why it is needed.

In `bridge` two keys are the trusted one and another; `MaxFailed` caps the
count of failed attempts, of which only the comparison with the threshold
matters; nothing else is bounded. One device is enough because
no code relates two; a stranger shows that what is not imported is left out.

In `exchange` two calls are enough for one to overlap another, or for a
republish to overlap a create; three edits let a third change meet what two
left behind (a removed export whose device is still registered, two subentries
of one entity); one loss is a lost connection or a restart. Calls are
symmetric. In `EchoGuard` three changes by users let a change at
each side cross and be followed by another; five changes and three lines (2.5
million states) show nothing new. A cache of one tag is full at once and has
another tag that finds it full. `EditsInSetup` and `SharedTags` are off: see
below for what they would show.

In `retries` the delays need no bound. Three attempts are the code's, two
threads meet at one lamp, two channels make a fade of two requests. Seven ticks
hold two packets, two polls that see each and a reply that takes its time. Three
names with up to two ranges each are enough for one to lose a range and meet
another that kept its own; `CleanNamesDistinct` is about names for which that
cannot happen, `names_collide` about the others.

## 6. Fairness

`Reconnects` needs that every task that can run is run (the event loop), that
the write lock serves its waiters in turn, and that a bridge that is asked
again and again answers in the end. The first two would be weak fairness in a
program with one thread; strong fairness per task is used because a step of a
task is disabled whenever another task has the loop, so "continuously enabled"
holds of no task although the loop's queue is FIFO. Strong fairness of
`ConnectionOpened`, for some task and not for each, is the assumption about the
bridge; that of `StreamStep` says that a bridge reads what it was sent or loses
the connection, and that a forgotten writer is collected. Nothing is assumed of
forwards, faults or the unload. The order of attempts is not: a loop that is
sleeping may be overtaken by forwards, and the property allows either to
restore the link.

`BridgeLink!LinkRestored`: an attempt ends, an SSH connection is closed and a
sleep is over in finite time (weak fairness of `ConnectFails \/
HostKeyRejected`, `Exited`, `WakeUp`; asyncssh's own time-outs and
`asyncio.sleep`), and a host that keeps being asked accepts the key and opens
the tunnel in the end (strong fairness of `Authenticated` and
`SessionOpened`). The host may change its key for ever, hence the exception in
the property.

`DeviceStates!Converges` and `PollsGoOn`: time passes, pushes that were sent
arrive, polls that are due start (weak fairness), and a web API that is polled
for ever answers each of its requests in the end (strong fairness). Light
commands and the bridge's changes are not fair; `MaxChanges` says that they
stop, which "once the devices stop changing" means.

No liveness is claimed of `Exports`, `EchoGuard`, `Inbound`, `WebRequests` and
`PacketInterval`: their calls end by failing as well, and a property "once
everything is at rest" (`Registered`, `InSync`) says what matters without
fairness.

## 7. Findings

1. **`gives_up`** - the reconnect loop republishes inside the reconnect task.
   If the connection drops meanwhile, `async_handle_disconnect` sees the task
   not done and returns (`coordinator.py:193`), the republish fails, the loop
   returns, and nobody reconnects until some state changes. The loop's
   docstring says "never giving up".
2. **`forward_after_unload`** - `_shutting_down` is read at the head of a
   forward and not after its await; a forward inside `async_connect` opens a
   connection after the unload, which the release notes say cannot happen.
3. **`bridge_alarms`** - `_run` logs a warning of its own for every attempt
   that ends with an exception, beside the line whose level
   `link_down_log_level` chose: neither "once per outage" nor silence about a
   drop that heals at once holds of the log as a whole.
4. **`web_permanent`** - `_request_sync` retries every `OSError`, and an
   `HTTPError` of the vdc request and the `URLError` around a failed handshake
   are among them: a changed certificate or an error status does not fail at
   once, as its docstring says, and the message that asks for a new pin is not
   reached.
5. **`names_collide`** - `display_names` compares the cleaned names with each
   other and not with the originals it keeps. Only the last range of a name is
   cut off, so that "A, 0..1, 2..3", "A, 0..1" and "A, 0..2" are displayed as
   "A, 0..1" twice and "A, 0..2", although its docstring says that no two
   collide.

Seen while modelling, where no document promises otherwise, or only in part:

- A forward that reconnects (also the one inside a republish) never calls
  `_set_connected(True)`: with auto-republish the link can work and the
  connectivity entities say disconnected. `StatusTrue` is checked without.
- Two forwards and a slow bridge can leave an outage to nobody, even without
  auto-republish. The reconnect loop connects and ends; one forward waits in
  `drain()` with the write lock; another, which was opening a connection at the
  same time, replaces that of the loop and waits for the lock to send `initvdc`;
  the new connection is reset. It has no reader yet, the forward fails, and no
  callback starts a loop. A keepalive that waits in `drain()` and is no longer
  the one the client has a handle of can take the part of the first forward.
  `outages` sets `Backpressure` to `FALSE`; `NeverGivesUpUndrained` assumes that
  no `drain()` has to wait.
- `_cancel_keepalive` catches a `CancelledError` meant for the task that awaits
  the keepalive: an unload that cancels the reconnect loop just there is
  followed by a reconnect. `QuietUnload` excludes it.
- A reader that starts after an older reader's finally block forgot the stream
  fails with `RuntimeError`, which `async_disconnect` re-raises out of the
  unload (action `Disconnect`) before it closes the writer; a reader older than
  the newest, suspended in a handler, is not cancelled by `async_disconnect`;
  the service, startup and sync tasks do not look at `_shutting_down`.
- `reconnect_throttle` measures from the loop's own last success. A connection
  that a forward opens while the loop sleeps is measured from when the loop
  wakes and finds it, so that a healthy session may be throttled; the one
  set-up opened is never throttled. `ShortIsThrottled` names the latter.
- The guard against echoes is armed after the blocking service call, when the
  state change the call caused has been forwarded already; it only catches
  changes that come after the call. One it catches may still matter: if the
  bridge has meanwhile received an older forward, dropping the echo leaves the
  two sides different. `InSync` counts every drop for that reason.
- `_validate_virtual_device` skips subentries whose data is no `dict`
  (`config_flow.py:316`); Home Assistant hands them out as mapping proxies, so
  the check for an entity that is exported twice never fires (`Dicts` is
  empty). The last subentry counts; `Tracked` and `Registered` hold with it.
- A subentry changed while the entry is being set up is in nobody's view until
  the next refresh: the update listener is added last (`__init__.py:377`) and
  the flow's own sync does nothing without `runtime_data`. With
  `EditsInSetup = TRUE`, `Tracked` fails.
- Nothing keeps two subentries of imported devices from having the same tag;
  the entity added last takes the callback of the other. With
  `SharedTags = TRUE`, `Delivered` fails.
- A create that loses its connection after the announcement, and a loss in
  mid-republish, leave an export unregistered until the next republish (`torn`).
- The channels a fade has sent before it failed stay pending at the bridge, and
  the next fade applies them with its own; `Done` excludes it by its premise
  that no call failed.
- A light turned on without arguments whose last known state is on sends nothing
  and asks for no refresh, although the state may be stale (`light.py:235`).
- A device set to a level between 0 and 1 % turns its light off, because `int()`
  makes 0 of it (`protocol.py:187`); `LevelKept` excludes it. A level that is
  not a number raises there.
- A body that is not UTF-8 raises `UnicodeDecodeError`, which no clause of
  `_request_sync` names; `Fails` ends the call with it.

## 8. Proofs

`Plan44Coordinator_proofs` proves, for any sets of tasks, sockets and exports
and any `MaxFaults`, assuming only that tasks, sockets and `None` are distinct
(`TaskSockAssumption`) and that `Entry`, `Loops` and `Forwarders` partition
`Task` (`TaskAssumption`):

- `Typing`: `Spec => []TypeOK`;
- `LockIsHeldAcrossDrain`: `Spec => []LockHeld`;
- `OneLoop`: `Spec => []OneReconnectLoop`.

None is inductive alone. That the lock is only held by a task in `drain()`
or by a living keepalive whose message is, depends on who may take a step: a task that has the loop is not suspended
(`Working`), so a call that ends was not the holder unless its own step freed
the lock. A connect that sends `initvdc` knows its socket (`Opened`), or the
reader it starts would have no type. An idle coroutine is in no call of the
client, and one at work on a device has one left (`Placed`), or `CHOOSE` would
leave the exports. A keepalive that is cancelled lets
the lock go (`CancelKeepalive`), one that ends of itself does not have it
(`KeepaliveHolds`). `Inv` is the conjunction; `Invariance` proves it inductive
with one lemma for every action, those of the client in `Plan44Client_proofs`
and lifted by `ClientStepsKeep` and `ProceedKeeps`. `OneReconnectLoop` is
inductive relative to `Inv`: every step but `HandleDisconnect` leaves idle loops
idle (`TaskStepStartsNoLoop`), and `HandleDisconnect` starts one only when the
task it has a handle of, by induction the only one, has ended. After an unload
has begun the handle is dropped and the property says nothing.

The same module proves `OneConnectionAlways` (`Spec => []OneConnection`) and
`ShutdownIsFinalAlways` (`Spec => []ShutdownIsFinal`) for any loops, sockets and
faults under the premises of the run `unload_quiet` (`Solo`): set-up, loop and
unload alone use the client, nothing is republished, and no unload meets a
connection attempt. TLC breaks `ShutdownIsFinal` without any one of the three
(finding 2 and the notes of section 7) and `OneConnection` without the first or
the second: a second task, or a republish that has lost its connection, opens one
while the reader of the old still closes it. The invariant, `Lone`, follows one connection round its
life: a task that connects is the only one to do so and finds no reader, no
keepalive and no open transport (`Connects`, `Connectors`); the only reader
alive is the one the client has a handle of, and one that is closing has no
open transport (`Readers`, `Single`); an unload ends the reader, then the
keepalive, then the transport (`Disconnects`), and meets only loops it has
cancelled (`Stopping`).

About the program at rest, with *all* its tasks and their races, the module proves

- `KeptAliveAlways`: `Spec => []KeptAlive`, without any premise;
- `StatusTrueAlways`: `Spec => []StatusTrue` without auto-republish;
- `NeverGivesUpUndrained`: `Spec /\ [](lock = None) => []NeverGivesUp` without
  auto-republish, and from it `NeverGivesUpAlways`: `Spec => []NeverGivesUp`
  without auto-republish where no drain ever waits (`~Backpressure`), as in the
  run `outages`.

`Settled` says nothing of connections, so each needs an invariant of who has
what still before it. `RestInv`: a coroutine is in the method its statement calls
(`Matched`); before the unload nobody is cancelled and no reader is told to stop
(`Calm`); an open connection has a keepalive or a task that is about to start one
(`Kept`), which is why a connect may cancel another's: it cancels none while the
client is connected, and replaces a connection only by its own; that keepalive
is not one whose message still waits for an earlier connection (`Stale`), which
the loss of that one would end; a reader that
reports has the loop (`Reports`). `PlainInv` adds that while the status says
disconnected, set-up or a loop is about to connect (`StatusKept`): a loop without
republish ends only by `_set_connected(True)`. `OutageInv` says who answers
an outage: an open connection is the one a reader reads, or will once its
`initvdc` is out (`Tended`); if none is, a reader is about to report it or a
loop is at work (`Answered`); and only such a reader closes the transport the
client has (`Closers`; others close when their writers are forgotten). A step inside a method does one of three things to the connection
(`CallEffects`): nothing, open one, or start its reader.

`lock = None` throughout, that no `drain()` has to wait, is the normal case for
messages far below the buffer limit, and where the code breaks `NeverGivesUp`: a
loop that waits in mid-republish is still alive when it is needed (finding 1), and
a connect that waits for the write lock has a connection without a reader (the
note in section 7). Auto-republish is excluded because `PlainInv` needs it; for
`StatusTrue` that premise is necessary, for `NeverGivesUp` where no drain waits
TLC finds no violation without it.

`BridgeLink_proofs` proves, for any set of host keys and any delays with
`0 < ReconnectMin <= ReconnectMax`, `BridgeTyping` (`LinkSpec => []LinkTypeOK`),
`Backoff` (`LinkSpec => []NoStorm`) and `BridgeRefinement`
(`LinkSpec => ImplementsPinnedLink`). The refinement needs to know that a client
that says it is connected has a peer, that a peer's key is the pinned one, and
that the pinned key is the saved one unless the user had that forgotten
(`PinInv`); `NoStorm` needs the same relation of `delay` and `waited` between
two sleeps (`DelayInv`).

`Retries_proofs` holds the proofs about `ReconnectBackoff` and `WebRequests`. Of
the former it proves `WaitsAreBounded` (`Spec => []BackoffTypeOK`) and
`NoSpin` (`Spec => ShortIsThrottled`) for any positive delays. The invariant
behind `NoSpin`: while no loop runs and the connection is not the one of
set-up, `_last_connect_at` is set and not longer ago than the connection is old.

`Exports_proofs` (assuming `ExportsAssumption`: every non-empty set of
subentries has a last one, the markers are distinct from the data) proves
`ExportsTyping`, `DurableAlways` (`Spec => []Durable`), `RegisteredAlways`
(`Spec => []Registered`) and, when no subentry changes during set-up,
`TrackedAlways` (`Spec => []Tracked`). `Durable` speaks
of the file alone and is not inductive: a call writes what the *memory* holds,
also on behalf of others. `Remembered` says the memory holds what was reported
as well, `Quiet` that no call is under way while there is no memory, `Placed`
that only a service call, on one entity, is between memory and file. `Tracked`
needs `ViewAtSetup` for its first state and from `Placed` that the reconnect
loop saves nothing; a republish refreshes the view and not the listener, and the
proof shows why that is enough: outside a save the view it refreshes is the same.
`Registered` speaks of rest only; its invariant `Telling` says at every moment
who will tell the bridge what. While the entry is loaded, every entity that is an
export or that the view takes for one (`Owed`) is at the bridge or undone by a
lost connection (`Seen`), or some task still promises it (`Promises`): the loop
that connects will republish everything, a republish and a sync register what
they have on their lists. A task takes an entity off its list only by
registering it or because the export is gone, and without a link the loop
connects or has lost its connection in mid-republish (`Unlinked`). A call in
mid-create has announced its entity before it stores it (`Positions`), and the
file is behind the memory only during a save (`Stored`).

`Exchange_proofs`, about `Inbound` (assuming `ImportAssumption`), proves `InboundTyping`,
`DeliveredAlways`, `UpToDateAlways` and `CacheIsBounded`. Behind `Delivered` is
that without shared tags an entity's tag, its key and its callback are its own
(`OwnTags`, `OwnKeys`, `OwnCallbacks`), so a push finds it, and that set-up has
planned nothing but what its stage allows (`Staged`, `Claimed`); behind
`UpToDate`, that whatever was imported since the subentries were read has a
reload before it (`Complete`); behind `Discovered`, that the cached tags are
finitely many (`Cache`).

About `EchoGuard` (assuming `CooldownAssumption`) the same module proves
`EchoTyping` and `InSyncAlways` (`EchoSpec => []InSync`). As long as no cool-down
has dropped anything, whoever is to change last changes to what the other is: if
anything is under way to the bridge, the last of it is the entity's state
(`Forwarded`); if nothing is and the two differ, the last command under way to
Home Assistant, in the order in which it takes effect, is the device's value
(`Following`). `LastSent` and `LastCommand` say what "last" means: the lock's
queue before the line, and the lines before the command before a late effect.

`DeviceStates_proofs` proves `DeviceTyping` and `NeverMasked`
(`Spec => []NotMasked`) for any devices and values. A poll may be answered only
if it waits for one of the requests it makes (`Polling`); everything that shows
data as fresh is the end of a poll that also clears the issue.

Of `WebRequests` (assuming `WebAssumption`, in which the channels of a device
are finitely many) `Retries_proofs` proves `WebTyping`, `OneMoveAlways`, `DoneAlways` and
`PatienceAlways`. `Shaped` says only the last request of a call applies, `Owed`
that a value waits at the bridge only for a call that has still to apply it or
has failed, `Alone` that a call that runs alone has either changed nothing, all
it was asked to being waiting or ahead (`Collecting`), or everything
(`Applied`). `PatienceAlways` rests on `Counted`: the failures counted are those
of the request at hand.

`Conversions_proofs` (assuming `RadioAssumption`, which says that a reply is
not longer on its way than the jitter allowed for) proves of `PacketInterval` `RadioTyping`,
`RealIntervalAlways` and `LastPacketIsFresh`. The last packet kept is that of a
real packet but for the transit (`RadioSeen`) and not later than what the bridge
knows or a reply tells of (`NoneLater`, `ToldOf`); two times farther apart than
the jitter are then those of two packets, in that order (`TwoPackets`).

Of `Levels` it proves `LevelsTyping`, `LevelKeptAlways`, `SliderStaysAlways` and
`CleanNamesDistinctAlways`. What `round()` does is bounded by two products
(`RoundByPercent` and its likes); a whole percent then survives its way to 0..255 and back
(`PercentReturns`), and a brightness its way to a percentage with two decimals
and back (`BrightnessReturns`), by arithmetic over all values rather than case by
case. The states compared are those the conversions have made (`Answered`,
`Dimmed`). Names stay distinct because a name is shortened only if no other
shortened name would fold to the same (`DisplayKeepsApart`), and because a name
that was kept is not what is left of another: it would be left of itself as
well, were it not to be shortened again. `NamesDistinct`, without that proviso,
is false (finding 5).

Only model-checked: liveness (`Reconnects`, `LinkRestored`, `Converges`,
`PollsGoOn`), which the prover cannot do. Every other property of a passing run
is a theorem.

