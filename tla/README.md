# Coding Bridge: specification and proofs

TLA+ modules for the core of Coding Bridge, the TLC configurations that check
them on small instances, and TLAPS proofs of the results that matter most. Paths
such as `session.py:254` are under `src/coding_bridge/`.

- [1 The system](#1-the-system): its parts, their state, how they interact
- [2 The modules](#2-the-modules): which module models which part, and how
- [3 What is checked](#3-what-is-checked): runs, bounds, fairness
- [4 What is proved](#4-what-is-proved): theorems, assumptions, invariants
- [5 Where the code differs from what it says](#5-where-the-code-differs-from-what-it-says)
- [6 What is not modelled](#6-what-is-not-modelled)
- [7 Plan](#7-plan)

## 1 The system

A node is one daemon process on the owner's machine. It keeps one outbound
WebSocket to a relay, through which browsers start coding sessions and watch
them. A session drives one coding agent (Claude through its SDK; Codex and
Copilot as subprocesses). A second daemon, `channels start`, runs the same
sessions for WeChat and Telegram messages, and a third process, the portal, lets
the owner configure the channels and approve what an agent wants to run.

Each daemon is one asyncio loop. Nothing runs in parallel on the loop, but almost
everything is interleaved: every `await` lets other tasks in. So a step of the
models is the code between two suspension points, and most hazards are states
read before an `await` and used after it. Two things do run in threads: the read
marks and the stop of a codex process, whose steps are their accesses to files and
processes. The portal is a threaded server, whose steps are what it does under
a lock or in one request.

### 1.1 Inventory

| Part | State | Operations | What is hard | What makes it correct |
| --- | --- | --- | --- | --- |
| **Event delivery** `connection.py:70-209`, `protocol.py` | `_node_seq`, `_outbox`, `_truncated_sessions`, `_ws` | `send_payload`, `_flush_outbox`, `_ack_outbox`, `_trim_outbox`, reconnect | emits during a flush, loss of frames and acks, overflow while disconnected | no event is lost without overflow, none is stored twice, an overflow is reported |
| **Session registry** `connection.py:331-456` | `sessions`, `_aliases`, each session's `session_id` | `_start_session`, `_edit_session`, `_close_session`, `_rekey_session`, `_session` | an id changes in the middle of an emit; two sessions resume one transcript; the close of a duplicate beside commands | a live session can be reached, also by the id it was renamed from; the registry names sessions by their own id |
| **Command dispatch** `connection.py:211-329, 470-613` | ring of seen `cmd_id`s, background read tasks | `_on_raw`, `_dispatch`, reads, `aclose` | redelivered commands; a command that fails half way; the second of two reads | a command runs once while the ring knows it; a read that is awaited is worked on |
| **Session** `session.py` | `_task` (a chain of tasks), `status`, `_turn_emitted`, provider | `start`, `send`, `edit`, `interrupt`, `close`, `_guard` (retry, failure) | cancelling a chain, retry against output, stop between attempts, close during an edit | turns in order, no replay of what was shown, every turn ends, nothing after close |
| **Permission broker** `permissions.py` | `_pending` futures | `request`, `resolve`, `cancel_all` | timeout, answer, stop and close race; a request is shown before it is registered | allow only by a browser; a blocked request can be found |
| **Claude provider** `providers/claude.py`, `claude_transcript.py` | client, connected flag, announced identity, replay guard, repaired transcripts | `start`, `send`, `edit`, `aclose`, gated receive, `prepare_resume` | cancel during connect, replay of a resumed transcript that another process appends to, streamed and authoritative text of one block | a turn gets its own result, each text is shown once, no client left behind |
| **Codex provider** `providers/codex.py` | subprocess, stop lock, `_interrupted` | `_run_turn`, `_stop_process_tree`, `interrupt`, `aclose` | stop, close and the turn's own clean-up beside each other; jobs that keep the output open; a cancel at any await | one outcome per turn, a stop ends it, no process survives it |
| **Copilot provider** `providers/copilot.py` | subprocess, pending requests, reader and permission tasks, text blocks | spawn, `_request`, `_reader_loop`, permission tasks, tear-down, `aclose` | the process dies with requests pending; a cancel in the tear-down; an answer for a dead agent | a close ends, no agent survives, a deny stays a deny |
| **Channel policy gate** `channels/policy.py` | `_dedup_order`/`_dedup_seen`, `_windows` | `handle` | bounded memory: caps and cutoffs | rate limit, no early repeat |
| **Channel dispatcher and approvals** `channels/dispatcher.py`, `channels/approvals.py` | `_inflight`, approval tasks, request and decision files | `handle_message`, `_run_turn`, `_await_approval`, `aclose`, `decide` | the portal is another process; timeouts, turn end and shutdown race; requests while unwinding | one agent per conversation, one reply per message, allow only by the portal |
| **Telegram adapter** `channels/telegram/` | offset | run loop, `send` | a poll acknowledges what the one before brought; answers are lost | an update is acknowledged once handled, and handled once |
| **WeChat adapter** `channels/wechat/` | socket, poll cursor, seen identities | socket loop, poll loop, `aclose` | two feeds for one message, which may name it differently or not at all; a cursor of whole seconds | no identity handled twice, no message passed over |
| **Supervisor of the channels** `channels_cli.py:497-621` | stop event, runners | start, first end, interrupt, shutdown | an adapter that is connecting or polling when all is closed | the daemon ends |
| **Read marks** `reads.py`, `locking.py` | a JSON file | `mark`, `annotate` | a mark from an older snapshot, eviction, seeding outside the lock | what was not seen stays unread, what was read stays read |
| **Stores** `store.py`, `session_meta.py`, `config.py`, `fs.py` | JSON files | load, save | two daemons write | last write wins |
| **History** `history.py` | none (reads transcripts) | list, detail | files another program appends to | parsing only |
| **Capabilities** `capabilities.py` | a cached answer | probe | a probe that finds nothing is cached for good | a request is answered |
| **Pairing** `pairing.py` | none | poll for a token | - | - |
| **Portal** `channels/portal.py`, `portal_html.py`, `status.py` | configuration file, contacts cache, a lock per instance | HTTP handlers, each in a thread: search, save, `decide`, proxied requests | searches beside each other and beside a save | one fetch at a time, no contacts of a gateway that was replaced |
| **Channel configuration, CLIs, service** `channels/config.py`, `cli.py`, `service.py`, ... | none | parse, print, install | - | - |
| **Attachments, images, logs** | none | conversion | - | - |

### 1.2 How the parts interact

- *Calls.* Relay frame -> `_on_raw` -> `_dispatch` -> a `Session` method. One
  command is awaited at a time; turns run in tasks of their own.
- *Callbacks.* Provider -> `Session._emit` -> `BridgeConnection.send_payload`. The
  same callback rekeys the registry when a provider announces its identity, in
  the middle of the emit. Permission callbacks run in tasks of the agent's SDK.
- *Processes.* Codex and Copilot run as child processes with pipes; they may die, hang
  or start children of their own. Claude's CLI is behind its SDK and shares the
  transcript files with the node.
- *Shared state.* `_turn_emitted` is one flag for all turns of a session.
  `_pending` is shared by callbacks, the command handler and `close()`. The
  approvals directory is shared by two processes. Adapters share a stop event.
- *Messages.* Envelopes and acknowledgements between node and relay; chat
  messages through adapter -> policy gate -> dispatcher.

## 2 The modules

| Module | Models | Kind |
| --- | --- | --- |
| `EventDelivery` | what the node promises about durable events | abstract specification |
| `Outbox` | event delivery, with relay and network as environment | implements `EventDelivery` |
| `OutboxProofs` | theorems about `Outbox` | proofs |
| `Session` | session and permission broker | component |
| `SessionProofs` | theorems about `Session` | proofs |
| `Registry` | session registry | component; takes from `Session` that `close()` may leave a client |
| `RegistryProofs` | theorems about `Registry` | proofs |
| `Admission` | what the policy decides, told from the full log | abstract specification |
| `PolicyGate` | the policy gate with its bounded memory | implements `Admission` |
| `Dispatcher` | dispatcher, approval files and the portal's `decide` | component |
| `Copilot`, `Codex`, `Claude` | the providers, with their agents as environment | components |
| `CopilotProofs`, `CodexProofs`, `ClaudeProofs` | theorems about the providers | proofs |
| `ReadMarks` | the marks of the history drawer | operators, used by `Commands` |
| `Commands` | ring of command ids, background reads, `mark_read` | component |
| `CommandsProofs` | theorems about `Commands` and `ReadMarks` | proofs |
| `Telegram`, `WeChat` | the adapters, with their upstream as environment | components, composed by `Channels` |
| `Channels` | the supervisor with both adapters | composition |
| `Portal` | contacts search and save of the portal | component |
| `ChannelProofs` | theorems about `PolicyGate`, `Dispatcher`, `Portal` and `Channels` with its adapters | proofs |
| `MC...` | instances for TLC | model values and bounds |

In each module a definition has the name of the function or attribute it models
wherever it can. An action stands for everything a handler does from one suspension
point to the next. History variables (marked `history:` where they are declared)
are read by properties, never by a guard. A definition headed `Fault:` is a
plausible mistake in the definition that follows it, used nowhere in the
specification: put in its place, it must break the property named for it in
`PROJECT.json`, which shows that the property depends on the code being right.

### 2.1 Outbox and EventDelivery

`nodeSeq`, `outbox`, `truncated` and `ws` are the attributes of `BridgeConnection`;
`flush` is where `_flush_outbox` is suspended: in the send of a warning, with the
sessions of its snapshot still to warn about, or in the resend of an event, with
the rest of its snapshot. `upWire` and `downWire` are what a connection carries.
`ws = "dead"` is a connection that is broken while nobody has noticed: sends then
vanish or fail.

`Emit` is `send_payload` (number, append, trim, transmit) and may happen at any
moment, also inside a flush. `Connect` publishes the socket before the flush, as
`connection.py:102` does. `WarningSent` and `EventResent` are the returns of
`ws.send` inside the flush. `ReceiveAck` drops the acknowledged prefix; the
receive loop starts only after the flush. `SocketBreaks` loses a suffix of what the wire
carried in each direction. `RunEnds` is the end of `run()` between connections (a token the relay
rejects, `stop()`), and `Cancelled` its cancel anywhere: nothing is connected after either.
`unwarned` remembers the dropped events nobody will be warned about: those whose warning was lost after
`ws.send` returned, and those dropped while it was suspended there, whose flag goes with the old one.

The relay is not in this repository. It is modelled as the one the node relies on
(design document, section 6): it stores an envelope it does not hold yet, and
acknowledges the highest number up to which it holds everything.

`EventDelivery` has three variables and two actions: events are emitted, the relay
stores each at most once, and the node may give up an event only when it has been
followed by `Capacity` later ones. `Outbox!DeliverySpec` says that the outbox with
the relay implements it, with `OutboxMax` for `Capacity`, `relayLog` for `stored`
and the overflow history for `abandoned`.

### 2.2 Session

A turn is an asyncio task, and `turns` holds them in the order of `_spawn`. Its `pc` says
where it is: created (`guard`: `_guard` runs the turn; `chain`: `_chain` first
awaits the task before it), `waiting` for that task, in the provider (`attempt`),
in the reset and the sleep before a retry, in the report of an error, in the
reset after it, `done` or `cancelled`.

asyncio's `cancel()` is modelled by what it does. A task that has not started
ends without entering its body. One that waits for another task passes the cancel
on to it. One that runs gets a `CancelledError` where it is suspended.
`CancelReaches` says which tasks a cancel of the last one arrives at.

`asks` are the permission callbacks. They emit their request (`AskRaised`), then register
with the broker (`AskRegistered`), and return on an answer, the timeout or
`cancel_all`. `cmd` is where the command handler is suspended (an edit in its
announcement, a stop among its messages), `closing` where `close()` is.

The provider is external: an attempt may emit, ask, return or raise in any order.
`client` says whether it holds a live client.

### 2.3 Registry

`objs` are the `Session` objects ever created, `sessions` and `aliases` the two
dictionaries. `Identified` is the whole of `_emit` -> `_rekey_session` for a
`session.identified` event, which runs without suspending. `StartNew`, `Edit` and `Close` have a
second action for what follows their suspension point. `EndClose` takes from
`Session` that a close may leave a client up; `orphaned` remembers it, and the
properties are claimed as long as it has not happened.

The agents are external: `Started` brings one up for the first turn, `Reconnects` for a later turn whose
client is gone or that is tried again, on what `prepare_resume` gives it: the transcript last heard of (`known`), the
last repaired copy of it (`copies`), or a new copy. `_announced_identity` stays as it is over a reconnect, so
a copy is never announced, though the provider hears of it (`Heard`).

### 2.4 PolicyGate and Admission

`handle()` decides a message under a lock without suspending, so a decision is
one step: `Reject` a repeated id, or `Admit` a new message, which the rate then
limits or forwards. `dedup` is `_dedup_order` with the times of `_dedup_seen`,
`windows` is `_windows`. The checks before the lock (prefix, group, sender) read nothing but
the message, so the model starts behind them.

`Admission` states the policy over the log of all decisions: a duplicate is an
id remembered in the last `DedupWindow` and among the last `DedupMax` ids; a sender is
limited at `RateLimit` forwarded messages in the last `RateWindow`; the gate may
forget a sender only when `MaxSenders` others were active since. `AdmissionSpec`
says that the queues, caps, pruning and idle eviction of the code decide the same.

### 2.5 Dispatcher

`turns` are the tasks of `_run_turn`, `inflight` is `_inflight`, `relays` are the
tasks of `_await_approval`, `requests` and `decisions` are the two kinds of
approval files. `PortalChecks` and `PortalWrites` are the two halves of
`decide()` in the portal's process; anything may happen between them.

The session of a turn is `Session` seen from outside: an agent that raises
requests until it has ended its turn or is closed. In particular it may raise one
after the reply was sent and while the finished turn awaits its approval tasks. `AClose` is the shutdown;
a cancel is taken where the code takes it: in the wait, in the send, in the await
of an approval task (where it cancels that task and no more), or in
`session.close()` (which it may cut short).

### 2.6 Copilot

`procs` are the agent processes ever spawned and what of them still runs; `proc`, `reader`,
`connected` are attributes of `CopilotProvider`; `calls` is `_pending` with the futures, by
request id; `aux` are the permission tasks; `bubbles` the text blocks of a turn. `pc` is where
the turn is suspended: in the spawn, in the await of one of the requests (`initialize`,
`session/new` or `session/load`, `session/prompt`), in the steps of `aclose`, and `next` says what follows the
`aclose`: a new process, the error, or nothing.

The agent is external: it answers, refuses, asks for permission, emits text, stays silent or dies, and what
it wrote before it died is still read. `ReaderEnds` fails all requests of the process, as the
`finally` of `_reader_loop` does; it may also end while the agent lives (a line over the limit, an exception in
`_dispatch`, a closed stdout), and what is awaited after that is answered by nobody. A permission task looks for an option as
`_select_option` does, over every list of up to two options, whose kind and name may disagree.
`aclose` follows the code into its detail, since every await there may be
cancelled: `copilot.py:183-187` swallows a cancel that arrives in its await of the reader, which the
history variable `swallowed` remembers. `told` says that an agent was told to terminate, also one that ignores it and whose
kill a second cancel prevents.

### 2.7 Codex

`alive` and `born` are the trees of processes, `stops` the runs of `_stop_process_tree` by who
started them (the turn, a stop command, the close), `lock` is `_stop_lock`. A run waits for the lock,
begins its thread, takes its snapshot of the tree, and kills; a job with a group of its own
that is started after the snapshot is missed. A cancel of the awaiting task leaves the thread
behind (`orphan`). `reports` counts the outcomes the turn has emitted. The output ends only when
no process of the tree holds it.

### 2.8 Claude

`files` are the transcripts by session id. A session id is a number or a repaired copy, whose
name is a hash of its source; so a second repair of one source has the first one's name.
`client`, `connected`, `sdkSid`, `gate` are attributes of `ClaudeProvider`; `goal` is what
a connect is for; `open`, `streamed`, `bubbles` are what the text of the turn has come to. The CLI (`cli`)
loads what it resumes, may replay it with a result of its own, streams blocks and delivers
their text in either order with their stop, or all of them at the end. `live` are the CLIs that run.

Replay and new output are told apart as `_gated_receive` does, by the ids of the
transcript read before the connect and before the query; other CLIs may append in between. The CLI takes its queries in
order: what a turn leaves unread when a message raises (`Raises`), or beside a slash command, comes before the
answer to the next one, as messages (`todo`) and results (`owed` of a replay, `behind` of earlier answers).

### 2.9 ReadMarks and Commands

`ReadMarks` has the pure part of `reads.py`: what `mark` may write from a file it has loaded
(a set, since the eviction of equal marks may take either), and what `annotate` shows.
`Commands` runs it: `MarkBegins`, `MarkReads`, `MarkWrites` are the steps of `history.mark_read` on the loop and
in its worker thread; `TaskLists`, `Annotate`, `SeedWritten` those of a listing; `Probed` and
`CapabilitiesSent` those of the capabilities. A read or a listing may fail (`ReadFails`); a snapshot arrives or is dropped
with its connection (`Emitted`), and its task is done when the send returns (`TaskSent`, `MarkSent`). `Deliver` is `_on_raw` with its ring of ids:
an id is recorded before its command runs, and a command without one runs at every delivery. A read that arrives while its
task runs is left to that task, also one that comes while the task is sending: nobody counts on an answer to that
(`waiting`). `Restarts` loses the ring and the tasks and keeps the file.

What a mark may cover is told by `rendered`, the highest stamp a browser was shown of the session; `acked`
and `relit` tell whether a mark the user relies on was undone.

### 2.10 Telegram, WeChat and Channels

The handler behind an adapter (the gate with the dispatcher) does not suspend, so the messages of
one answer are handed on in one step. `Telegram` has the poll with its offset; `Answered` and `PollFails` cover every
outcome of `_call`, and a request that reached Telegram confirms even if its
answer is lost. `WeChat` has the two loops: `_run_ws` and `_poll_loop`, whose answer is worked on after
two more awaits (`PollAnswered`, `Listed`), and `_dispatch`, which both share. The feeds build identities from different
fields, so a pushed message has the identity of its row, one of its own, or none (`Forms`); one without is handed
on unchecked. The second a message is stored in
is the gateway's; its clock is the node's, since the cursor compares them.
`Channels` composes both by `INSTANCE` and adds `_go`: the first runner that ends, or an interrupt, sets
the stop event; then the adapters are closed and the runners cancelled.

### 2.11 Portal

A request is a search (`Looks`, `Acquires`, `LooksAgain`, `Fetches`, `Stores`) or a save (`Save`, `Writes`, `Clears`,
`Reloads`), each in a thread of its own, so every step may be followed by a step of any other request.
`locks` are `_fetch_locks`: created when first needed, and a request holds the one it found. `crossing`
and `crossed` remember fetches a save came between.

## 3 What is checked

`tlc -config <cfg> <module>` in this directory. All runs pass but `claude_repair`, which is to fail
(section 5).

| Run | Module, instance | States | What it shows |
| --- | --- | --- | --- |
| `outbox` | `MCOutbox`: 2 sessions, 4 events, outbox of 2, 2 connections | 459,399 | `NothingForgotten`, `OnlyFlushReorders`, `OverflowReported`, `EventuallyStored`, and that it implements `EventDelivery` (`DeliverySpec`) |
| `session` | `MCSession`: 2 turns, 1 retry, 1 request | 107,379 | `RunsInOrder`, `NoReplayAfterOutput`, `AllowOnlyByBrowser`, `BlockedIsListed`, `CleanCloseIsFinal`, `EveryTurnEnds` |
| `registry` | `MCRegistry`: 3 sessions, 2 made-up ids, 2 transcripts, symmetry of the made-up ids | 3,562,464 | `LiveIsReachable`, `RenamedOnceResolves` |
| `policy` | `MCPolicyGate`: 3 senders, 4 ids, 2 windows, 2 remembered ids, 5 messages over 4 instants | 2,326,035 | that it implements `Admission` (`AdmissionSpec`) |
| `dispatcher` | `MCDispatcher`: 2 turns in 1 or 2 conversations, 1 request | 368,126 | `OneAgentPerConversation`, `AllowOnlyByPortal`, `TurnLeavesNothing`, `NeverBusyForGood`, `AnsweredOnce`, `RequestsWithdrawn` |
| `copilot` | `MCCopilot`: 2 turns, 2 processes, 1 request, 2 text blocks | 1,037,354 | `NoStrayAgent`, `VerdictHonoured`, `CloseCompletes` |
| `codex` | `MCCodex`: 2 turns, 2 jobs, one of them in its own group | 221,091 | `NoOrphanCodex`, `OneOutcome`, `StopEndsTurn` |
| `claude` | `MCClaude`: 3 turns, 2 clients, 3 messages, 2 blocks | 2,454,905 | `ResultToCome`, `TextShownOnce`, `NoStrayCli` |
| `claude_repair` | the same | - | *fails*: `TranscriptsGrow` |
| `commands` | `MCCommands`: 2 sessions, 2 commands with an id or without, 3 deliveries, a ring of 1, a file of 1 mark, 1 restart | 6,295,018 | `UnseenStaysUnread`, `ReadStaysRead`, `RunsOnce`, `AwaitedIsWorkedOn` |
| `adapters` | `MCChannels`: 2 messages, 2 updates, 2 seconds, 1 remembered identity, pushed with the row's identity or none | 1,995,012 | `HandledOnce`, `NothingPassedOver`, `ConfirmedIsHandled`, `ShutdownEnds` |
| `portal` | `MCPortal`: 3 requests, 1 instance, 2 gateways, 3 instants | 145,239 | `SingleFlight`, `CacheOfConfig`, `RequestsEnd` |

`PolicyGateMore.cfg` holds three invariants that the run of the gate leaves out, with the same instance: `GateTypeOK`,
`RateHolds` and `NoEarlyRepeat`. It passes, and so does `CutShortEnds` of `Codex` as a property of `MCCodex.cfg`.

### 3.1 Bounds, and why they are enough

- **Outbox** (`MaxEvents`, `MaxConns`, `OutboxMax`). With four events and room for
  two, the outbox overflows twice, also while a flush resends an envelope that the overflow
  drops. With two connections each frame and each acknowledgement can be lost
  once and be made up for; the last connection does not break, which the liveness
  properties need. `run()` may end at any point of it. The theorems hold without these bounds.
- **Session** (`MaxTurns`, `RetryLimit`, `Asks`). Two turns are a running one and a queued
  one; of these cancel reaches, misses or overtakes each. One retry gives an attempt
  before and after a crash. Requests interact only through the broker's dictionary,
  keyed by id; one request against all commands shows every race of its own. Longer chains are
  covered by the theorems of section 4.
- **Registry** (`MaxSessions`, `MaxTranscripts`). Three sessions allow a duplicate and a third one
  that takes over the id of one of them; two transcripts are a resumed one and its fork, copy or successor. More
  transcripts are covered by the theorems. Exchanging the made-up ids changes nothing, and no property here is one of liveness, so
  symmetry is sound.
- **PolicyGate** (`MaxClock`, `MaxDecisions`). Windows of 1 and 2 ticks, caps of 2 and a limit of 2 put every
  comparison on both sides of its boundary; a third sender overflows the senders' cap, a
  third id the ids' cap.
- **Dispatcher** (`MaxMessages`, `Asks`). Two turns are enough for a conversation to be
  busy and to be free again. Requests of different ids share nothing.
- **Copilot** (`MaxTurns`, `MaxProcs`, `MaxBubbles`). Two processes let an answer, a reader or a request
  outlive its agent and meet the next one; two text blocks are a committed and an open one.
- **Codex** (`MaxTurns`, `Jobs`). A second turn meets the stop, the thread or the process of the
  first. One job is in codex's group and one is not, which is all the kill tells apart.
- **Claude** (`MaxTurns`, `MaxClients`, `MaxMsgs`, `MaxBlocks`). A transcript with a message, a replay and an
  answer need three messages; a client that is replaced needs two; two blocks are a streamed and
  a late one.
- **Commands** (`MaxCmds`, `MaxDeliveries`, `MaxRing`, `MaxEntries`, `MaxTime`, `MaxCrashes`, `Limits`). With room for one id and for one
  mark the second evicts the first; two instants are a stamp before a mark and output after it. With two
  commands each meets every step of the other. Three deliveries are the first command, the second, which makes the ring forget
  it, and the first again; a crash takes the place of one.
- **Channels** (`MaxMsgs`, `MaxUpdates`, `MaxSecond`, `MaxSeen`, `MaxGiven`). Two messages fall in one second or in two;
  with one identity remembered the second message makes the adapter forget the first,
  which the other feed may then bring again. A pushed message has its row's identity or none (`Forms`); the third
  form, an identity of its own, is left to the theorems. Two updates are one answer or two.
- **Portal** (`MaxTime`, `Requests`). Three requests are one that fetches, one that waits and a save or a third
  search; three instants with a time to live of one let contacts be fresh and grow old.
  The theorems need no bound.

Deadlock is not checked: each system comes to rest when its bounds are used up, all
turns are over and no browser acts.

### 3.2 Fairness, and why the code justifies it

Liveness is claimed under weak fairness of what the event loop and timers do by
themselves, and of nothing a user, an agent or a network chooses to do.

- **Outbox.** `run()` reconnects until it ends, the loop resumes a send that completed, the
  receive loop reads what arrives, and the relay processes what it reads. Breaking a
  connection is not fair: it may never happen. Nor is the end of `run()`, after which an event may stay unsent.
- **Session.** The loop runs every task that can go on; `permission_timeout` is
  positive, so a request times out; an agent whose callbacks are answered ends its
  turn. Without the last, a turn may run for ever and no code could prevent it.
- **Dispatcher.** The loop runs turns and approval tasks; the wait for an agent, the
  poll for a decision and the adapter's send have timeouts. The agent and
  the portal owe nothing.
- **Copilot.** The loop resumes the caller, and nothing else is assumed: an agent may stay silent, live on behind an end of
  its output, and refuse to die. `session/close` has no timeout (`copilot.py:177`), so a close that waits for its answer may
  wait for ever; `CloseCompletes` says that nothing else can hold it up.
- **Codex.** The loop resumes the turn and the close; a run of the stop gets the lock in
  the end (strong fairness: `asyncio.Lock` serves in order) and its thread ends, its waits being bounded.
  A codex process that runs owes nothing.
- **Channels.** The supervisor goes on from one await to the next, and a task that was cancelled
  takes the cancel. Polls and sockets owe nothing: a poll may hang for ever, and still the daemon ends.
- **Portal.** A thread runs; a lock is given to one that waits, the requests being finitely many; a request to a gateway
  ends, having a timeout.

`Registry`, `PolicyGate`, `Claude` and `Commands` claim safety alone.

## 4 What is proved

The theorems hold for every value of the constants: any number of sessions, events,
connections, conversations, turns, retries and requests. They assume only the named `ASSUME` of
the module (constants are naturals, at least one turn, at least one transcript, some session and some limit to ask
for, room for one id in the ring, one message in a transcript and one remembered identity, a clock of at least one second, caps and a window of the gate that are not zero, `None` is no gateway).

| Theorem | Property | Idea |
| --- | --- | --- |
| `OutboxProofs!TypeCorrect`, `NoEventForgotten`, `OutboxStaysNewest`, `NoDuplicates` | `TypeOK`, `NothingForgotten`, `OutboxIsNewest`, `StoredOnce` | one inductive invariant `IInv` |
| `OutboxProofs!OrderKeptButForFlush` | `OnlyFlushReorders` | invariant `OrderInv`, on `IInv` |
| `OutboxProofs!OverflowIsReported` | `OverflowReported` | an invariant of the flags, the wire and the history, on `IInv` |
| `OutboxProofs!ImplementsEventDelivery` | `DeliverySpec` | refinement: initial states to initial states, steps to steps or stutters |
| `SessionProofs!TypeCorrect` | `TypeOK` | with `RoomToSpawn` |
| `SessionProofs!NoAllowWithoutBrowser`, `NoHiddenRequest` | `AllowOnlyByBrowser`, `BlockedIsListed` | invariant `AInv` |
| `SessionProofs!TurnsInOrder` | `RunsInOrder` | invariant `OInv` |
| `SessionProofs!CleanCloseEnds` | `CleanCloseIsFinal` | invariant `CInv`, on `OInv` |
| `SessionProofs!NoReplay` | `NoReplayAfterOutput` | invariant `RInv`, on `OInv` and `CInv` |
| `RegistryProofs!TypeCorrect`, `Reachable`, `FiledUnderOwnId` | `TypeOK`, `LiveIsReachable`, `KeyIsSessionId` | one inductive invariant `IInv` |
| `RegistryProofs!RenamedReached` | `RenamedOnceResolves` | invariant `NInv`, on `IInv` |
| `ChannelProofs!GateImplementsAdmission` | `AdmissionSpec` | refinement: the invariant `GateInv` says that gate and log count the same |
| `ChannelProofs!GateTypeCorrect`, `RateLimited`, `RepeatsDropped` | `GateTypeOK`, `RateHolds`, `NoEarlyRepeat` | the same invariant |
| `ChannelProofs!TypeCorrect` | `TypeOK` | with the lemma on each step of a turn, `TurnProgress` |
| `ChannelProofs!AllowedByPortal`, `OneAgent`, `NothingLeft` | `AllowOnlyByPortal`, `OneAgentPerConversation`, `TurnLeavesNothing` | one inductive invariant `IInv` |
| `ChannelProofs!AnsweredWhenWaited` | `AnsweredOnce` without its liveness | invariant `AnsweredByWait`, on `IInv` |
| `ChannelProofs!PortalTypeCorrect`, `OneFetch`, `CacheMatches` | `PortalTypeOK`, `SingleFlight`, `CacheOfConfig` | one inductive invariant `PortalInv` |
| `ChannelProofs!DaemonTypeCorrect`, `NoneHandledTwice`, `NonePassedOver`, `AcknowledgedIsHandled` | `DaemonTypeOK`, `HandledOnce`, `NothingPassedOver`, `ConfirmedIsHandled` | one inductive invariant `DaemonInv`, with an induction over the messages of a poll |
| `CopilotProofs!TypeCorrect`, `NoAgentLeft`, `VerdictReaches` | `TypeOK`, `NoStrayAgent`, `VerdictHonoured` | one inductive invariant `IInv` |
| `CodexProofs!TypeCorrect`, `NoCodexLeft` | `TypeOK`, `NoOrphanCodex` | one inductive invariant `IInv` |
| `CodexProofs!ReportsOne` | `OneOutcome` | an action property, from the same invariant |
| `CommandsProofs!TypeCorrect`, `UnseenNeverMarked`, `MarkedStaysRead` | `TypeOK`, `UnseenStaysUnread`, `ReadStaysRead` | one inductive invariant `IInv` |
| `CommandsProofs!SecondRunsOnlyAfterRing` | `RunsOnce` | an action property, from the same invariant |
| `CommandsProofs!AnswerIsOnItsWay` | `AwaitedIsWorkedOn` | inductive with the types of `IInv` |
| `ClaudeProofs!TypeCorrect`, `TurnGetsItsResult`, `EachTextOnce`, `NoCliStrays` | `TypeOK`, `ResultToCome`, `TextShownOnce`, `NoStrayCli` | one inductive invariant `IInv` |

**`IInv` of the outbox.** `NothingForgotten` and `StoredOnce` are not inductive. That an acknowledgement drops
only what the relay has stored needs to be known of acknowledgements still under
way, sent when the relay's log was shorter (`AcksCoverStored`). That a resent
envelope is recognised needs that one number names one envelope wherever copies
of it are: in the outbox, on the wire, in the snapshot of a suspended flush, at the relay, among the
dropped (`OneEnvelopePerSeq` over `Known`), and that new numbers are above all
of them (`KnownEmitted`). `OnlyEventsKept` keeps warnings, which have no number,
out of all these but the wire. `OutboxIsNewest` makes "acknowledged" the same as
"a prefix".

**`AInv` of the session.** An approval is safe only if the verdict was a browser's from the moment it
was set, before the request has returned: `AllowIsBrowsers` says it of the verdict, not of
the return. `cancel_all` empties the dictionary, so `BlockedIsListed` holds after
it only because every future it forgets was settled first.

**`OInv` of the session.** `RunsInOrder` speaks of turns that run or have
finished. To keep it when a chain goes on one has to know that everything before the
finished predecessor has finished too (`FinishedInOrder`, which includes tasks
created as no chain), that a chain has a predecessor (`ChainHasPredecessor`), that no cancel
is under way before `close()` (`NoCancel`; a cancelled chain would end out of turn), and
that a session that is closing is in no registry, so that no duplicate is found twice. The status is right because no
other turn can be active when one ends.

**`CInv` of the session.** A `cancel()` of the last task goes down the row of waiting tasks, so the close
reaches every turn if every unfinished one waits for its predecessor. `WaitsBehindBegun` says that a
task that waits has only begun tasks before it; together with `OInv`, which orders those, a clean close cancels
all that is unfinished (`CleanCancels`), and what is cancelled ends
before the close is over (`CleanEnds`). A chain that has not started keeps its cancel to itself, which is why
the property asks for a clean close.

**`RInv` of the session.** `_turn_emitted` is one flag for all turns. It tells the truth about the running turn
(`FlagTells`) only because there is one running turn, and because one that has not begun, or sleeps before
its retry, has put out nothing (`SilentBefore`).

**`IInv` of the registry.** A live session is reachable because a session in service is filed under its own id and nothing
else is filed there (`FiledIsOpen`, `OpenIsFiled`), and what is out of service names nothing any more (`EndedIsQuiet`). `CmdPhase`
carries this over the suspension points of start and close. `NInv` adds that a made-up id a session was renamed from is
nobody's key, and that its alias leads to the session's id while that is the only rename (`AliasLeads`).

**`GateInv` of the policy gate.** `Admission` decides from the whole log and the gate from queues that forget, so the
invariant relates the two. `CoversAt` says of which remembered entries of the log the queue of ids holds the copies, that these are
the last ones, and that whatever was remembered before them would not make a duplicate any more: it is too old, or
`DedupMax` ids came after it (`Forgettable`). `StampsAt` says it of a window and its sender's forwarded messages, and
`Silent` of a sender without a window. From that, a queue that has been pruned holds exactly what the log counts
(`SeenIsDuplicate`, `CountIs`), so every verdict is `Admission`'s; and since a window's `last_touch` is the time of its
sender's last entry (`LastTouch`), the window that is dropped at the cap is one `Admission` may forget. All this rests on the
log being in the order of time (`TimesOrdered`); a clock that goes back is outside the model, as the code uses `time.monotonic`.

**`OrderInv` of the outbox.** Events are stored out of order only by a flush, which resends from a copy while new events are
sent past it. So `OrderInv` speaks of the older events that may still reach the relay (in the outbox, on the wire, still to be resent).
An event on the wire has all of these before it, or the log has them already, unless it was sent while a flush was on
(`SentAfterOlder`); the same holds of an event of the log (`StoredAfterOlder`). Two facts carry it through a flush: once the flush
resends, whatever the outbox holds is stored, on the wire or still to be resent (`NothingLeftBehind`), and what is
still to be resent is in ascending order (`ResendsInOrder`).

**`PortalInv`.** One thread fetches because who fetches holds the lock of its instance
(`OneHolder`) and because all hold the same lock, which is created once and never replaced
(`LockWhileSearching`). The cache is right because a search that no save crossed still has the
gateway of the file (`GatewayRead`).

**`IInv` of the dispatcher.** An allow passes through a file that outlives the portal's
step, so what `AllowOnlyByPortal` says of a settled request must hold of the decision
file before (`FileIsPortals`). Two agents could meet only if a turn were alive that its
conversation does not know of: `InflightIsLive` says that until the shutdown every turn that is
not over is the one in `_inflight`, that nothing cancels it, and that only such a turn has an agent;
it is what the order of `_run_turn`'s finally (close, then release) keeps. `TurnLeavesNothing` is
inductive as it stands: no request is raised for a turn that is over, and an uncancelled close drops what
was raised behind `cancel_all`.

**`IInv` of Copilot.** The reader and the provider change agents together (`ReaderIsProcs`), and only when no
permission task is left (`AskedByCurrent`), so a verdict goes to the agent that asked. Whoever runs without being the current
agent has been told to terminate (`OthersAreTold`), also where a cancel cuts the tear-down short; and there is no current
agent between two (`BetweenAgents`) and after the close (`ClosedRests`).

**`IInv` of Codex.** `NoOrphanCodex` excepts the process that `_proc` keeps for a close, so one has to know that a
running turn's process is `_proc` (`RunningHasProc`), that only a close cancels a turn (`CancelIsClose`), and that the
close's own run of the stop is for `_proc` and lasts as long as the close does (`StopOfClose`). A run of the stop
moves the turn on only if the turn waits for it: its thread may be left behind by a cancel (`StopOfTurn`).

**`IInv` of the commands.** An id's place in the ring tells how many ids were recorded after it (`RingOrder`), so an
id that is not in it has made room for `MaxRing` others. A mark may cover only what was rendered, and a stamp travels from a
listing over a browser, a command and the marking thread to the file: `StampsRendered` says it of every stop, among them
the copy of the file a suspended mark will write. `AckedKept` says of the same copy that it has all a user relies on. It is
what the file lock keeps: no second mark reads while one is on its way.

**`IInv` of Claude.** It is about three things. Between turns, what the CLI has still to say ends in a result that is
still to come (`CliSound`), and what a connect resumes exists (`GoalKnown`); `FilesSound` numbers the messages. While what comes before the
answer is read, the guard that has seen a replay has swallowed its result or has seen something genuine (`Accounted` in
`ReplayGuarded`), so the turn's own result cannot be taken for the replay's; what is shown of the rest is in a bubble that is open until
its authoritative text comes (`ReplayBubbles`). During the answer, texts are delivered in the order of the blocks, so the bubbles kept in
`_streamed_blocks` are those of the first blocks without a text, in order (`AnswerMatched`): it is why taking the first of them is right though
no id is compared. A block's bubble is never one of what came before, since those messages were written earlier (`OwnBubbles`).

**`DaemonInv`.** WeChat: what the adapter remembers are the last identities it handed on (`SeenIsLast`), in whatever form they came, so one that it does not remember lies at
least `MaxSeen` back (`FarApart`). A poll hands several on in one step, `Dispatched`, a recursive function over them; that it keeps both is
an induction, done with the library's theorem on well-founded orders over the *set* of the numbers up to which it holds (`UpTo`), for a
theorem that takes a predicate cannot be used. While a poll lists conversations its rows are complete up to the newest
(`RowsComplete`), so the cursor can move there. Telegram: while the loop polls, all texts before the offset are handed on
(`AskedIsHandled`). A stop may move the offset past one that is not; the loop then ends, and never confirms it.

Only model-checked: every liveness property (the prover has no rule for fairness
and `ENABLED` here), the one half of `AnsweredOnce` among them: that every message is answered in the end. That none is answered
twice is its other half and a theorem, like every other invariant and action property of a run.

## 5 Where the code differs from what it says

The run `claude_repair` is one of `PROJECT.json`, which quotes its lines: `claude_transcript.py:1` promises a
"Non-destructive compatibility repair", but a repaired copy is named after a hash of its source, so
resuming the same source a second time puts the copy as first repaired over the
transcript that a CLI has meanwhile continued (`:115`).

Ten more configurations fail with a trace in the same way, and a property without one would. They check what a document or a comment says:

- `tlc -config OutboxOrder.cfg MCOutbox`: "On reconnect: resend the unacked tail in
  order before new traffic" (`docs/design/reliable-event-delivery.md:275`). The socket is published before the flush, so an event
  emitted while a resend is suspended overtakes the rest of the tail.
  `OnlyFlushReorders` shows that nothing else reorders.
- `tlc -config OutboxSilentLoss.cfg MCOutbox`: "Never a silent loss" (same document, `:277-280`). A truncation warning is forgotten
  when the socket took it, though the connection may break before the relay reads it.
- `tlc -config SessionStop.cfg MCSession`: Stop "returns the session to idle" (`README.md:251`). It ends the provider's
  current turn; a queued turn, or one in the backoff of a retry, starts afterwards.
- `tlc -config SessionClose.cfg MCSession`: "never run two clients for one transcript" (`connection.py:399`). An edit suspended
  in its announcement spawns its turn after the close.
- `tlc -config SessionRewind.cfg MCSession`: an edit is announced so that a replay leaves the abandoned
  turns out (`session.py:241-243`). Output of a turn that still runs is logged behind the announcement.
- `tlc -config RegistryCopy.cfg MCRegistry`: "never run two clients for one transcript" (`connection.py:399-400`). A session that reconnects
  on a repaired copy does not announce it (`claude.py:139-148`, `:245`, `:499`); another session may resume the copy, and is not
  taken for a duplicate.
- `tlc -config RegistryFork.cfg MCRegistry`: "The original session is left intact" (`claude.py:174`), but the alias an edit leaves
  sends prompts for the original to the fork.
- `BusyIsDeferred` of `Dispatcher`, as an invariant of `MCDispatcher`: a busy conversation "is deferred to the caller" by a
  `BusyError` (`dispatcher.py:15-17`), which the policy gate in between swallows.
- `tlc -config ClaudeContext.cfg MCClaude`: "Resume its transcript or the follow-up loses all context" (`claude.py:140-141`). When
  the start of a resumed session fails before any message, the next send begins a blank one.
- `tlc -config ClaudeReplay.cfg MCClaude`: "a replay is dropped no matter which path spawned the CLI" (`claude.py:105-111`). After a slash
  command, or a turn that raised and kept its client, the next turn on it is unguarded against what was left unread.
- `tlc -config CopilotParked.cfg MCCopilot`: "rather than hanging forever" (`copilot.py:467-469`). When the reader ends beside the
  `session/new` that still succeeds, the provider is connected without a reader, and the prompt awaits an answer nobody reads.

The modules also make these visible, none of which contradicts a line of the repository:

- *Providers.* `copilot.py:183-187` swallows a cancel that reaches `aclose` in its await of the reader; a
  turn that called it goes on to its prompt (`CloseCompletes` excepts it). A cancel of a codex turn that queues for the stop lock
  takes its place there (`CutShortEnds` excepts it). A Claude client whose `connect()` was cancelled
  is not disconnected (`NoStrayCli` excepts it). An exception of Claude that is no sign of a dead client (`session.py:40-47`) leaves the client
  with what it had still to say.
- *Commands.* A second `history.list` during the first gets the answer for the first one's limit, and none if the first is being
  sent already. A command that failed is not run again when it is redelivered. A mark without a
  stamp for a session outside the listing is stamped with the time, despite `connection.py:530`. `mark_read` may emit a listing older than
  one already sent. A seed of `annotate` may replace a mark (`ReadStaysRead` excepts it).
- *Adapters.* Telegram's updates are confirmed by the next poll, so a crash in between redelivers them; the turns their handler
  started do not survive it. A conflict (409) that `deleteWebhook` does not cure is tried again without a pause. A rejected token of one bot
  ends all channels. A WeChat socket that is closed cleanly reconnects without a pause. A message stored in the second of the newest row, after the
  answer was given, is passed over if that second ends before the cursor moves; a row of a conversation
  that is not listed is dropped and passed over (`NothingPassedOver` excepts both). A frame has to arrive
  before `_consume` looks at the stop event.
- *Portal.* A fetch that a save crossed shows the old gateway's contacts for the time to live. Of two browsers' saves the last wins.

## 6 What is not modelled

`PROJECT.json` lists every part with its reason. Parsing of transcripts (`history.py`), pairing, the portal's pages and
proxied requests, settings stores, configuration, CLIs, service installation, attachments, images and logs parse, print or
convert: they keep no state whose order or sharing could go wrong. `status.py` is a file the daemon
overwrites every few seconds; two daemons share it, and a dead one's is believed for a minute.

Within the modelled parts: ephemeral answers that read and change nothing (`sessions.list`, `permissions.list`, `history.get`,
`fs.list`, `ping`), heartbeats and logs; the text of events, replies and errors; the effort and model of a prompt; thinking and tool blocks of Claude, which pass
through; the items of codex's output, which are one kind of event; the 500 rows of one WeChat poll, which are never reached; the `except` branch of `_run_turn`
(`Session.start` does not raise); in `Registry` the reconnect of a session whose close left a client, and the repaired copy a fork
may make beside its own transcript; a daemon's restart, except in `Commands`, where a file survives it (the
others start from nothing; how the relay takes a node that counts from 1 again is not in the
repository; a daemon that dies leaves its approval requests in the directory, and their ids are fresh, so no later
request can meet a decision on them). Real time passes freely (a deadline may pass at any moment), except in `PolicyGate`, `Commands`, `WeChat`
and `Portal`, where the code compares it.

## 7 Plan

Done, in the order they were written: `EventDelivery`, `Outbox`, `OutboxProofs`; `Session`, `SessionProofs`; `Registry`;
`Admission`, `PolicyGate`; `Dispatcher`; `Copilot`, `Codex`, `Claude`; `ReadMarks`, `Commands`; `Telegram`, `WeChat`,
`Channels`; `Portal`, `ChannelProofs`, `RegistryProofs`; `CopilotProofs`, `CodexProofs`; `CommandsProofs`, `ClaudeProofs`; the parts of `ChannelProofs` about the policy gate and the adapters.

Next, compositions: `Dispatcher` behind `PolicyGate` behind an adapter, for what becomes of a message
from the upstream to the reply; `Session` with `Codex` in place of its external provider, shown to
implement the provider `Session` assumes.
