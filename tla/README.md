# tradar, specified in TLA+

tradar is a database client: a headless JSON-RPC server (`tradar-server`) holds
the connections, a Neovim plugin drives it over a Unix socket, and a TUI, which
the repository calls deprecated, uses the same connector crates. These modules
specify the parts of the three that keep state while something else goes on,
model-check them with TLC, and prove the central invariants with TLAPS. Source
paths below are relative to `src/crates/tradar-server/src/` unless they start
with `crates/` or `nvim/`.

## 1. The system

| Component | State | Operations | Interacts with |
|---|---|---|---|
| Query connections (`server.rs`, `server/connections.rs`, `query.rs`, `idle.rs`) | `drivers`, `completions`, `last_used`, `running`, under one mutex that is released across every await | `connect`, `disconnect`, `status`, `schema`, `snippet`, `execute`, `cancel`, `reap_idle` | drivers (awaited), client tasks (aborted by a closing socket), the reaper task |
| Result cursors (`server/query.rs`) | `cursors`, `cursor_order`, `cursor_bytes`, `next_cursor` | end of `execute`, `fetch`, `cursor.close` | executes of all clients |
| Client sockets, subscriptions (`transport.rs`, `subscriptions.rs`, `socket.rs`, `kafka.rs`) | a JoinSet of requests and an outbox per socket, `open_clients`, the registry's two maps, running tails | accept, read, hang up, `client_disconnected`, `tail.start`, `tail.stop`, `socket.send` | tokio's abort, the tails' tasks |
| Tail pipeline (`start_tail` in `socket.rs` and `kafka.rs`) | ring buffer, `Notify`, outbox | read, push, drain, forward, write, stop | the peer, the client's socket |
| Server process (`main.rs`, `bind` in `transport.rs`) | the socket file | start, stop, crash | other processes on the same path |
| SQL drivers (`crates/tradar-connector-{sqlite,mysql,postgres}`) | held transaction, its async mutex, the `in_transaction` flag, the pool | `execute`, `ping`, `list_schema`, `cancel_query` | the query host, which drops calls |
| Plugin: calls and runs (`nvim/lua/tradar/{rpc,ctx,conn,running}.lua`) | one pipe and its line buffer, pending calls, `state.connected`, `connecting`, `running` | ensure, request, call, run, cancel, restart, the poller | server, `vim.schedule` |
| Plugin: staged edits (`nvim/lua/tradar/rowedit.lua`) | the preview and how far its statements are | apply, status, BEGIN, statements, COMMIT, ROLLBACK, reload | `run_text`; through the server, the driver and its other users |
| TUI: query screen and engine (`crates/tradar-query-workbench/.../query_engine.rs`, `query_screen.rs`, `migrations.rs`, `row_edit.rs`, `table_designer.rs`) | epoch, `pending`, tasks, `migrations_query`, panel, `last_query`, grid, overlays | run, retry, cancel, row edit, table designer, migrations, tick | spawned tasks that send one outcome each |
| TUI: query editor (`query_editor.rs`) | text, cursor, mode, selection, register, undo and redo stacks | every key | the screen that loads and pastes text |
| TUI: tabs, connections, sessions (`crates/tradar-app`) | tabs, pickers, connects in flight, `connections.toml`, `session.toml` | open, answer, close, new, redirect, rename, quit, launch | connect tasks, files shared by launches |
| Extensions (HTTP, gRPC, Kafka, RabbitMQ) | their own connection maps, `running` of gRPC | `<driver>.*`, `close`, `cancel` | query host (disconnect, reaper, cancel) |
| Query library, other connectors, core, the rest of TUI and plugin | parsing, completion, files, drawing | | |

What is hard here: a handler reads shared state, releases the lock, awaits a
database, and writes what it decided before; a closing socket ends a request
*at* an await, so no code after it runs; aborts ask and do not wait; several
worker threads poll tasks (`tokio::main`) where the tests use one
(`tokio::test`); processes share a path with no lock; callbacks of the plugin
read what keys changed since they were registered; answers of the TUI's tasks
come after the tab, the panel or the statement they were for is gone.
`PROJECT.json` lists these hazards at their lines.

What makes each part right:

- *connections*: `running` is the executes in flight; a cancel ends its own
  execute and nothing else is blamed; the reaper closes what is idle, all of it
  and nothing else; a connected name can be completed against;
- *cursors*: limits hold, eviction is oldest-first and minimal, ids are not reused;
- *subscriptions*: what a client started can be stopped, ends with its socket,
  and is never touched by another's cleanup;
- *tail*: in order, at most once, newest never lost;
- *process*: one server per path, and it is the one clients reach;
- *SQL drivers*: a held transaction is visible, takes every statement, ends only
  when asked, and calls do not wait for themselves;
- *plugin*: whoever waits is owed an answer, a repeated statement is executed
  once, what runs is shown; a staged edit is all or nothing;
- *query screen*: it waits exactly while something is in flight, what was
  cancelled is not heard, migrations stay off the grid and run in order, rows
  are edited in the table they were read from;
- *editor*: the cursor, both ends of a selection and what an operator would work
  on are inside the text; every edit can be undone, within the stack's limit;
- *tabs*: an answer opens the tab that asked for it last; a restored tab gets
  its own text back.

## 2. Modules

| Module | Models | Proofs |
|---|---|---|
| `ConnectionHost` (`MCConnectionHost` adds symmetry) | query connections | `ConnectionHost_proofs` |
| `Cursors` | result cursors | `Server_proofs` |
| `ClientSubscriptions` | sockets, registry, life of a tail | `Server_proofs` |
| `TailPipeline`, implementing `LossyFeed` | one running tail | `Server_proofs` |
| `ServerLifecycle` | processes and their socket file | `Server_proofs` |
| `SqlSession` | the transaction logic the three SQL drivers share | `SqlDriver_proofs` |
| `StagedEdit`, which extends `SqlSession` | a staged edit of the plugin over a driver that others use | `SqlDriver_proofs` |
| `PluginClient` | the plugin's calls and runs, and the server as it sees it | `PluginClient_proofs` |
| `Workbench` (`MCWorkbench` names its scripts) | the TUI's query screen and engine | `Workbench_proofs` |
| `QueryEditor` (`MCQueryEditor` names its texts) | the TUI's modal editor | `QueryEditor_proofs` |
| `AppTabs` (`MCAppTabs` names its connections) | the TUI's tabs, connects and sessions | `AppTabs_proofs` |
| `Lists` | `retain` and `filter`: what stands at a set of places of a list | `Lists_proofs` (with sums, which `Cursors` weighs results by) |

Operators introduced by a comment `Mutant:` are plausible bugs. No specification
uses them: they record, for each property, a change of the code the property
would notice.

### ConnectionHost

A request is a task. The state lock is held for a few lines at a time and never
across an await, so an action is what a task does between two awaits; where such
a stretch takes the lock twice (`execute` looks the driver up and then registers
in `running`), the two regions are one action, and so is the mark of use that
`handle` makes next to it. `Connect`, `Opened`, `Connected` are the stretches of
`connect`; `Execute`, its select, and `Unregister` those of `execute`; `Cancel`
and `Interrupt` those of `cancel`, which drops the lock before it asks the
driver. `Return` gives the driver back, `Answered` is the second mark of use and
the reply. `HangUp` aborts a task at an await.

Tasks run on worker threads, so a poll of the biased select is two actions: it
looks at the permit (`CancelSeen`, or `CancelPending` when there is none) and
then at the driver, whose answer it takes (`DriverAnswered`) or not
(`DriverPending`). A cancel in between stores a permit the poll does not see any
more (`permit = "missed"`). The last stretch of an execute, from the end of the
select to the removal, has no await either; no `HangUp` falls between its actions.

Abstractions. Statements are *read*, *ddl*, *begin* or *end*, all the host can
tell apart. Age is whether the last use of a name is older than the limit
(`Elapse`). `Arc::strong_count(driver) == 1` is computed: who else holds the
driver (`Shared`). A driver instance nothing speaks of may be handed out anew.
`in_transaction` is the driver's answer as the host sees it, exact for a driver
whose calls succeed; `SqlSession` says where it is not. `Status` starts only
outside a transaction, where `ping` is called; inside one the handler returns
without a trace. Methods that end before their first await (`AnswerAtOnce`)
only leave their mark.

### Cursors

`Store` is the critical section at the end of `execute`, the eviction loop
included: `Rounds` is the first number of rounds at which the loop's condition
(`MustEvict`) fails. A result is what it weighs. Its specification is called
`StoreSpec`, that of `ServerLifecycle` `ServersSpec` and that of
`ClientSubscriptions` `SubsSpec`, because one module proves about all three and
about the tail.

### ClientSubscriptions

Requests other than `tail.start` and `tail.stop` do not touch this state.
`HangUp` is the end of the read loop and the drop of the JoinSet: a `tail.start`
parked at its dial is gone. `Disconnected` is `client_disconnected`. For a
client in `Parallel`, the poll in which the dial completes, from spawning the
two tasks (`Dialed`) to inserting the handle (`Inserted`), may be under way on a
worker thread while the socket closes; for the others it is one step, as on a
single-threaded runtime. `ReadFailed`, for clients in `ReadErrors`, leaves
`serve_connection` by its `?`. The subsets let one run hold clients of each kind
side by side. `StopHandles` is an abort request; `TailEnds` is when the runtime acts
on it. `kafka.rs` has no await between taking the id and inserting, a special
case.

### TailPipeline and LossyFeed

Items are numbered as the peer sends them; the last one may be the closing
notification. The reader takes a chunk and then pushes it under the lock and
calls `notify_one`; the forwarder drains, arms, waits, pushes; `lines` is the
history of the client's outbox and `written` how much of it the writer took.
`StopTail` aborts a task parked at an await at once, one that runs at its next
await. `LossyFeed` is the promise: order, at most once, loss only when a newer
item comes in and never the newest. `TailPipeline` implements it under the
refinement mapping at `Feed` (`pending` is the batch and the ring, `delivered`
the items among the lines).

### ServerLifecycle

Each system call of `bind` is an action (`exists`, `connect`, `remove_file`,
`bind`, `listen`, `chmod`), as are the two halves of the end of `main`, and a
crash may fall between any two. `file` is the process whose inode the path
names. Nothing keeps starts and stops from overlapping. `raced` remembers the
processes that did start or stop beside another, until the last of them is gone:
the properties that hold speak of the others.

### SqlSession

The code of `execute` and `handle_transaction_control` is the same in the three
drivers but for Postgres's pid tracking. `lock` is the async mutex, `held` the
transaction, `mirror` the flag, `idle` the pool. `Look`, `Begin` and `End` take
the lock; acquiring a connection and the `BEGIN` round trip are one action
(`Begun`), since nothing is stored between them. `Drop` is the host dropping the
future at any await: guards and connections go back; a transaction that was
being ended is over either way. `TimedOut` is `acquire_timeout`. `side` calls
(`ping`, `list_schema`) go to the pool past the mutex.

### StagedEdit

`open_preview`'s `apply` asks for the status and goes by the answer: in no
transaction it sends BEGIN first and COMMIT last; in one it runs its statements
there. `edit.phase` is which callback comes next, `reply` the answer it is
called with. The plugin has one statement out at a time, so it is one call
(`Mine`) of `SqlSession`; the other calls are of anyone else, and every step of
`SqlSession` is taken by `Works` with what it does to the table: a statement
alone lasts at once, one inside a transaction goes with it (`open`), a COMMIT
makes that last (`applied`), a ROLLBACK, a refused COMMIT or a lost driver does
not. A dropped call may or may not have done what it was about to do. `Offers`
is the preview opened again with the statements that are left.

The plugin looks the connection up anew for each statement. The modelled driver
is that of `edit.conn`; a statement that goes to another one (`Strays`,
`ElsewhereWorks`) is answered and leaves this driver and its table alone. `Lost`
puts a new driver in place of the old one: a restarted server, or a connection
another client closed and the plugin opened again. `Repeats` sends a statement
again whose error reads "not connected" although it is the database's. The
constant `Upsets` says which of these three may happen; `disturbed` remembers
that the edit was cancelled or lost, strayed, met another client's transaction,
or had its COMMIT sent again.

### PluginClient

Lua runs one callback at a time, so an action is one callback, key or timer with
everything it calls in the same turn. `pending` are the callbacks by id,
`scheduled` those given to `vim.schedule`; a callback is known by its run, its
method and whether it was repeated. `Calls` is `call`: `ensure` and then
`request`, so without a pipe each call opens one of its own. `Executed` and
`RunFails` are the callbacks of `ctx.call` and `run_text`, which repeat the call
once each; `Proceed` is what `ensure_connected` runs for everyone who waited.
A line may be read in two halves (`ReadHalf`), because both pipes read into one
`buffer`. The server is `up`, `knows` the connection, is `starting` or
`stopping`; it crashes, reaps the connection, and answers in any order. An answer
is what the client makes of it: the database's own error is *unconnected* too
when its text has "not connected" in it; `misread` remembers the run.

### Workbench

The engine tags each submission with an epoch; a task sends one outcome, `Tick`
drains the channel and hears only the current epoch. `query` is
`migrations_query`, by which `tick` routes an outcome to the grid or to the
panel. A cancel is an abort request: the task may be past its last await and
send nevertheless. Grid, error and overlay are the submission they came from;
statements are of a kind (`read`, `edit`, `file`, ...) on a table. `applied` is
what the database's tracking table lists. `tangled` is a history variable: the
user acted on a submission while another was in flight, which the code lets
happen for row edits, designs and migrations.

### QueryEditor

Every key of normal, insert and visual mode that changes text, cursor,
selection, register or a stack: motions, the three operators with motions,
lines, text objects and selections, typing runs, indentation, repeat, search,
substitute, and what the screen does (`SetText`, `InsertAtCursor`,
`ReplaceWord`). A character is a letter of a word, a blank or a bracket.

The loops of the word motions walk from one position to the next until they
meet another class of character, a new line, or an end of the text. `Spots` is what
they walk through, and `AdvanceWhile` and `RetreatOverSpace` are the first and
the last position at which they may end. An operator's range is computed before
it is used (`MotionRange`, `WordRange`), as `operator_motion` and
`word_text_object` do, so that `RangesInside` can speak of it.

### AppTabs

A connect carries the epoch of its picker and the index of its tab;
`Opened` and `OpenFailed` compare both as `drain` does. `Open` redirects to a
tab that already shows the connection; `NavOpen` is the navigator's. `Launch`
saves the connected tabs and starts again from the files, with `RestoreTabs`
and `RestoreByTab` as the source computes them. A connection is its name, the
text of a tab the name of the connection it was typed for. `moved` and `skipped`
are history: a tab was closed below something that counts by index; a saved tab
was not restored.

## 3. Runs

Bounds are set so that every kind of step meets every other; the instances below
were raised until no new kind of behaviour appeared, or to what TLC does in a
few minutes.

| Run | Instance | Shows |
|---|---|---|
| `host_requests` | 2 names, 2 drivers, 2 requests, of clients that may hang up, 1 query id, symmetric; 2.9 M states | `RunningIsInFlight`, `CancelsTellUnlessMidPoll`, `ConnectedCanComplete` |
| `host_liveness` | 1 name, 1 driver, 2 requests as above; fair; 67 k states | `CancelEndsTheWait`, `UnusedConnectionsClose` |
| `subs_registry` | 3 clients (one polled in parallel, one with read errors), 3 subscriptions; fair; 143 k states | `RegistryConsistent`, `RunningTailsAreRegistered`, `CleanupIsComplete`, `CleanupStopsOnlyItsOwn`, `TailsEndWithTheirClient` |
| `tail_feed` | ring of 2, 6 items; fair | `NoLostWakeup`, `StragglersBounded`, `ImplementsFeed` (the refinement of `LossyFeed`) |
| `lifecycle` | 4 processes that start, stop and crash at any time | `ServingIsReachable`, `StaleFilesAreNoObstacle` |
| `cursors` | 3 cursors, 4 bytes, sizes 0, 1, 3, 5, 7 results | `StoreIsSound`, `EvictsOnlyWhatItMust`, `GoneStaysGone` |
| `sql_calls` | 3 calls, 1 connection, any call dropped, any COMMIT refused; fair | `HeldIsVisible`, `StatementsJoin`, `EndsOnlyWhenAsked`, `CallsEnd` |
| `staged_edit` | an edit of 2 statements applied up to twice, 2 other calls, 1 connection, drops, refusals and all of `Upsets`; 1.2 M states | `EditIsAllOrNothing` |
| `plugin_calls` | 2 runs, 7 ids, 3 pipes, 1 retry of a connect, 2 events; 3.1 M states | `WaitersAreOwed`, `RunsOnce`, `RunningIsShown` |
| `workbench` | 2 statements, 3 scripts, 2 files, 4 epochs; 1.14 M states | `NobodyWaitsForNothing`, `SilencedStaySilent`, `MigrationsStayOffTheGrid`, `CarefulEditsHitTheirTable`, `FilesRunInTurn` |
| `editor` | 2 edits, lines and text of at most 2, 1 undo step kept, indents of 2; 0.88 M states | `PositionsInside`, `EditsCanBeUndone` |
| `app_tabs` | 2 connections, 1 listed at first, 3 tabs, 2 attempts per launch, 2 launches, 2 edits of the list; 1.77 M states | `OpensWhereAskedUnlessMoved`, `ConnectingIsServed`, `RestoredTextIsItsOwn`, `SnippetsGoToTheirConnection` |

Why the bounds are enough.

- *host*: a cancel takes one request that is parked and one that acts; what comes
  in between is mostly no request: a hang-up, the reaper, time. Two drivers are one
  that is still in use after a disconnect and its successor; two names, one that
  is connected while the other is closed. One query id suffices: an execute
  without an id is also possible, so two at once are there. Execute, cancel and
  disconnect all at once take a third request: with one name and one driver TLC
  finds nothing either (0.8 M states), and the proofs need no bound. TLC cannot
  use symmetry in `host_liveness`, which has one name and one driver therefore.
- *subscriptions*: one client of each kind, and a tail for each.
- *tail*: six items fill a ring of two and overflow it with a batch under way.
- *cursors*: sizes 0, 1, 3 and 5 against a limit of 4 are results that weigh
  nothing, fit together, exceed it together, and exceed it alone.
- *SQL*: three calls on one connection are one that holds the lock, one that
  waits for it, one that uses the pool. A staged edit of two statements has a
  first, a last, and something done when the second fails; the second apply is
  the one that must not repeat the first.
- *lifecycle*: one process that leaves a file, two that race over it, and one that
  comes after.
- *plugin*: a run needs up to three ids (execute, connect, execute again), a
  second run that overlaps it as many; three pipes are one that died, its
  successor, and one opened twice. Two events are a crash and a restart, or a
  half line and the end of its pipe.
- *workbench*: four epochs are a statement, what supersedes it, a file and the
  one after it. Two scripts of one statement and one of both tell the first and
  the last statement of a script apart.
- *editor*: two edits with any motions between them; one undo step, so that the
  stack's limit is met. A text has two lines of two characters: longer ones add
  more places of the same kind.
- *tabs*: three tabs have one below and one above the one that is closed.

Deadlock is checked in `host_*`, `sql_calls`, `staged_edit`, `app_tabs` and
`editor`. The others say `CHECK_DEADLOCK FALSE` because the bounded instance
really comes to rest: processes run once, subscription ids, results, pipes and
epochs are used up, a tail is stopped.

Symmetry is used in `host_requests` only, which checks no liveness.

What excuses a property. `raced`, `disturbed`, `misread`, `garbled`,
`overlapped`, `forgotten`, `tangled`, `moved`, `skipped` and `rewound` are
history variables that mark behaviours in which the code does go wrong (section
"What the code does not keep"). A property that names one holds in all other
behaviours; each was found by stating the property without it first. The same is true of
`CancelsTellUnlessMidPoll`, of `~Leaked` in `UnusedConnectionsClose` and of the
clients `CleanupIsComplete` leaves out. "What the code does not keep" has the
statements without these excuses.

### Fairness

- `ConnectionHost`: the reaper's timer loop (strong: it ticks about four times
  per limit, and a ping, which makes the driver shared for one round trip, does
  not catch every tick), time passing, and the runtime polling a task whose
  permit is stored, that is in the middle of a poll, or past its select. Nothing
  is assumed of the database: each poll may find it without an answer, for ever. `UnusedConnectionsClose` states what it
  needs of clients as hypotheses (nobody uses the connection any more, requests
  and transactions on it are over, pings do not overlap for ever).
- `ClientSubscriptions`: straight-line code after the read loop, a poll that is
  under way, and the runtime's dropping of aborted tasks. Not the dialed peer.
- `TailPipeline`: the runtime polls the forwarder when it is ready; the reader's
  code between two awaits runs on. Neither the peer nor the client's reading.
- `SqlSession`: the database answers what runs on a connection; tokio's mutex
  and sqlx's pool serve their waiters in order, which strong fairness abstracts.
  `TimedOut` is not fair, so that `CallsEnd` cannot hold because of it.
- All other modules have safety properties only. Where one is about waiting
  (`WaitersAreOwed`, `NobodyWaitsForNothing`, `ConnectingIsServed`), it says that
  whatever ends the wait is on its way; nothing is assumed to arrive.

### What the code does not keep

These definitions say what a text of the repository says, without an excuse. No
run lists them, because the code breaks them: TLC finds each violated when a
configuration of the module checks it alone (and not deadlock), with the constants below.
`PROJECT.json` ("findings") quotes the texts.

| Definition | Constants | What TLC shows |
|---|---|---|
| `OwnCancelIsNotAnError` | 1 name, 1 driver, 2 tasks, 1 query id, `HangUps = {}` | a cancel on another worker between the two looks of the select: the execute is told the interrupt of its own cancel as a database error |
| `ReaperSparesTheUsed` | the same with 1 task | a call that took longer than the limit has just ended, and its connection is reaped before `handle` marks the use |
| `EveryUnusedConnectionCloses` (`FairSpec`) | 1 task, which may hang up | a hang-up during `execute` leaves its entry of `running`: the reaper takes the connection for busy for ever |
| `EveryCleanupIsComplete` | 2 clients, one in `ReadErrors` | a read error leaves `serve_connection` before the cleanup |
| `EveryCleanupIsComplete` | 2 clients, one in `Parallel` | a `tail.start` that another worker is polling is inserted after its client's cleanup |
| `OpenClientsCounted` | 2 clients, one in `ReadErrors` | the socket of a read error is counted as open for ever |
| `OnlyStaleFilesAreRemoved` | 3 servers | of two processes that start over one stale file, the slower one removes the file of the faster one, which answers by then |
| `StopsSpareTheNext` | 3 servers | a stopping process removes the path 150 ms after it closed its listener, whoever the path names by then |
| `MirrorIsTruthful` | 1 call, `EndsFail` | a refused COMMIT leaves the flag up with no transaction |
| `AllOrNothing` | 1 call, `Drops = {mine}` | an edit that is cancelled stops half-way in its open transaction |
| `AllOrNothing` | 2 calls | another client's COMMIT settles the edit's transaction half-way; the whole is reported as committed |
| `AllOrNothing` | 1 call, `Upsets = {"lost"}` | the server is lost between two statements; what follows runs outside a transaction and the whole is reported as committed |
| `AllOrNothing` | 1 call, `Upsets = {"elsewhere"}` | statements go to another connection than BEGIN and COMMIT; the whole is reported as committed |
| `AllOrNothing` | 1 call, `EndsFail`, `Upsets = {"misread"}` | a refused COMMIT is sent again because of its text, answered as a no-op, and reported as committed |
| `NeverRunsTwice` | 1 run, `MaxEvents = 0` | a statement whose own error reads "not connected" is executed again |
| `EveryWaiterIsOwed` | 1 run, `MaxEvents = 1` | a restart forgets who waits |
| `OneIsOut` | 2 runs, `MaxEvents = 0` | two quick runs overlap although one is meant to be refused |
| `EditsHitTheirTable` | as `workbench` | `last_query` is of the newest run, not of the rows on screen |
| `OpensWhereAsked` | as `app_tabs` | an answer finds its tab by an index that closing a tab moves |
| `EveryTextIsRestored` (a `PROPERTY`) | as `app_tabs` | restored texts are counted by saved position |

Other findings were read in the code while it was modelled:

- *tail*: the outbox behind the bounded ring is unbounded;
- *plugin*: two `ensure` calls share one line buffer; another client's BEGIN
  between an edit's `status` and its BEGIN is settled by the edit's COMMIT;
- *query screen*: retry runs `last_query` even when something else failed;
  submissions supersede each other without ending;
- *editor*: `set_text` leaves insert mode with vim keys off; an undo in visual
  mode leaves the selection outside the text;
- *tabs*: a snippet keeps an index too.

Also seen while modelling, where no text of the repository says otherwise or one
excludes the case:

- two clients that connect one name at once: the later insert drops the driver
  that may hold the earlier one's transaction (`Connected`);
- the interrupt of a cancel reaching another execute on the same connection
  (`Interrupt`; excluded by the trait's doc, `crates/tradar-query/src/lib.rs:308-311`);
- a schema read that answers after `disconnect` restores the completion source (`Listed`);
- on worker threads, notifications after the reply to `tail.stop`
  (`StragglersBounded` says how many; `tests/rpc_socket.rs:259-262` expects
  none, on one thread);
- `socket.send` on another client's subscription id works (`socket.rs:257-259`).

## 4. Proofs

TLAPS proves, for every value of the constants (under the modules' own
assumptions on them: `None` is no member, capacities are positive, and so on):

| Theorem | States | Along |
|---|---|---|
| `TypeCorrect`, `ConnectedNamesComplete` | `[]TypeOK`, `[]ConnectedCanComplete` | `HostInv` |
| `RegistryIsConsistent`, `TailsCanBeStopped`, `CleanupIsLocal` | `[]RegistryConsistent`, `[]RunningTailsAreRegistered`, `CleanupStopsOnlyItsOwn` | `RegistryInv` |
| `SocketsCleanUp` | `[]CleanupIsComplete` | `CleanupInv`, on top of `RegistryInv` |
| `RequestsHold` | `[]RequestInv`: permits, interrupts and outcomes of requests, and the entries of `running`; the next two rest on it | assumes `UniqueIds` |
| `CancelsTell` | `[]CancelsTellUnlessMidPoll` | `RequestInv`; assumes `UniqueIds` |
| `RunningIsExact` | `[]RunningIsInFlight` | `RequestInv`; assumes `UniqueIds` |
| `ResultsAreHeldSoundly`, `EvictionIsMinimal`, `GoneForEver` | `[]StoreIsSound`, `EvictsOnlyWhatItMust`, `GoneStaysGone` | `StoreInv` |
| `WakeupsAreKept`, `RingStaysBounded` | `[]NoLostWakeup`, `[]RingBounded` | `WakeInv`, `RingInv` |
| `StragglersAreBounded` | `[]StragglersBounded` | `StopInv`, on top of `RingInv` |
| `TailIsALossyFeed` | `Feed!Init /\ [][Feed!Next]_Feed!feed`: `ImplementsFeed` but for its fairness | `OrderInv` |
| `ServerIsReachable`, `StaleFilesAreReplaced` | `[]ServingIsReachable`, `StaleFilesAreNoObstacle` | `Inv` (`PathsHold`) |
| `HeldTransactionsAreVisible`, `TransactionTakesStatements`, `OnlyEndsEnd` | `[]HeldIsVisible`, `StatementsJoin`, `EndsOnlyWhenAsked` | `SessionInv` |
| `PoolIsKept` | `[](PoolAccount /\ TypeOK)` | `PoolAccount`, on top of `SessionInv` |
| `EditsAreAllOrNothing` | `[]EditIsAllOrNothing` | `EditInv`, on top of `SessionInv` |
| `TypeCorrect`, `ScreenIsServed`, `SilenceLasts`, `GridShowsNoMigration`, `RowsAreEditedAtHome` (of `Workbench`) | `[]TypeOK`, `[]NobodyWaitsForNothing`, `[]SilencedStaySilent`, `[]MigrationsStayOffTheGrid`, `[]CarefulEditsHitTheirTable` | `WorkInv` |
| `FilesAreWrittenInTurn` | `FilesRunInTurn` | `TurnInv`, on top of `WorkInv` |
| `StatementsRunOnce`, `RunningIsTheOneOut`, `AnswersAreOwed` | `[]RunsOnce`, `[]RunningIsShown`, `[]WaitersAreOwed` | `PlacesInv`, and on top of it `SpentInv`, `ShownInv`, `OwedInv` |
| `AnswersFindTheirTab`, `ConnectingIsAnswered`, `TextsAreRestored`, `SnippetsFindTheirConnection` | `[]OpensWhereAskedUnlessMoved`, `[]ConnectingIsServed`, `RestoredTextIsItsOwn`, `SnippetsGoToTheirConnection` | `TabsInv` |
| `PositionsStayInside`, `EditsAreKept`, `HistoryStaysBounded` | `[]PositionsInside`, `EditsCanBeUndone`, `[]StacksBounded` | `EditorInv` |

Why the invariants are what they are.

- `HostInv`. A request that waits for a driver's work has a driver
  (`HasDriver`). With it, what `Connected` inserts under a name it inserts as a
  completion source too, and nothing removes a source without its driver.
- `RegistryInv`. The two maps agree and an entry names the owner; a running tail
  is registered, or is being registered at this moment. `CleanupInv` adds that a
  client that is through has nothing parked: that is what the order *abort, then
  clean up* buys.
- `RequestInv`. With unique ids an entry of `running` names the execute it was
  made for, because only that execute removes it; a hang-up leaves an entry
  without a task. A cancel stores the permit and then interrupts, so an execute
  that its own cancel has hit has its permit (`OwnHitHasPermit`,
  `CancelsFollowTheirPermit`). `PermitsByPlace` says where an execute may be with
  which permit: one that was there when the select looked ended the wait, so one
  that is carried into the look at the driver came after the look at the permit
  (*missed*), which is what `CancelsTellUnlessMidPoll` leaves out.
- `StoreInv`. `order` rises and names what is held; ids come from a counter that
  only grows, so a removed one cannot come back. That `bytes` stays within its
  limit is about sums over a function with one argument more or fewer, which
  `Lists_proofs` has as lemmas; that the loop stops at the *first* number of
  rounds that suffices makes eviction minimal.
- `StopInv`. A reader that was told to stop reads no more, so once the reply is
  queued what is carried (batch, ring, the chunk in hand) only shrinks, and lines
  after the reply and what is carried are never more than two rings and one.
- `OrderInv` has what waits, first the batch and then the ring, in the order it
  was produced, and nothing in it that was not: then every step of the tail is a
  step of `LossyFeed` or none.
- `WakeInv`. Between drain and wait (`arming`) the invariant must already hold:
  a ring that is not empty then has its permit.
- `Inv` of the lifecycle. A process that is not raced starts alone, and then nobody
  raced is alive (`StartsAlone`); it stops while nobody starts (`StopsAlone`),
  and is the one the path names from its `bind` on (`OwnersAreNamed`). Nobody
  else, raced or not, takes or has the path (`NobodyElse`). `PathAsSeen`, what a
  start that is alone found at the path is still there, is what
  `StaleFilesAreNoObstacle` needs.
- `SessionInv`. Who is past the lock holds it, so `held` cannot change under a
  statement that was called in the transaction, and the flag goes up with
  `held` in one stretch. `PoolAccount` counts connections: idle ones, one per
  running call, one for the transaction that is held or being ended.
- `EditInv`, all but its typing until `disturbed`. What the plugin believes of the
  driver must be tied to what the driver is in. `Waits`: the one call out is of the kind its phase says, and
  there is one exactly while there is no reply. `Owns`: from the answer to
  `status` to the end of its transaction the edit is alone in having one. That
  starts because a lowered flag means that no transaction is held
  (`HeldIsVisible`) and that none is being ended (`EndingIsSeen`, new here). The
  two say where the statements done are: `Whole` has them all in `open` until
  the COMMIT, all in `applied` after it, none after a ROLLBACK; `Counts` has
  what is still to be done undone, which is why applying the rest repeats
  nothing. `Effects` first turns each of the driver's actions into what it does
  to one call, the transaction, the flag and the table; the phases are then
  checked against these.
- `WorkInv`. `Numbered` ties epochs, tasks and the outbox together; with it,
  "the newest submission is not silenced" makes *silenced is never heard* and
  *pending is in flight* inductive. That a migration stays off the grid needs
  `MigrationsAreClaimed`: while one is awaited, `migrations_query` speaks of it.
  For row edits, `last` is what the read in flight reads and what the grid shows
  when none is (`LastIsRead`, `GridIsLast`), unless tangled.
- `TurnInv`, unless tangled. The panel's files rise (`Unapplied` keeps their order),
  all before the one that runs are applied and the rest are not (`PanelInTurn`),
  a check on its way read the table that is still current (`CheckIsFresh`), and
  what `migrations_query` awaits is what the panel thinks runs (`QueryIsOut`).
- `PlacesInv` of the plugin. A run is with one callback at a time, in one of four
  places: waiting for a pipe, for an answer, for its turn, or for a connect.
  `SpentInv`: one that was turned down (*unconnected*) was not executed, unless
  its own error was misread; what is on the wire is there once; and only what was
  turned down moves back. `ShownInv`: until runs overlap, the one in any
  of the places is the one `running` names. `OwedInv`: what is pending has a message
  or an answer on a pipe that is read, or the end of a dead one to come.
- `TabsInv`. Each connect has a number of its own, and a screen keeps the one it
  came from (`Numbered`). As long as no tab below is closed, a connect names a tab,
  and one that is live is what this tab asked for last (`Placed`). What a
  restored connect is owed is found under its index (`TextKept`), unless a saved
  tab was skipped.
- `EditorInv`. A text has a line and a register has one too: then every cut
  leaves a line to stand on, and pasting finds a first and a last piece. That,
  with a row that is in the text (`InText`), is all that an operator on buffers
  has to keep: `ClampCol` ends each action and puts the column right, so the
  cursor is inside whatever the operator left (`ClampedInside`). `AnchorSet` says
  that a selection has an anchor at all, which `SelectionInside` does not where
  it is excused. What is typed is no step of its own: `StepKept` has the text
  from before the run on top of the stack for as long as the run may go on.
  `RangesInside` needs no invariant but the cursor: a loop over positions ends on
  one of `Spots`, not before where it began (`AdvanceIs`, `RunIs`), because a
  finite set of positions has a first and a last in the order of reading.
  `StacksBounded`: a checkpoint drops the oldest step at the limit and clears
  `redo`, and the rest only moves a buffer across; `redo` never looks at the limit.

Assumptions on `None`. TLC and the text keep it apart from everything else;
`HostAssumption`, `PluginClientAssumption`, `AppTabsAssumption`,
`WorkbenchAssumption` and `QueryEditorAssumption` say from what. They stand for `Option` and `nil`, which
are no value of any type.

Where data is walked. The library's induction theorems cannot be used here,
since they take an operator. `Lists_proofs` does what is needed without: a
property of all lengths is shown by its least counterexample (`LeastExists`),
and a sum is known by the equations of its recursion, which only one function
satisfies (`TheSums`, `SumsExist`). `Lists` writes `retain` and
`filter` by the places that are kept, so that what is kept and in which order
(`KeptIs`, `KeptOrders`) follows in the same way.

Texts. `FlattenSeq` of the library, which `:s` uses, is a recursion too, and is
known in the same way (`FlattenIs`). Everything else the editor does to lines is cutting and
joining, with one lemma for each: `InsertMultilineIs`, `SliceIs`, `JoinedIs`,
`PastedIs`, `LinesGoneIs` and so on, each saying that the result is a text with
the cursor on one of its rows.

Only model-checked. Liveness (`CancelEndsTheWait`, `UnusedConnectionsClose`,
`TailsEndWithTheirClient`, `CallsEnd`) and the fairness that `ImplementsFeed`
contains: liveness and ENABLED are out of the prover's reach. Every other
property of a run is a theorem. What the word motions of `QueryEditor` find,
as opposed to where it lies, is modelled but not specified: no property says
that `w` finds the next word.

## 5. Not modelled, and why

- Extension connections, gRPC calls and streams: check-then-insert connects and
  a `running` map of the pattern `ConnectionHost` models, streams in the registry
  `ClientSubscriptions` models; they share no state with it but a dropped entry.
- `socket.send`: changes none of the state modelled; its notification goes to
  the caller.
- Postgres's `current` slot and SQLite's interrupt handle: the trait's doc
  restricts cancels to one execute at a time, where neither can go wrong.
- Completion, statement splitting, row-edit SQL, cheat sheets, JSON encoding,
  logging: functions of their input, with no state between calls. They are most
  of `crates/tradar-query` and of the connectors.
- The other query connectors: one call per statement, no state kept between calls.
- The TUI's results grid (paging, filters, copying), keymap, forms, help,
  themes and drawing; the navigator's tree; history and snippets: each keeps its
  own cursor and text, calls nothing, and answers one key at a time. Most of the
  lines of the TUI are these, and tests in the same files.
- The plugin's buffers, pickers and rendering, for the same reason.
- Core (storage, configuration, themes): files written whole; what depends on
  their order, a session saved and restored, is in `AppTabs`.

The definitions stand for about a tenth of the implementation's lines: nearly
all that keeps state across an await, a callback, a process or a key, and
little of the rest.

## 6. What is left

1. `ExtensionConnections`: connects, disconnect, `load_proto`'s two locks, the
   reaper; composed with the host's `disconnect`. `GrpcCalls` (`invoke`, its
   cancel, streams) and `PgCancel` (the `current` slot).
2. Pure algorithms against reference definitions: `split_sql_statements`,
   `RowBudget`, `StoredResult::page`; the results grid's filter and selection.
3. The editor: what a motion finds, against a definition of words; folds.
