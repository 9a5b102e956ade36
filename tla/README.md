# A TLA+ model of lis

`lis` is a local database stack: a supervisor (`bin/lis`) that starts a lidb
engine, a package-registry HTTP server and a realtime WebSocket server, a
web studio that launches one engine per project, a reverse proxy written in Li
and the tools that validate and render its configuration.  These modules model
the parts of it that keep state, the TLC configurations check them on small
instances, and `*Proofs.tla` prove the central properties for every instance.

## 1. Inventory

| Component | Code | State | Operations | What is hard |
|---|---|---|---|---|
| Realtime server | `routes/realtime/server.py`, `session.py`, `auth.py` | `_ws_index`, `_active_ws`, `_event_queue`, sessions per connection and topic | connect, `phx_join`, `phx_leave`, close; drain task broadcasting events | one event loop, but every `await ws.send` lets joins, leaves and closes in; dicts iterated across awaits; ids reused |
| Changefeed | `routes/realtime/changefeed.py`, `lidb_native.py`, `scripts/lidb_changefeed_poll_once.py` | `_offsets`, `_stop`, `_thread`, the native handle, two JSONL files | `start_polling`, `stop_polling`, the poll thread, `push_mock` | files appended by other processes while read; a stopped thread that is still there; lines half written |
| Registry | `routes/registry/*` | `_store`, `_PLANS_READY`, the versions in memory and in one JSON file, the engine's tables | publish, yank, get, list | one thread per request, no lock; check-then-act; the file rewritten in place; kills; an engine that has executed what the store then refuses |
| Studio | `data-studio-ui/lib/*`, `data-studio-ui/app/api/*` | `projects.json` | create, look up, launch | read-modify-write of a whole file across awaits; a file half written reads as an empty store |
| Supervisor | `bin/lis`, `scripts/lidb_engine.py` | pid files, ready file, processes | `db start`, `db stop`, `db migrate`, `db status` | processes that outlive the command that killed them; death of one process of three; pid files that outlive their process; two commands at once |
| li-httpd | `packages/li-httpd/src/lib.li` | connection slots, upstream sockets, one cached response header | accept, read, start, relay, finish | slots and descriptors reused, peers that hang up, partial reads, one head for all responses |
| HTTP gateway configuration | `scripts/httpd_config.py`, `httpd_match.py`, `httpd_render_caddy.py` | the TOML file, the Caddyfile | validate, render, run cases | a simulator and Caddy, which read paths and order routes differently |
| Small Li packages | `packages/li-crypto`, `li-rng`, `li-http`, ... | none (pure) | rotations, PRNG, parsers | 32-bit wrap |

How they interact:

- The changefeed's poll thread is the realtime server's only source of events.
  It calls the listener, which is `_enqueue_changefeed_event`:
  `loop.call_soon_threadsafe(queue.put_nowait, event)`.  The drain task takes
  events off that queue and sends them to the connections that joined a
  matching topic.
- The registry server and the realtime server share nothing but the data
  directory: engines and tests append to `.lidb/changefeed.jsonl` and to the
  mock file there, and the changefeed reads them.
- The supervisor starts both servers as children and remembers them in pid
  files.  Studio runs `lis db start` with a data directory and ports per
  project, and waits for it.
- By default the registry runs each operation as a plan in the lidb engine first
  (`liorm_store.py`); unless the engine itself is ready, the answers come from
  the same JSON-backed store as in mock mode.
- In production a Caddyfile rendered from `httpd.toml` stands before the
  registry; li-httpd is meant to take its place.

What makes each component correct:

- *Realtime*: a client is sent the changes of channels it joined and of no
  other, after the reply to its join, in feed order, each once; no subscriber
  is skipped; rows go to the tenant they belong to; one client cannot stop the
  service of the others.
- *Changefeed*: the listener is handed the events of a source in file order,
  each once and none left out, over stops and starts.
- *Registry*: what a client was told is true of what later clients are told,
  and of what a restarted server knows; requests behave as if handled one at a
  time.
- *Supervisor*: between commands the pid files name the processes that run; no
  stack is started beside another; `stop` ends all that `start` began.
- *Gateway configuration*: the cases run against the simulator foretell what the
  Caddyfile does, and where they do not is known.
- *li-httpd*: an upstream connection serves one client at a time and goes back
  to the pool with nothing on it; a response is counted to its end; a client is
  sent its own response.
- *Studio*: projects have ports of their own, which never change; a project
  whose creation was answered is there.

The hazards of each, with the line where they bite and the properties aimed at
them, are listed in `PROJECT.json`.

## 2. Modules

| Module | What it is |
|---|---|
| `RealtimeAuth` | Tokens, claims, the decision to join and the row filter, as operators |
| `Realtime` | The WebSocket server: handlers, drain task, index; extends `RealtimeAuth` |
| `RealtimeProofs` | Theorems about `Realtime` |
| `EventFeed` | What a listener of the changefeed may count on (abstract) |
| `LidbNative` | How the environment and the library decide the native mode, as operators |
| `Changefeed` | Poll threads, offsets, files, the native poll; implements `EventFeed` |
| `ChangefeedProofs` | Theorems about `Changefeed`: its promises to the listener, and that it implements `EventFeed` |
| `PackageIndex` | A registry that handles one request at a time (abstract) |
| `Registry` | The threaded registry with its file; implements `PackageIndex` |
| `RegistryEngine` | The registry on lidb: plans, the rows they leave, and the listing; extends `Registry` |
| `RegistryProofs` | Theorems about `Registry`: its types, and that it implements `PackageIndex` |
| `RegistryEngineProofs` | The same with the engine before it, and that what clients were told stays true |
| `Projects`, `ProjectsProofs` | Studio's project store and theorems about it |
| `Supervisor`, `SupervisorProofs` | `lis db start`, `stop` and `migrate`, the processes they handle, and theorems about them |
| `HttpdRoutes` | Route keys, overlap, matching and rendering, as operators |
| `HttpdGateway` | The configuration file and the commands on it; extends `HttpdRoutes` |
| `HttpdProofs` | Theorems about `HttpdGateway` and the operators of `HttpdRoutes` |
| `ProxyRelay`, `ProxyRelayProofs` | The reverse proxy of li-httpd and theorems about it |
| `MCRealtime`, `MCChangefeed`, `MCRegistry`, `MCProjects`, `MCProxyRelay`, `MCHttpd` | Values of the constants for TLC |

Definitions whose comment begins with "Mutant" are variants of the definition
that follows them.  Nothing uses them: with one put in the place of the
original, the property it is listed with in `PROJECT.json` fails.

### Realtime

One asyncio loop runs a handler per connection and one drain task.  A coroutine
keeps the loop until an `await` suspends it, so `drain = "run"` excludes every
other action, and `SendSub` is where the drain task may lose the loop
(`drain = "send"`, until `Resume`).  A send that completes at once is `SendSub`
and `Resume` with nothing between.

| Code | Model |
|---|---|
| `handler`, up to the message loop | `Connect` |
| `_handle_join`: claims, authorisation, session, reply | `_handle_join`, then `SendSystem` for the message that announces subscriptions |
| `phx_leave` in `_handle_message` | `HandleLeave` (a leave of a topic not joined changes nothing) |
| `finally` of `handler` | `Unwind` |
| `_drain_changefeed` | `Take`, `EndBroadcast` |
| `_broadcast_event`: `list(self._ws_index.items())`, lookup of the id | `Take`, `NextWs` |
| `for topic, session in topics.items()` | `NextTopic` |
| the loop over subscriptions, the filter, `await ws.send` | `SkipSub`, `SendSub`, `Resume` |
| `_enqueue_changefeed_event` | the same |

- `topics[c]` is the table of a CPython dict: entries keep their slot and a popped
  one stays as a dead slot.  A new key may find the table full; then it is rebuilt
  of its live entries, and those behind a dead one move to the left, past an iterator
  that has been there.  `Usable` is the number of entries from which on that may
  happen: 5 in CPython's smallest table, 2 in the runs, so that three joins reach it.
  From there on every insertion may rebuild, since when a larger table is full
  depends on its history.
- An iterator raises when the number of keys has changed since it began, and when it
  meets one more key than there were (`cur.left`), as after a leave and a join.  A
  `RuntimeError` or `ConnectionClosed` in the drain task ends it for good
  (`drain = "dead"`): nobody awaits that task.
- `moved[c]` is a ghost: the events under whose broadcast a rebuild moved an entry
  of the dict being iterated.  For these a subscriber may be skipped, and
  `NoneSkipped` and `MatchDelivered` claim nothing; the death of the drain task is the
  other thing they except.
- `_channels` holds the sessions a second time and is never read.
- A message counts as sent when it is handed to `ws.send`.  On a closed
  connection `send` raises; a send under way when the connection is lost
  (`Resume`) may return or raise.
- `net[c] = "closed"` with the handler alive: messages that were buffered are
  still handled, until `Unwind`.
- `idOf` is `id(ws)`, and an id is given out again once nothing refers to the
  connection that had it (`FreeIds`).  The snapshot of a broadcast holds ids: a
  connection that gets the id of one that was in the snapshot and is gone is sent the
  rest of that event, on channels it did not join.  `OwnChannel` says that this is
  all.  (`docs/realtime.md:121`, "no leak", is about rows the filter drops, and the
  filter is that of the old connection's claims.)
- A token that is not ASCII cannot be encoded for the signature (`Unreadable`,
  `auth.py:89`): in a `phx_join` the exception closes the connection; in the query it
  comes before the `try` of the handler, so that the connection stays in
  `_active_ws` for ever and its id is never free.
- The snapshot is served in any order.  The `since` of a session, the `ev` of a
  reply to a leave and join numbers are ghosts.
- Heartbeats, malformed messages and unknown events are answered without a
  change of state, and left out.

### Changefeed

A behaviour takes place in one of several `Worlds`: the value of
`LI_CHANGEFEED_NATIVE`, whether the library is there and opens, which lines are
written, whether threads are late and reads fail.  `NativeMode` of `LidbNative` is
what `__init__` makes of the first two: no native poll, calls through ctypes, or
the helper process.

Threads interleave at every step.  A poll round is `CheckStop`, `_poll_native`,
then, with ctypes, a `poll_lines` per line and `EndPoll`, where the lines are
parsed, or one `poll_lines_subprocess`; then `OpenFile`, `ReadLine`s and `EndFile`
(or `ReadFails`) for the WAL file and for the mock file; then a `_dispatch` per event
and `EndRound`.  A line is one element of `log[s]`; offsets count lines.
`stop_polling` is two actions around its `join(timeout=2.0)`; in a world that is
`late` the join may end with the thread still running, and the handle is then
closed under it.

- A writer of the WAL file may append a line in two parts ("head", "tail"):
  `readline` returns the head alone at the end of the file, the parser drops it,
  and the tail is dropped as a line of its own.
- "poison" is a line the parser raises on (`int(lsn)`, bytes that are not
  UTF-8): the exception leaves `poll_once` and ends the thread.
- lidb moves its cursor with every line it returns: that the cursor outlives the
  handle is what the code relies on, since the helper process opens the library
  anew each time.  The C library is external.
- The helper process may fail, before or after it took its lines, or exceed its
  timeout of 5 s: `TimeoutExpired` is caught nowhere and ends the thread.  A
  library that is found and does not open leaves the subprocess mode on, with
  nothing to poll.
- One listener, subscribed before polling starts, as in the server; it hands events to
  the event loop and does not raise while that loop runs.  (An exception of another
  listener would end the poll thread.)  `push_mock`
  calls the listener itself and also appends to the mock file: a poller of the
  same process hands the event over a second time.  Only tests call it, in a
  process that does not poll; `direct` keeps its calls apart.
- The two files are polled in every mode; some docs call them a fallback.
- `_offsets` lives in memory.  A process that restarts is a new `Init`, and
  re-reads the files from the start.  Truncated or rotated files are not
  modelled: nothing in the repository does that to them.
- What a round has collected is a set, dispatched in the order of source and
  line: the order `poll_once` lists it in.

### Registry

`handle_request` runs in a thread per request, without a lock.  A thread may lose
the interpreter between any two steps; the steps are those between which
another thread can tell the difference:
`Arrive`; `get_registry_store` (`_store` read); `_load` and `SetStore` (a first
request opens the store); `Reject`, `PublishCheck`, `PublishInsert`,
`YankCheck`, `YankMark`, `get_package_version`; and the four of `_save`
(`SaveIterate`, `SaveCollect`, `SaveTruncate`, `SaveWrite`).  `Crash` ends the
process; `lis db stop` is one, since Python does not catch SIGTERM.

- `mem[r]` is the dict of the store that request `r` opened, so that two stores
  opened at once both exist.  `st[r]` is the one `r` was given.
- `_save` iterates a live dict: a row says what its object was when the loop
  passed, and a new key raises `RuntimeError`, after which the change is in
  memory and the client has lost its connection.
- The file is rewritten in place.  The model knows which of two texts is longer
  (`TextLength`), because a shorter text written over a longer one leaves its
  end behind.  A torn file makes `_load` raise outside every `try`: that server
  drops every request until somebody repairs the file.
- `load` says how clients behave.  "serial": one request at a time, with kills.
  "spread": requests overlap, but none arrives while the store is being opened
  and no two change one version at once.  "any": no restriction.  What the
  registry promises differs between the three, and each property names its own.
- There are two globals that hold a store in mock mode, filled the same way;
  one is modelled.

`RegistryEngine` adds the default store to mock mode:

| Code | Model |
|---|---|
| `LI_REGISTRY_MOCK`, `import_liorm`, `engine_ready` | `mode`: "mock", "missing" (no lidb checkout: every request that opens the store raises), "stub" (plans run with no engine behind them), "ready" |
| `ensure_registry_plans` | the same, before the store is opened |
| `_run_plan`, in-process or by a helper process | `_run_plan`: it may raise, and may have executed the plan when it does |
| the `INSERT` of `publish_version` | `Executed`: a row in `engine`, before the store has checked anything |
| `get_package_version` with rows | `NativeGet`, if the engine is ready; else `BackingGet` |
| `list_packages` | `ListCollect` (the versions are copied), `ListFilter` (those yanked are left out) |

- The plan of a yank inserts a row for a constant version id, and no plan inserts
  into `packages`, with which the rows of a read are joined: lidb may know the
  package or not, and both are possible in the model.
- With the engine ready the answers are the engine's: a yanked version is answered
  200 there, although `openapi/registry-v1.yaml:85` says 410, and the row of a
  publish that the store refused as a conflict, or whose plan raised, is shown.
  `ShownIsAsked` says how far that goes: for a version a client is shown only digests of
  accepted publishes of that version, or, from an engine that answers reads, of
  publishes whose plan may have run.  `ListingIsTrue` is about the other modes.  What was
  told of publishes (`PublishedIsFound`) is asserted in all modes.
- A publish that is refused may also end its connection without an answer: `float` of a
  coverage that is no number raises `ValueError`.
- Pages and name filters of a listing change nothing and are left out: a client
  that pages with an offset may miss a version when one before it is yanked
  between two pages.

### Projects

Node runs one event loop; every `await` of a file operation lets other requests
in.  A request is `Arrive`, then `createProject` (read and allocate) or
`getProject`, for a launch `Launched` and `updateProject`, and for those that
write `Truncate` and `Write`.

- A project is named by the request that created it (ids are fresh UUIDs), and
  block `n` stands for the ports `55000 + 20 n` and following.
- A missing, empty or half-written file reads as an empty store: the exception
  of `JSON.parse` is caught.  Two writers overlay each other as in the registry.
- `lis db start` and the probe take any time and succeed or not.
- `load` says how requests overlap.  "any": at every await.  "apart": as well, a launch
  running beside anything, but no request reads the store between another's reading it
  and its writing it back (`MayRead`), and Studio is not killed.  Under "any" two
  projects created at once get the same ports, although Studio's `README.md:21` says
  "dedicated ports", and one of them is lost: `createProject` reads the store, awaits
  `mkdir` and writes it back.  `Kept` and `DedicatedPorts` hold under "apart".

### Supervisor

`bin/lis` is a shell script without a lock.  A command is `Begin`, then for a start
`Check` (`already running`), `lis_db_engine_ensure`, and `Launch` and `WritePid` for the
supervisor, the registry and Realtime in turn; for a stop `Find`, three `Kill`s and
`Remove`; for a migration only `lis_db_engine_ensure`.  The processes they start go on
by themselves: `Bind` (a server whose port is taken ends), `Terminate` (SIGTERM
arrives, some time after it was sent), `Interrupt` (Ctrl+C in the terminal), `Die`.

- With `--foreground` the script is itself the supervisor and sleeps in its loop: it
  never starts the registry (`bin/lis:99` comes first), and its EXIT trap removes
  `lis-db.pid` whoever wrote it.  `docs/production-registry.md:37` writes `--profile X`
  before `--foreground`, an order the option loop of the script does not take.
- `scene` says how commands are given.  "settled": when the one before is done and
  what it killed has ended.  "prompt": as soon as the one before is done, be the
  processes it killed ending or not.  "rough": at any time.  The runs have the first
  two, with starts in the foreground in both.  With "rough" TLC finds two stacks, one
  of them in no pid file; nothing in the repository promises otherwise, so it is no
  finding.
- A script may end at any line (`ScriptDies`): `set -e`, Ctrl+C, the 120 s that Studio
  gives it.  Between `&` and `echo $!` it leaves a process that no pid file names.
  `cutoff` has these; `robbed` has the supervisors whose pid file another supervisor's
  EXIT trap removed, which happens in "prompt": a foreground supervisor that was killed
  is still ending when the next start writes its file.  Together they are the `Strays`:
  ghosts, which the properties name as the exceptions they are.
- The trap removes `lis-db.pid` when a supervisor in the foreground ends, and a
  registry of an earlier start may be alive then: the stack is then in its pid files but
  for that one, and a stop, which looks for it first (`bin/lis:172`), says "not running".
  `trapped` remembers this: `NoOrphan` and `StackEnds` except it.
- A migration makes `.lis-db-engine-ready` although nothing runs; only `status`
  reads that file.  `status` changes nothing and is left out.
- A pid is not used again.  After a reboot a pid file may name another process,
  which `start` then takes for the supervisor and `stop` kills: the properties do
  not hold then.

### Gateway configuration

`HttpdRoutes` has the functions: a key of `[routes]` becomes a route
(`parse_path_kind`, `slug_route_name`, `desugar_config`), two routes overlap or not, a
request matches one, a route is rendered as the matcher and the handle of Caddy, and
Caddy picks a handle (`CaddyMatches`, `CaddyAnswer`, external).  A path is its segments
and whether a "/" ends it.  `HttpdGateway` is the operator's view: `Edit`,
`lis_http_render_caddy`, `run_cases`; each command reads the file anew.  The loop over
`[[site]]` (`SitesLoad`) and the code for `[server]` (`ServerLoads`) are two loaders, which
check the same things in a different order; `lis http validate` only says whether
`load_httpd_full` raises, and is no action.

- What is taken of Caddy: the handles of a site are tried by the length of their paths,
  the longest first, whatever their order in the file; of two of one length the one
  without the final "*" comes first; paths are matched without regard to case, and "*"
  inside or at the end of a segment is a wildcard; a site in which two named matchers
  have one name, or with `header_up` outside of `reverse_proxy`, is refused.  Words
  that Caddy does not compare as they are (upper case, "*", "%") are a constant
  operator (`Globs`), of which the theorems assume nothing.
- `docs/plan.md:354` and `413` say of the file that the first line wins.  The simulator
  does that.  Caddy does not: of `GET /a/*` before `GET /a/b/*` it is the second that
  answers `/a/b/c`.  `CasesAgree` says for which requests the simulator speaks for
  Caddy: those no more specific handle further down accepts, with plain words.
- Two kinds of route are lost between simulator and Caddyfile, and `CasesAgree` names
  them: `/p/*` asked for `/p`, and an exact path written with a "/" at its end.
- Priorities are numbered by position, so that `validate_routes`, which refuses
  overlaps of equal priority, refuses nothing that `desugar_config` made.
  `OverlapsAgree` is therefore about the overlap test itself, for routes of one kind.
- Methods, paths and the names of matchers only: host names, values of headers, TLS
  and the wording of the Caddyfile are left out.

### Reverse proxy

One thread takes an epoll event at a time, so each action of `ProxyRelay` is one
event.  A slot holds a client connection and, while `active`, an upstream
connection in one of three phases.  `parsing` is `resp_parsing` and the body mode in
one: "parse" for the first response, "cached" for later ones, "body" once the head
has gone out.  Responses have the sizes of `Sizes`, and their bytes carry the request
they answer and their position, so that it can be said whose they are.

| Code | Model |
|---|---|
| `proxy_accept_batch`, `proxy_handle_client_in`, `proxy_li_start` | `proxy_accept_batch`, `proxy_li_start`, `MarkFails`, `AcquireFails` |
| `proxy_dispatch_hangup_loaded` | `ClientHangup`, `UpHangup` |
| `proxy_li_pump_send`, `proxy_li_enter_relay` | the same: part of the request is sent, or the last of it |
| `proxy_li_finish_resp_headers`, `proxy_li_feed_cached_hdr`, `proxy_li_pump_cl` | the same, for one piece of any length that was received |
| end of stream, errors | `UpEnds`, `proxy_li_finish_err` |

- Everything whose name ends in `_i` is C code of another repository.  What the
  model assumes of it: an acquired connection is one of the pool or a new one;
  `release` with 0 closes it; `finish_ok` puts it back, `finish_err` closes it.
- `cache` is the one head and Content-Length that all slots share.  A response of
  another size that is relayed by it leaves `left` too great or below zero
  (`lib.li:604`), and bytes on a connection that goes back to the pool.  `mixed`
  remembers that this has happened: `PoolClean`, `LeftIsTrue` and `OwnBytes` hold until
  then.
- `hung` remembers that an upstream hung up on an active slot: its connection is closed
  while the slot keeps it (`lib.li:836`), and the slot may then share the descriptor with
  another.  All properties but the types end there.
- Of what came behind the head one send takes some and all is counted
  (`lib.li:572`); what comes in one piece with a cached head is counted and not sent on
  at all (`lib.li:604`).  The run `relay_in_full` shows it.
- The -1 of a failed relay frees the slot, except where the request was already there
  when `proxy_accept_batch` let the client in, which ignores it (`lib.li:752`); a hang-up
  of the client of an active slot ends the relay and leaves the slot to the next
  event (`lib.li:840`).  A head that arrives in two pieces ends the first relay with an
  error (`lib.li:556`).
- When an accept finds no slot, the loop returns and what is left in the backlog
  waits for the next event of the listener (`lib.li:738`).
- Li's static file loops and the start-up are not modelled.

## 3. Runs

| Run | Instance | What it shows |
|---|---|---|
| `realtime_churn` | 3 connections, 2 ids, tables full from 2 entries, 2 topics, 2 events and 3 joins, 4 in all, a leaver and a closer | `TypeOK`, `Bookkeeping`, `OwnChannel`, `FeedOrder`, `NoneSkipped`, `LeaveIsPrompt` under every interleaving of a broadcast with joins, rejoins, leaves and closes, ids that are given again and tables that are rebuilt |
| `realtime_delivery` | 2 connections, tokens of a tenant, badly signed, not ASCII or none, join refused without one, rows of both tenants, 1 event, 2 joins, with fairness | `TenantIsolation`, also for a join refused over an accepted one; `QueueDrained` (every broadcast begun comes to its end) and `MatchDelivered`: only the death of the drain task, or a rebuilt table, stops delivery |
| `realtime_closed_peer` | 2 connections, 1 topic, 2 events | violated: `AlwaysDelivered` (a closed peer ends the drain task) |
| `changefeed` | 9 worlds: the three modes with a library that opens, is broken or absent; junk, poison and torn lines; late threads; a failing read; 2 starts, with fairness | `TypeOK`, `OnePoller`, `InOrder`, `NothingLost`, `HandleOpen`, `QuietWhenStopped`, `EventHanded`, and that `Changefeed` implements `EventFeed` |
| `changefeed_torn` | 3 lines in the WAL file, with fairness | violated: `TornLineHanded` |
| `registry_index` | 3 requests of 8 kinds, 2 versions; beside a listing, or one at a time in all 4 modes with 2 kills | `TypeOK`, `AckedInMemory`, `Durable`, `ShownIsAsked`, `ListingIsTrue`, `PublishedIsFound`, and that `Registry` implements `PackageIndex` |
| `registry_digests` | 3 overlapping publishes | violated: `OneDigest` |
| `projects_store` | 4 requests of 4 kinds; 1 kill under "any" | `TypeOK`, `DisjointStores`, `PortsFixed`; under "apart" `Kept` and `DedicatedPorts` |
| `supervisor` | 4 commands of 4 kinds, 6 processes, 2 deaths of processes or scripts, with fairness | `TypeOK`, `NoOrphan`, `OneStack`, `StackEnds` |
| `relay` | 2 slots, 2 upstream connections, 3 requests, responses of 1 + 1 and of 2 + 2 bytes | `TypeOK`, `OneOwner`, `PoolClean`, `LeftIsTrue`, `OwnBytes` |
| `relay_in_full` | the same, with bodies of 1 byte behind heads of 1 and 2 | violated: `RelayedInFull` |
| `gateway` | every table of 3 routes out of 11 kinds of key, other files with several sites, refused keys and colliding names, 1 edit, 17 paths, 2 methods | `CasesAgree`, `OverlapsAgree` |

Why the bounds are enough.  *Realtime*: one connection to be hurt and one to
hurt it, and a third that gets the id of one of them; two events show a reordering
and a repetition; three joins fill a table of two, so that one of them rebuilds it
under an iteration; two of them are two channels, a rejoin, or one join on each
connection.  With two ids three connections must share one.  Four inputs are two events
and two joins, or one event and three joins.  Roles and delivery need one event,
since each is decided by itself.  *Changefeed*: two lines of one
file show an order and a gap, a third is what follows a torn line; a second
start is what an offset must survive.  *Registry*: a race of publishes needs
two requests, a third observes; two kills allow a kill during the recovery from
a kill.  A listing is interleaved where requests are, under "spread".
*Projects*: four requests are two creates, a launch and a look-up, or two launches
of one project; a third creation brings no new relation between two projects.  *Supervisor*: start, stop, start,
stop with two deaths meets every state of pid files a further start could find;
six processes are two full stacks, or a stack, what a start leaves that dies, and the
next one.  *Relay*:
two slots and two connections can be swapped, shared and leaked; the third request
is the first to get a used connection with a cached head while another slot is at
work.  Two sizes, different in head and body, give every way a head is wrong for a
response; two bytes have a cut between them.  In `relay_in_full` bodies have one byte,
which no send cuts, so that the loss it shows is not that of a partial send.
*Gateway*: overlap and matching order are about two routes; a third is a handle
further down that outdoes both.

Deadlock is not checked: each of these servers waits for clients, and in an
instance the number of requests, events or lines is bounded.

The violations are disagreements between the code and its own documents.

- `docs/realtime.md:31` says a joined client receives `postgres_changes` when a
  matching row is emitted.  A broadcast that meets a connection closed before
  its handler has ended raises `ConnectionClosed` in the drain task, and nobody
  is sent anything again.
- The same promise of `docs/realtime.md:31` fails for a row whose line is read
  between the two writes of its writer.
- `openapi/registry-v1.yaml` says publishing a version that exists with another
  digest is a conflict; two first publishes at once are both answered 201.
- `packages/li-httpd/docs/proxy-nginx-li-migration.md:46` says "Full request/response
  relay in Li"; a client whose relay ended well was sent less than the body, because
  part of it came in one piece with a head that was cached, or a head of another length
  was used.

Others are seen without a run.  Studio's `README.md:21` says each project gets
dedicated ports; two that are created at once get the same (section 2).
`docs/plan.md:354` says the first line wins, which is so in the simulator and not
behind Caddy (section 2).  And `docs/realtime.md:117` says anonymous clients get
public rows only, those without a `publisher_id`; `rls_allows_row` returns true for
every row when the role is anon and the claims name no publisher
(`auth.py:51`).

## 4. Fairness

Safety properties assume none.  `Realtime!Fairness` is weak fairness of the drain
task and of what each handler has begun: asyncio runs every callback that is
ready, and a send does not block for ever, since `ping_interval` and
`ping_timeout` of 20 s end a connection that does not answer.  Nothing forces a
client to join, leave or close, or an event to arrive.  `Changefeed!Fairness` is
weak fairness of each poll thread: the interpreter switches threads.  Nothing
forces a writer, a start or a stop.  `Supervisor!FairSpec` is weak fairness of the
script of each command that was given and of each process: the shell goes on, a
server binds its port or ends, and a signal that was sent arrives.  Nothing forces
a command, a Ctrl+C, or the death of a process or of a script.

## 5. Proofs

TLAPS proves the theorems below for every value of the constants that satisfies
the assumptions of the module; TLC evaluates these assumptions in every run.

| Theorem | Says |
|---|---|
| `RealtimeProofs!TypeCorrect` | `Spec => []TypeOK` |
| `RealtimeProofs!BookkeepingHolds` | `Spec => []Bookkeeping` |
| `RealtimeProofs!OwnChannelHolds`, `FeedOrderHolds`, `LeaveIsPromptHolds`, `TenantIsolationHolds`, `NoneSkippedHolds` | `Spec => []OwnChannel`, `[]FeedOrder`, `[]LeaveIsPrompt`, `[]TenantIsolation`, `[]NoneSkipped`, for any way ids are given again and tables are rebuilt |
| `ChangefeedProofs!TypeCorrect` | `Spec => []TypeOK` |
| `ChangefeedProofs!OnePollerHolds`, `HandleOpenHolds`, `InOrderHolds`, `NothingLostHolds` | `Spec => []OnePoller`, `[]HandleOpen`, `[]InOrder`, `[]NothingLost` |
| `ChangefeedProofs!QuietWhenStoppedHolds` | `Spec => QuietWhenStopped` |
| `ChangefeedProofs!FeedImplemented` | `Spec => ImplementsEventFeed` |
| `RegistryProofs!TypeCorrect` | `Spec => []TypeOK` |
| `RegistryProofs!ImplementsIndex` | if the server is not killed under the load "spread", `Spec => ImplementsPackageIndex` |
| `RegistryEngineProofs!EngineTypeCorrect` | `EngineSpec => []TypeOK` |
| `RegistryEngineProofs!EngineImplementsIndex` | if under "spread" the server is not killed and the engine does not answer reads, `EngineSpec => ImplementsPackageIndex` |
| `RegistryEngineProofs!ShownIsAskedHolds` | `EngineSpec => []ShownIsAsked` |
| `RegistryEngineProofs!DurableHolds` | `EngineSpec => []Durable` |
| `RegistryEngineProofs!AckedInMemoryHolds`, `PublishedIsFoundHolds`, `ListingIsTrueHolds` | if the server is not killed under "spread", `EngineSpec => []AckedInMemory`, `PublishedIsFound`, `[]ListingIsTrue` |
| `ProjectsProofs!TypeCorrect` | `Spec => []TypeOK` |
| `ProjectsProofs!DisjointStoresHold` | `Spec => []DisjointStores` |
| `ProjectsProofs!PortsFixedHolds` | `Spec => []PortsFixed` |
| `ProjectsProofs!KeptHolds`, `DedicatedPortsHold` | if Studio is not killed under "apart", `Spec => []Kept`, `[]DedicatedPorts` |
| `SupervisorProofs!TypeCorrect` | `Spec => []TypeOK` |
| `SupervisorProofs!NoOrphanHolds`, `OneStackHolds` | `Spec => []NoOrphan`, `[]OneStack` |
| `HttpdProofs!CasesAgreeHolds` | `Spec => []CasesAgree` |
| `HttpdProofs!OverlapsAgreeHolds` | if every route can be asked for, `Spec => []OverlapsAgree` |
| `ProxyRelayProofs!TypeCorrect` | `Spec => []TypeOK` |
| `ProxyRelayProofs!OneOwnerHolds` | `Spec => []OneOwner` |
| `ProxyRelayProofs!PoolCleanHolds`, `LeftIsTrueHolds`, `OwnBytesHolds` | `Spec => []PoolClean`, `[]LeftIsTrue`, `[]OwnBytes`: all three claim something until a response is relayed by a head of another size |

*Realtime.*  `Bookkeeping` is the first layer: where the drain task is (`DrainControl`), what
is filed under an id (`IdsFiled`), and that every session of an open connection, the one
in the hand of the drain task included, has been answered (`SessionsAcked`).  It is an
invariant of the run `realtime_churn` too.

What is sent across the awaits needs a second one, `Inv`.  `OneSlot`, `Numbered` and
`OnePlace` say what the code takes for granted of its dicts: a topic has one live
slot, a join number names one session, and a session is in one slot of one dict, at
or to the left of where the drain task took it in its hand.  A dict that is rebuilt moves
its entries to the left only (`Packed`, `Assigned`), so that nothing comes
before the iterator a second time.  `Paced` and `BroadcastOrder` follow the broadcast: nothing
is sent of an event not yet taken, and whatever was sent of the event in hand went to
a join that the three nested loops are past (`Past`: a connection no longer in the
snapshot, an earlier slot, an earlier subscription).  A further send is therefore of a
later event, or of another subscription: `FeedOrder`.  `Left` says that a join that was
left is in no dict, and if the drain task still holds it, it left during that event:
`LeaveIsPrompt`.  `RowsAllowed` is `TenantIsolation` for every session there is, by the
claims it has and not by the reply it got.

`OwnChannel` needs `Ownership`.  The dict under broadcast is sent to a connection
with the id of its owner (`SameId`), which is not always the owner.  `OneHolder`: no two
connections whose handlers run have one id, so that the owner of the dict is then
gone.  `Late`: a connection that shares its id with one under broadcast connected
after the event was taken, and was sent nothing of another.  Once the event is done
the snapshot is made anew, from connections that have a handler (`Alive`).

`NoneSkipped` is about what is still to come (`Delivery`).  `Owed` says that while an event
is broadcast, a join made before it has been sent its rows or lies ahead of the loops,
unless the entries of its dict have moved during this event; `NoSkips` says the same of
the events that are done.  They need `Filed`, that every connection with a session
is in `_ws_index`; `InHand`, that the slot the drain task is at still has the session it took, or
a younger one; and `OwnerServed`, that the dict the loops are in, if it is that of an open
connection, is served to this connection.

*Changefeed.*  One inductive invariant for all worlds.  `Parts` describes the files: a tail
follows its head.  `Collected` says that every event line behind an offset, or behind the
position of a poller that is reading, was handed over or is in what a poller has
collected: `NothingLost` is its first half, and it survives late threads because an
offset only moves to where some poller has read.  `OnePoller` and
`HandleOpen` are inductive together, since `stop_polling` closes the handle only after
the join.  `InOrder` needs that what a running poller has collected, and will collect,
comes after what was handed over (`Fresh`), which holds when threads are not late and no
read fails; a read that fails leaves the offset where it was, and lines collected
before it are read again.  `NoDeath` says that without faults and bad lines no poller dies.  The
refinement uses all of them: a dispatch is a `Hand` of `EventFeed` because the event is the
first one not handed over, and every other step leaves `handed` alone.

*Projects.*  The inductive invariant is `TypeOK /\ DisjointStores /\ PortsFixed /\
Untold`.  Both properties speak of every copy of the store in flight as well as of
the file, because any of them may be written next.  `Untold` says that a request
that has not allocated has told its client nothing, so that the block it
allocates cannot contradict an older answer.  The lemmas `ReadFits`,
`AllocatedFits` and `RecordedFits` reduce the actions to facts about stores.

`Kept` and `DedicatedPorts` need that no request reads the file between another's read and its
write.  `ApartInv` has it for the load "apart": one request is between its read and its
write (`OneWriter`); the file has exactly the projects whose clients were told (`Stored`),
each with a status that a launch reported; and what that request is to write is the file
with one project more or one status changed (`InStep`), which the others leave as it
is (`OthersStay`).  Two projects whose clients were told are then in one store, and
stores have disjoint blocks.  Between `Truncate` and `Write` the file is torn, and a
kill there loses every project: hence the hypothesis.

*Registry.*  Two inductive invariants.  `TypeInv` is for every load: `TypeOK`; a
request past the opening has a store in its hands; a store that a request is about
to open is used by nobody; and a version that is being marked is there, because no
step removes one (`VersionsStay`), so that the object `YankMark` writes to exists.
`SpreadInv` is for the load "spread" and has two phases.  While no store is set
(`Cold`) one request is past "new", the file does not exist until it saves, and
what it opened is the seed: setting the store does not change the index that a
client could see.  Once the store is set (`WarmOf`) every request works on it, is
undecided until it takes effect, and what it saw before it acts still holds: a
request about to insert finds no entry, one about to mark finds the entry that it
looked up, not yanked.  The last part is what the bare property lacks; it is kept
by the others because their keys are apart (`Apart`, `Undisturbed`).  Every step
then is either unseen by the index (`QuietStep`) or one `Handle` of it
(`AnswerStep`, `InsertStep`, `MarkStep`).  The theorem assumes that no kill happens
under "spread": a server that comes back has the file, which may lack what
memory had, and is another index.

*Registry on lidb.*  The runs check `EngineSpec`, so these are the theorems about what
the runs check.  A step of `RegistryEngine` is a step of `Registry` or an `EngineStep`
(`StepOfStore`): a plan raised and the request ends undecided (`Raised`), or the engine
answered a read (`Answered`).  The first, and a request that fails because lidb is missing, changes neither the store nor the index, so
`TypeInv` and `SpreadInv` carry over; the second may find what the store does not have,
and is what the theorem on the index excludes.  `ShownIsAsked` is proved for
every load, every mode and any number of kills: each version in a store, in the file
and in the rows of a save has its digest from the demo or from a publish that was accepted
(`StoreSourced`), and accepted stays accepted because a request is decided once
(`Once`).  Each row of the engine has its digest from a publish whose plan may have run
(`EngineSourced`), which stays so because a request that is done stays done
(`EndStays`).  What a client is shown comes from one or, with the engine ready, the other.

`Durable` and `AckedInMemory` have an invariant for each load.  Under "serial"
(`SerialInv`): at most one request is in flight, and both the store and a file that is
JSON say what clients were told, except that the request in flight may be ahead of the
file.  An answer is sent after the save, so that a kill at any step leaves a file that is
torn or true.  Under "spread" (`SpreadTrue`) the store has what was decided, since only a
request for the same version could change it and there is none; the file may lag
behind, and a kill would show it: hence the hypothesis of the three theorems that
speak of both loads.  `PublishedIsFound` is a property of steps, proved from the same
invariants: a request that finds nothing finds it in the store that has every version
that was told of.  `ListingIsTrue` adds what the listing has collected so far (`ListInv`): it
is in the store, to which versions and yanks are only added (`Grows`).

*Supervisor.*  A stray is a process that no pid file names for one of two reasons: its start
script died before it wrote the pid down, or a trap removed the file of a later start.
If commands are given one at a time (`Alone`), every other process that is not
about to end is in its pid file or in the hand of the one command that is about to
write it (`Named`), and `lis-db.pid` is there whenever a process is, so that
a stop does not end at line 172 (`Found`).  `Owned` keeps pid files and strays apart.
`Ports` says that where a process has ended before the next start (the scene "settled")
nothing is dying while one is under way, no two live processes have one role, and no
trap has taken a file.  `Room` says that when a start is about to launch or to write down a
process, no other standing one has its role, and `Stopped` which processes a stop has
already ended.  The death of a process takes no pid file away, and that of a script makes
what it held a stray, so every part is kept.  The theorems are for any number of
commands, processes and deaths.

*Gateway.*  The state machine needs little: what the simulator said, and what was rendered, is
of the file as it is, because an edit voids it (`Answered`, `Written`).  The rest is about
the operators, for tables and paths of any length, and for any way Caddy reads words
with a `*` and matches cases.  `PrefixIs`, `PrefixesNest` and `PrefixShorter` are the facts
on prefixes.  `FirstMatch` says that the simulator's choice of least priority is the first
route that matches; `HandleMatches` and `HandleAccepts` compare a route with the handle
rendered for it; and `FirstAnswers` says that Caddy, which tries the longest path
first, answers by a handle that accepts the request if no longer one and none of its
length further up does.  That is the excuse of `CasesAgree`, in terms of the handles.
`OverlapShared` and `SharedOverlap` compare `routes_overlap` with the
requests that two routes share.  That an overlap is real can only be shown if the
requests include one for each route (`EveryRouteAsked`, which TLC evaluates for the
instance of the run).

*Reverse proxy.*  Four inductive invariants, for any set of sizes and any number of slots,
connections and requests.  `TypeInv` adds to `TypeOK` that a connection epoll names a slot for
is open and that an active slot has a connection and a request; `left` is an integer,
which does go below zero where a head was used for a shorter response.  It holds after
a hangup of an active upstream as well.  Until there is one, `Owned` holds: each open
connection is in the pool or has one active slot.  Until, further, a response is relayed
by a head of another size, `Clean` holds: nothing is on a connection that is closed or in the
pool, and for every active slot `Fits`, which says what is on its connection by the phase
it is in: nothing before the request is sent, the beginning of its response while the
head is read (`Coming`), and the last `left` bytes of it after that (`InBody`).  That ties
the three counters of the code (`LeftBehindHead`, the one of `proxy_li_feed_cached_hdr`, the
cut in `proxy_li_pump_cl`) to one quantity.  `CleanPump`, `CleanParse` and `CleanCached` say what the three
ways to go on do to it.  A head that is kept may be replaced only by one of the same size
(`CacheKept`), which is what lets the other slots keep theirs (`FitsKept`).  The lemmas on
`Piece` cut a response in two.  `AllSent` is for `OwnBytes`: what a client was sent of the body
are bytes of its own response, each behind the one before, and none behind those that
are counted as taken (`Rising`), so that what is taken next may follow (`RisingAppend`).

*Only model-checked.*

- Liveness under fairness and whatever rests on ENABLED is out of the prover's
  reach: `QueueDrained`, `MatchDelivered`, `EventHanded`, `StackEnds`.  So is what a
  recursive definition computes for every input.
- Every other property of a passing run is a theorem.  Some have a hypothesis, without
  which TLC finds a counterexample on a small instance: `AckedInMemory`,
  `PublishedIsFound`, `ListingIsTrue` and the refinement of
  `PackageIndex` fail with one kill under "spread", and `Kept` and `DedicatedPorts` with one
  kill under "apart", after which the file is torn or behind memory.  `EngineImplementsIndex`
  leaves out an engine that answers reads from its own rows, which are not the index;
  `OverlapsAgree` cannot hold where no request reaches a route.

## 6. Not modelled

- Of li-httpd: the static file loops, the start-up that picks a mode, and the C
  runtime with TLS, HTTP 2, snapshots, probes and the idle timer.
- What lidb does: the plans' SQL, its changefeed cursor, its catalogue.  External;
  the model has what the code relies on.
- Studio's bridge and pages: one helper process per request that reads lidb's
  catalogue, and React pages that show it.  No state of their own.
- The small Li packages: sequential functions, most of them stubs.
- The benchmark harness, CI scripts, documents, the site: no program logic.

## 7. Plan

1. *Done*: `Realtime`, `Changefeed` with `EventFeed`, `Registry` with `PackageIndex` and
   `RegistryEngine`, `Projects`, `Supervisor`, `HttpdGateway`, `ProxyRelay`; the
   theorems above.
2. *Done*: an inductive invariant and a theorem for every safety property that a run checks,
   and both refinements.
3. The composition of `Changefeed` and `Realtime`: a line of a file that is written
   reaches the client that joined.
