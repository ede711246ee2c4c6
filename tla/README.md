# A TLA+ model of TransferIDS SENTINEL-X

TransferIDS SENTINEL-X is an intrusion detection system: sensors and uploads hand network flows to a
FastAPI backend, a classifier calls each flow benign or an attack, and analysts triage the resulting
incidents in a browser. This directory models the parts of it that keep state and share it, checks
them with TLC on small instances, and proves the central invariants with TLAPS for every value of the
constants.

Contents

1. [The system](#1-the-system)
2. [Modules](#2-modules)
3. [How each model corresponds to the code](#3-how-each-model-corresponds-to-the-code)
4. [What the runs check](#4-what-the-runs-check)
5. [Bounds and fairness](#5-bounds-and-fairness)
6. [What is proved](#6-what-is-proved)
7. [Disagreements between code and documents](#7-disagreements-between-code-and-documents)
8. [What is not modelled](#8-what-is-not-modelled)
9. [Where it could go on](#9-where-it-could-go-on)
10. [Running it](#10-running-it)

## 1. The system

| Component | State it keeps | Operations that change it | Talks to | What is hard |
|---|---|---|---|---|
| Event store (`backend/app/services/event_store.py`) | lists of events, jobs and reviews in memory under one lock; tables `events`, `incidents`, `ingestion_jobs`, `reviews` | `add_many`, `add_review`, `create_incident_from_event`, `update_incident_status`, `add_incident_note`, `clear` | routes call it from worker threads; every operation calls the database | each operation is a chain of database calls and critical sections; any database call may fail, and then memory is asked; the lock is not reentrant |
| Agent registry (`agent_registry_service.py`) | a dictionary keyed by agent id; table `devices` keyed by tenant and agent id | `heartbeat`, `observations`, `enroll`, `get`, `list`, `summary` (the last three store what they read) | intake and agent routes | two copies of a counter, one of them read before the lock is taken |
| Thin sensor agent (`agent/transferids_agent.py`) | queue file of batches that could not be sent | a cycle: retry queue, heartbeat, read, send, enqueue | the intake routes, over HTTP | lost replies, a file rewritten in place, kills, exceptions nothing catches |
| Windows agent (`backend/agents/windows_agent`) | buffer file of payloads that could not be sent | a run: heartbeat, flows, flush | the intake routes | the buffer is unlinked before it is resent; the failed entries are written back twice |
| Users and sessions (`user_service.py`, `auth_routes.py`, `dependencies.py`) | table `users`; signed tokens that expire | `login`, `register` | every protected route | check-then-insert; a token is only as good as its user's row |
| Session of a tab (`frontend/app.js` 79-110, 941-1104, 1385-1439, 8139-8271) | token, role and name in the tab's sessionStorage; the same three, left by older builds, in the localStorage all tabs share; the login form | the login form's handlers, `syncAuthenticatedUser`, `logout`, `migrateLegacyAuthState` | `/auth/*` | the form is read again after its awaits, the button is never disabled, a page runs on after it has been left |
| Live feed of a page (`app.js` 949-1017, 5829-5981) | `realtimeState`: the last number seen, an interval, a socket, a retry timer, a flag for the poll in flight | timers, socket callbacks, `pollRealtimeFeed`, `logout` | a numbered feed and `/ws/events` | the socket and the interval replace each other while polls are in flight and refreshes run |
| Pages (`app.js` 2305-2610, 3060-3931, 4045-8137, 8274-8740) | one object per page (`dashboardData`, `incidentEventLedgerState`, `responseState`, ...) and what each panel shows | page loads, presses, refreshes by the feed | the routes, in several requests each | handlers overlap at their awaits; a load assigns some fields, draws some panels, and may fail in part |
| Database gate (`backend/app/database.py`) | the flag "available", the time of the last attempt | `initialize_database`, `is_database_available` | every database call asks it | the flag is sticky once set; a failed attempt is not repeated for 5 s |
| Intake and detection (`api/intake_routes.py`, `agent_receiver_service.py`, `onnx_runtime_service.py`) | the decision threshold | validation, model gate, prediction, then `add_many`, `observations`, `publish` in this order | event store, registry, event bus | three effects without a common transaction; a threshold that settings may change meanwhile |
| Event bus and live socket (`core/event_bus.py`, `api/websocket_routes.py`, `main.py`) | the last 500 events of each channel | `publish`, `recent` | intake; the browser's socket | the server speaks only when spoken to, and not of events |

A request of the backend runs on a worker thread of its own, since most routes are plain functions; the three
upload routes are coroutines whose calls on the stores block the event loop, which makes the loop one more
thread. A page is one thread of JavaScript: a handler runs alone up to its next await, and others run while it
waits. Two requests interleave between any two database calls and between any two critical sections. A sensor is a
separate process on another machine that sees only replies, or none.

What makes each part correct:

* **Event store**: the tables change by whole transactions (`EventLedger`); no event without its job and
  its whole batch; no attack without an incident; no row that no intake request handed over; triage is
  not undone by a late insert; one tenant's rows are out of another's reach; every request is answered.
* **Agent registry**: no sensor is credited with more than it reported; a count once on record is not
  wiped by an empty memory; with nothing in the way the count is exact.
* **Agents**: a batch that was read reaches the server or is still on disk; it is sent twice only when
  the agent could not know; batches keep their order; a backlog is worked off.
* **Users and sessions**: one account for a name; a page shows the name of the account its token stands for; a
  tab that is signed out is not signed in again by what it finds in the storage; redirects come to an end.
* **Live feed**: a page always has a way to hear of what is new; polls do not overtake each other; no item is
  skipped; what is published arrives.
* **Pages**: a page at rest shows what its objects hold; numbers shown side by side are of one state of the
  backend; the map is a graph; what the analyst selected stays selected.

`PROJECT.json` lists every hazard of this kind with its line and the properties that cover it.

## 2. Modules

| Module | What it is |
|---|---|
| `EventDomain` | the data of the event store: batches, their events, owners and verdicts; a table of incidents |
| `EventLedger` | abstract: four tables that change by whole transactions |
| `EventStore` | the event store step by step: memory, lock, tables, threads, failures, restarts |
| `MCEventStore` | its TLC instance; four configurations |
| `EventStoreProofs` | its inductive invariant and theorems, among them that it implements `EventLedger` |
| `AgentRegistry` | the registry: dictionary, table, overlapping requests |
| `MCAgentRegistry` | its TLC instance; three configurations |
| `AgentRegistryProofs` | its inductive invariants and theorems |
| `Delivery` | abstract: store and forward, what both agents promise of the batches they read |
| `SensorAgent` | the thin agent's continuous mode and its queue file |
| `SensorAgentProofs` | its inductive invariant and theorems, among them that it implements `Delivery` |
| `WindowsAgent` | runs of the Windows agent and its buffer file |
| `WindowsAgentProofs` | its inductive invariant and theorems, among them that it implements `Delivery` |
| `Session` | users table, tabs of one browser, the login form, tokens, storage |
| `MCSession` | its TLC instance |
| `SessionProofs` | its inductive invariant and theorems |
| `LiveFeed` | the feed of one page; two configurations, with the feed it is written for and with this backend |
| `LiveFeedProofs` | its inductive invariant and theorems |
| `PageTables` | the eight pages as data: which fields each panel reads, which fields each segment of a handler assigns and which panels it draws |
| `PageViews` | a tab: page, waiting handlers, panels that show the present state; runs any table |
| `Dashboard` | the dashboard's data by value: summary, events and incidents made into tiles, score, map, lists |
| `Ledger` | the incidents page by value: list, filter, selection, detail |
| `Workbench` | `PageViews` with the `Dashboard` and the `Ledger` (INSTANCE) behind two of its pages |
| `MCWorkbench` | its TLC instance |
| `WorkbenchProofs` | the handlers and panels: its inductive invariant and theorems |
| `WorkbenchDataProofs` | the data behind the panels: lemmas on lists of any length, invariant and theorems |

Definitions named `...Torn`, `...Keep` and the like, with a comment that begins with "Mutant", are
changed forms of the action that follows them. No specification uses them; each shows that a property
notices a plausible mistake in that action (`mutants` in `PROJECT.json`).

## 3. How each model corresponds to the code

### EventStore

A thread's request is `req[t]`, the place it stands at is `pc[t]`. One step is one call on the database
or one critical section of `EventStore._lock`; between two steps other threads run.

| Code | Actions |
|---|---|
| `add_many`, `_persist_add_many` | `AddMemory`, `PersistAddMany` |
| `get_event`, `get_incident` with their fallbacks | `Get`, `GetEventDb`, `GetEventMem`, `GetIncidentDb`, `GetIncidentEventDb`, `GetIncidentMem` |
| `create_incident_from_event`, `_persist_incident` | `CreateIncident`, the look-ups, `PersistIncident`, the reply's look-up |
| `update_incident_status`, `_db_update_incident_status` | `UpdateStatus`, `UpdateDb`, `UpdateMem`, the nested look-up |
| `add_review`, `add_incident_note`, `_persist_review` | `SubmitReview`, `AddNote`, `ReviewMem`, `PersistReview` |
| `clear`, `_db_clear` | `ClearStore`, `ClearIncidents`, `ClearJobs`, `ClearEvents`, `ClearMem` |
| end of the process | `Restart` |

* *Database calls.* The code turns "believed unavailable", an exception of the driver and a rollback into
  the same `None`. `DbCall(ok)` is the choice between the two outcomes; `DbOutcomes` says which can happen.
  The gate's flag and its five seconds only restrict which sequences of outcomes occur, so the model
  allows more than the code.
* *Transactions.* Every transaction of one statement is one step, and so is the batch of `_persist_add_many`,
  which only inserts. `_db_clear` reads and deletes in four statements; at PostgreSQL's default isolation
  each sees what is committed so far. `doomed...` holds the rows the open transaction has deleted and locked.
  The deletes of reviews and incidents are one step, and the last delete and the commit are one step: what
  another thread could do in between commutes with them.
* *Memory.* `mem` gives the status of each event held, `Absent` for none. The lists' order and their contents
  beyond ids, owner, verdict and status are left out.
* *Data.* The event id determines the incident id (`evt_<hex>`, `inc_<hex>`), so an incident is named by its
  event. Job ids are fresh; `drawn` remembers those used.
* *Reviews* are a set of pairs of event and tenant: how often the same note was added is not kept.
* `clear` without a tenant is called by tests only and is left out. Reads that only format what they find
  (`list_reviews`, `list_ingestion_jobs`, the timeline, the summary, the exports) have no effect and are left out.

### AgentRegistry

Of a record the tenant and `observations_received` are kept; `events_created` is treated alike, the other
fields are last-writer-wins. `heartbeat` and `observations` hold the lock from the read of the dictionary to
its write, the upsert included, and are one step. `enroll`, `get`, `list` and `summary` call the database
first (`Enroll`, `Load`) and take the lock afterwards (`Store`). `Kept` is the `record or device or 0` of the
upsert, `told` is false when the upsert commits and the row cannot be read back. `received` is a history
variable: what the sensors really reported.

### SensorAgent

`pc` follows `run_once`: `retry`, `resend`, `write_back`, `heartbeat`, `read`, `send`, `enqueue`, `sleep`, and
`exited` when an exception nothing catches or a kill ends the process. `queue` is the file, one batch a line,
`Torn` for a line cut short. A request is accepted and answered (`Sent`), or failed as far as the agent can
tell, accepted or not (`NotSent`). `retained` and `line` are `retry_queue`'s locals. A batch is named by the
order of reading; what validation makes of the observation file is abstracted to three results: a batch,
nothing, an exception. `Kill` may strike at every step; in the steps that write the file it leaves any part of
the lines, and then the file is what the next start finds. `unsure` and `dropped` are history variables that
say when a repetition or a loss is the network's or the kill's doing.

### WindowsAgent

A run goes through `beat`, `read`, `send`, `flush`, `resend` and ends `idle`. `send_payload` has three outcomes:
delivered; failed and buffered (refusals, time-outs, and replies that are no JSON, so that the payload may
have been accepted); broken off (a connection that ends before the status line raises an exception outside
the list of caught ones, and the process ends). `BreakOff` stands also for a kill in mid-request or while the
payload is buffered. The flow file is replaced by the collector at any time and read again by every run.
`clean` and `dropped` are history variables.

### Session

| Code | Actions |
|---|---|
| submit handler of `initLoginPage`, `loginWithCurrentCredentials` | `Submit`, `LoginAnswer`, `LoginFails` |
| `create_user` (look-up; insert and commit under the unique index) | `RegisterCheck`, `RegisterInsert` |
| the fields of the form | `Edit` |
| `initApp`, `requireAuth`, `migrateLegacyAuthState` | `Load`, `RunScript` |
| `syncAuthenticatedUser` with `/auth/me` (`get_current_user`) | `SyncAnswer`, `SyncFails` |
| `apiRequest` answered 401, the log-out button | `Refused`, `PressLogOut` |
| expiry of the tokens | `Expire` |

A document is `fetched` (its script has not run), `syncing`, `ready` or `leaving`: `window.location.href` starts a
navigation, and handlers of the page go on until the next document takes over. So a login may be answered after
the user pressed another button, a second one after the first. The name that is stored is read from the field
when the answer is there (app.js:8222), the token belongs to what was sent: `LoginAnswer` keeps both apart.
`/auth/me` returns no field `role` (it returns `roles`), so `SyncAnswer` stores "user". Passwords are compared as
values; hashing and signing are taken as they are meant. A tab that is opened twice is two tabs from the start.

### LiveFeed

`rt` is `realtimeState`. `EnsurePolling(r)` is `ensureRealtimePolling` called with the state `r` that the caller's
assignments left; it polls at once when the interval was not running. `pollRealtimeFeed` (`SendPoll`) is ended by
`PollAnswer`, with or without a refresh of the page that it waits for (`RefreshDone`), by `PollNull` when `tryApi`
gives `null`, or by `PollRefused`, a 401 that signs out. The socket's callbacks are `SocketOpen`, `Push`,
`BadMessage` (no JSON, app.js:5945), `SocketError`, `SocketClose`; `Retry` is the timer of three seconds. The
interval's ticks that do nothing are stuttering. `FeedServed` tells the two backends apart: with `FALSE`, nothing
ever answers the question the page asks, which is this backend; with `TRUE`, answers and pushes carry the items
after a number, in order, which is what the page's code expects. `signalled` is a history variable.

### PageTables, PageViews

A panel is what one render function draws, and its definition in `PageTables` is the set of fields that the function and its
helpers read. A handler is a sequence of segments, one for each stretch between two awaits; a segment names the
fields it assigns and the panels it draws after the last assignment to a field they read. Where an answer decides
how a handler goes on, each way is a handler (`InitCase`, `InitNoCase`, `InitNoDetail` of the response page). `PageViews`
runs them: `fresh` is the set of panels that show the present state; a segment takes the panels that read what it
assigns out of it and puts those it draws in. `Open` replaces the document; `Bound` is that the init handler is
done, after which the page's controls and its feed work.

### Dashboard, Ledger, Workbench

`Dashboard!LoadDone(l, s, t, i)` is `loadDashboardFromApi` with its summary, events and incidents answered from
the moments `s`, `t`, `i` since it was sent; `Overview` is `loadWeb3DashboardCompat`, `RiskScore`, `Kpis`, `Drivers`,
`Topology` are what is made of it, with JavaScript's `||` (`Or`) and rounding (`Rounded`). `LoadFails` is the early
return at app.js:3251. `Ledger!Draw` is the part of `renderIncidentCommandCenter` that moves the selection and
belongs to every step that draws. Objects the dashboard copies as they come (metrics, sensors, reviews,
optimization) are followed by `PageViews` only.

`Workbench` joins them: a step of a page is a step of `PageViews` (`Begin` or `Resume` of a handler) together with
the step of the data behind it. A slot is a handler under way; its load or request is kept under the same slot.

## 4. What the runs check

| Run | States | Shows |
|---|---|---|
| `event_store` | 1,254,086 | two requests at a time, every database call free to fail, restarts at any step: whole batches, incidents for attacks, no invented rows, request-local state that stays true, lock discipline, triage never undone, tenants isolated, and the refinement of `EventLedger` |
| `event_store_healthy` | 280,318 | while the database answers, an accepted batch is in it when the request ends, and every request ends |
| `event_store_outage` | violation | with the database down, a status update waits for the lock it holds |
| `agent_registry` | 2,101,526 | overlapping requests, failures, restarts: never more than reported, never back to none |
| `agent_registry_sequential` | 120 | one request at a time on a database that answers: exact counts, so the losses of the next run come from the overlap alone |
| `agent_registry_overlap` | violation | a reader's stale record takes a count back |
| `sensor_agent` | 16,319 | nothing lost, repeats only when unsure, order kept, the queue drains, and the refinement of `Delivery` |
| `windows_agent` | 160,589 | the refinement of `Delivery` (nothing lost but with a process that ends or behind a torn line), clean runs leave no backlog |
| `session` | 977,893 | overlapping submits, edits under way, two tabs, a login left by an older build, expiry, no network: one account for a name, the name shown is the token's, signed out is out, pages come to rest |
| `live_feed` | 3,050 | a socket that opens, fails and closes at any moment beside the polls: never deaf, one poll at a time, nothing skipped, everything arrives |
| `live_feed_backend` | violation | with this backend nothing that is published reaches a page |
| `workbench` | 28,410 | all pages, two handlers at a time, answers in any order or none: panels at rest are right, the dashboard is of a piece, the map is a graph, detail and selection agree and stay |

What the less obvious ones say:

* `LedgerSpec` is the refinement: every step of `EventStore` on the tables is one transaction of `EventLedger`
  or leaves them alone. `EventLedger!Clear` lets a batch that is committed between the deletes keep its job
  and incidents and lose its events, because the code does; `BatchIsWhole` is stated for events.
* `InFlight` is about what a request carries from step to step: between a look-up and the write several steps
  later other threads may clear, restart or insert, and the write must still be the one that was allowed.
* `TriageIsNeverUndone` and `TenantIsolation` are about steps: a status changes only to what some request
  under way asks for, a row only under a request of its tenant.
* `NeverOvercounts` covers the count in the row, in memory, and in the hands of a request that has read it
  and not yet stored it. An agent id used by two tenants is in the instance, but nothing is promised for it:
  the dictionary is keyed by the id alone.
* `CountedOnTop`, violated, is the stronger promise that the registry's docstring suggests.
* `QueueInOrder` includes that nothing stands behind a torn line, which is why a torn line costs nothing but
  itself; the agent then ends at that line at every start, and `QueueDrains` says so by its second disjunct.
* `DeliverySpec` is the same abstract specification for both agents, under two mappings. What an agent holds
  (`Held`) is the file, the batch in hand, and for the sensor agent the retained lines while the file is
  empty, for the Windows agent the lines a flush works on. The sensor agent reads no batch twice and loses one
  only if it may be killed (`Losses <- Kills`); the Windows agent reads the flow file again at every run
  (`Rereads`) and may lose batches without a kill, when a connection breaks off. Besides what `NothingLost` says,
  it states step by step that only batches an agent holds are accepted or noted as lost, one acceptance at a time.
  It implies `NothingLost`, which the Windows agent's run therefore does not list beside it.
* `DeliverySpec` of `WindowsAgent` has a surprising corollary: a kill while the remaining lines are written
  back loses nothing, because of the very duplication that a failed flush causes (section 7). Removing only the
  `_buffer_payload` half of it would turn that kill into a loss (the mutant `ResendOnceKept`).

* `ShownIsOwner` is about pages of the application that are ready. Between a login and the next page's
  `/auth/me` the tab may well hold one user's token with another's name (two submissions, or a field edited
  while one runs); the property is that no page is shown in that state.
* `SignedOutMeansOut` relates the two storages across tabs: every write to a session empties the shared storage.
* `PagesSettle` fails when `logout` forgets to clear the token: login page and application then send the tab to
  and fro for ever (the mutant `ClearSharedOnly`).
* `SignalsComplete` holds although `lastSeq` may go back: a push can be applied between a poll's question and its
  answer. Items are then applied twice, none is skipped.
* `AtRestDrawn` covers every panel of every page. `DrawnOnRefresh` names the three panels that
  `initDashboardPage` does not draw and `refreshDashboardPage` does.
* `DashboardIsOnePicture` says for each group of numbers that comes from one answer that all of it comes from the
  same answer, and that a failed load leaves no case on the page. Numbers of different answers (`eventizationRate` from the
  summary beside a list of events) may be of different moments, and so may tiles after a failed load.
* `SelectionIsKept` is about steps of the incidents page; `Bound'` tells them from the opening of a page.

`CHECK_DEADLOCK FALSE` stands in four configurations: the outage run, where the deadlock is the point; the
Windows agent, which ends after a run and is started again by somebody else or not at all; and the two of the
feed, since a page that is signed out stops.

## 5. Bounds and fairness

*Event store.* Two threads (a third brings no new pair of steps: no step waits for two others), two tenants,
two batches: one with an attack and a benign flow, one of another tenant; two statuses, since an update
distinguishes only "as inserted" and "as asked". Requests name an event by its tenant and by the wrong one.
Reviews touch none of the safety properties but isolation of `doomedReviews`, and are on in the healthy run.
The healthy run has one batch: the liveness question is about locks. Threads are symmetric, and the
symmetry is used only in the safety run.

*Agent registry.* Two threads, two agent ids (one shared by two tenants), `MaxReceived` 2 bounds the flows one
sensor reports: 1 and 2 suffice to tell "kept", "replaced" and "added". `MaxReceived` is a guard of
`Observations` and bounds nothing else.

*Sensor agent.* `MaxCaptures` 3 batches: one sent, one failed and one new in a single retry. `accepted` stops
counting at 2, which stands for "more than once".

*Windows agent.* Two batches, and a run is started only with at most `MaxLines` = 4 lines in the buffer, since
each failed flush doubles it; a run can leave up to twelve.

*Session.* Two tabs, two submissions of one tab's form, a name typed in two spellings with two passwords, the
bootstrap administrator's account and a login of his left in either storage, tokens that expire once. Two
registrations of one name and a registration racing a login are within it; a second expiry (`MaxEpoch`) would
only repeat the first.

*Live feed.* Three items (a push between a poll's question and its answer, and one more), two poll slots (the second
is there to see that it is not used while signed in). The numbers of the interval and the retry timer are abstracted to "at any time".

*Workbench.* Two slots: two handlers at a time are enough for any pair to overlap; three moments of the backend
with 0, 3 and 5 cases (the map takes four), two sources of which one is located only in its second case, one case
that closes meanwhile; three events, one of them an attack of high severity; a search that finds some of them,
one that finds none; two windows.

*Fairness.* `EventStore!Fairness` is strong fairness of each thread's steps: the operating system runs the
worker threads, and a lock released again and again is got at last. No fairness is assumed for arrivals,
failures or restarts. `SensorAgent!Fairness` is weak fairness of the cycle (the loop runs while the process
does) and strong fairness of a successful resend of each batch: a batch sent over and over gets through some
day. `Start` is not fair, since nothing in the repository restarts the agent; `QueueDrains` therefore ends with
"or the agent has ended". The registry and the Windows agent are checked for safety only: the registry's
operations have no loop and no wait but for its lock, and the Windows agent ends by itself.
`Session!Fairness` is weak fairness of a tab's own steps: the browser fetches the page, runs its script, and a
request is answered or fails; the user does nothing he must. `LiveFeed!Fairness` is weak fairness of `Start`, of
the retry timer, of the end of a refresh, of a push over an open socket that has something to push, and of
`PollNull`: a poll does not hang for ever; and of the interval's tick. It is strong fairness only of an answer with
all that is published: asked again and again, the feed answers some day. Weak fairness of the tick leaves one corner
of the code open, which `PublishedIsSignalled` therefore names as its hypothesis (`<>[][~BadMessage]_vars`): a message
that is no JSON starts the interval beside the open socket (app.js:5952), the close that follows finds it
running and does not poll, and a socket that opens before it fires clears it. Only if that happens for ever is the page
never told; without the hypothesis TLC shows exactly this loop. The workbench is checked
for safety only: an answer that never comes leaves a handler waiting, and the page as it was.

## 6. What is proved

All theorems hold for every value of the constants that satisfies the named assumptions (`DomainAssumption`,
`StoreAssumption`, `RegistryAssumption`, `AgentAssumption`, `WindowsAgentAssumption`, the six of `Session`,
`FeedAssumption`, `IdleAssumption`, `WorkbenchAssumption`, `ContentsAssumption`): any number of threads, tenants, batches, sensors, tabs,
submissions, published items, overlapping handlers, cases and events of the backend; databases that answer, fail or both; with or without restarts and kills. The
assumptions state types, and that the values standing for "none" are not values of the domain. `ContentsAssumption`
says that the backend answers with lists, and that a case's risk and an event's confidence are natural numbers: the
model counts both in whole units of its own (hundredths for the confidence), where the code has fractions.

| Module | Theorems |
|---|---|
| `EventStoreProofs` | `TypeCorrect`, `RequestsCarryTheirOwn`, `BatchesAreWhole`, `AttacksHaveIncidents`, `RowsAreReal`, `LockDiscipline`, `TriageIsKept`, `TenantsAreIsolated`, `Refinement`, `AcceptedIsKept` |
| `AgentRegistryProofs` | `TypeCorrect`, `CreditIsEarned`, `CountsSurvive`, `QuietCountsAreExact` |
| `SensorAgentProofs` | `TypeCorrect`, `BatchesAreKept`, `DuplicatesAreExplained`, `OrderIsKept`, `StoresAndForwards` |
| `WindowsAgentProofs` | `TypeCorrect`, `BatchesAreKept`, `CleanRunsDrain`, `StoresAndForwards` |
| `SessionProofs` | `TypeCorrect`, `AccountsUnique`, `OwnerShown`, `SignedOutStays` |
| `LiveFeedProofs` | `TypeCorrect`, `Hearing`, `PollsAlone`, `NothingSkipped` |
| `WorkbenchProofs` | `SelectionKept`, `DrawnAtRest` |
| `WorkbenchDataProofs` | `TypeCorrect`, `PictureIsOne`, `MapStaysGraph`, `ShownIsListed` |

Each follows the same line: `Init => IInv`, one lemma per action that `IInv` is preserved, and `IInv` implies the
property. What `IInv` adds to the properties, and why:

* **Event store.** The properties about rows are not inductive because a request writes what it read long
  before. `InFlight` is the strengthening: it says what `req[t]` guarantees at each `pc[t]` (a job about to be
  persisted was drawn, is not yet in the table and is in no other thread's hands; an incident about to be
  inserted belongs to the tenant that asked and to a batch that was handed in) and that an open delete holds
  rows of its own tenant only. `BatchIsWhole` needs that `drawn` jobs are persisted once; `AttackHasIncident`
  needs that the last delete takes all events of the tenant while the incidents it takes are of the same
  tenant. `TriageIsKept`, `TenantsAreIsolated` and `Refinement` are action properties from the same invariant.
  `AcceptedIsKept` is stated for a database that answers every call (`DbOutcomes = {TRUE}`) and a process that
  lives: without the first an accepted batch may be in memory only, by design. It needs `HealthyInv`: no request
  is on a path of the fallback, and of a batch that a request is about to insert nothing is in the database yet,
  neither an event nor an incident, nor has another request found one of its events. So the insert cannot meet
  a row of its own and be rolled back, which `_persist_add_many` would hide from its caller.
* **Agent registry.** `NeverOvercounts` already speaks of all three places where a count can be; what is added,
  `RowsAreNamed`, is that a row, and a count on its way to memory, belongs to an agent its tenant has named, so
  that nothing reaches the record of an id of one tenant from another. The exact count is stated for a `Quiet`
  registry (one thread, a database that answers, no restart), which is a premise of the theorem, and needs that
  table, memory and the request under way agree (`ExactInv`).
* **Sensor agent.** `RetainedOK` (what was retained is an ordered part of the file's lines), `ResendOK` (every
  line before the current one was accepted or retained, and what was retained is older than what is to come),
  `QueueOK` (the file holds older batches than the one in hand, and torn lines only while a retry may meet
  them), `InHandOK` and `RepeatsAreUnsure` (a batch still to be sent that the server has already is one the
  agent could not know about). For `StoresAndForwards` one more: what is retained comes from the file
  (`FromFile`), so that rewriting it brings back nothing that was let go.
* **Windows agent.** The lists of a flush are empty outside it, and a flush without a failure so far has put
  no line back. `StoresAndForwards` needs `KeptTwice`: every line a flush will write back is in the buffer already,
  which is why a kill at that moment takes nothing from what the agent holds.

* **Session.** The four properties together are inductive. `ShownIsOwner` speaks of ready pages only because no
  step but a successful `/auth/me` makes a page of the application ready, and a login whose answer comes late finds
  a login page; `SignedOutMeansOut` needs that the shared storage is emptied by every write to a session and is read by
  a page's first step only.
* **Live feed.** `Alone`: while signed in, a poll in flight has raised the flag and is the only one. `AskedAfter`:
  whatever number a question, the socket or the page goes on from, all items up to it were applied. Both are
  about what `EnsurePolling` does with the state its caller leaves, which is the lemma `EnsureInv`.
* **Workbench.** `DrawnAtRest` is about the table of handlers and the overlaps `PageViews` allows. `PageCovered`,
  proved page by page, says that every handler, in the segment that assigns what a panel reads or in a later one,
  draws that panel, and that an init draws every panel at its end. So a panel that does not show the present state
  is `Due`: a waiting handler has still to draw it (`RestInv`); when none waits, none is due. Three panels
  of the dashboard, which its init leaves to the first refresh (`Exempt`), are left out, as in `AtRestDrawn`.
  `SelectionKept` needs no invariant of the data: `InitWaits` (every init of the page table waits before it
  draws), so `OpenedIsNotBound` (a page just opened is not `Bound`), so a step into a `Bound` page is a step of that
  page; each of those leaves the selection alone, draws (`DrawKeepsSelection`), or is a click.

* **Workbench, the data.** `DataInv` joins `FreshInv` (only panels of the page are drawn), `DashboardInv` and
  `LedgerInv` (the types of both pages' objects, `OnePicture`, `MapIsGraph`, `DetailIsListed`). Inductive it is only with
  `RestInv`, and with `LoadsAreSent`: a handler that waits for a load has asked for a moment not after the present
  one. It is preserved because a load assigns everything it answers at once (`LoadDoneFacts`), and because each
  handler's segments write and draw within the page (`AllWithin`, from the table page by page).
  The rest is about lists of any length: the total risk is a natural number and the score lies between 0 and 100
  (`RiskScoreRange`), the cases of one priority are a part of the active ones (`UrgentIsPart`), four cases make at most
  four links and eight nodes, each link between nodes that are shown (`TopologyIsGraph`), and among the events that
  pass a filter one comes first (`ForemostExists`), so that the choice of the foremost is an event that is listed.
  These need induction over the length of a list. The library's theorems on induction take the formula as a
  parameter, which the provers cannot instantiate; `Induction` says the same of a set of numbers, from the fact
  that such a set has a least member (`LeastNumber`), and each lemma applies it to the set of lengths for which
  its claim holds.

Only model-checked: the four liveness properties (`EveryRequestAnswered`, `QueueDrains`, `PagesSettle`,
`PublishedIsSignalled`), which need fairness and `ENABLED`, out of this prover's reach. Every other property of a run
that passes is a theorem.

## 7. Disagreements between code and documents

Shown by a run:

1. **A status update in an outage blocks the lists for good** (`event_store.py:151`).
   `update_incident_status` holds `_lock` and calls `get_incident`, which without a database ends in
   `list_events` and takes the same `Lock`. `docs/DEPLOYMENT_GUIDE.md:18` says the backend "remains
   available when PostgreSQL is down". Run `event_store_outage`.
2. **A listing can take back a sensor's count** (`agent_registry_service.py:123`), although the database
   answered every call. Docstring at `agent_registry_service.py:12`. Run `agent_registry_overlap`.
3. **Nothing that is published reaches a page** (`app.js:5905`, `:5945`). The page asks `/ndr/realtime/feed`, which no
   route serves; `/ws/events` (`main.py:128`) sends "connected" and "heartbeat", which the page leaves aside, and an
   open socket stops the polling; nobody on a page reads the bus. `event_bus.py:12` promises "a recent live
   signal", the checklist of 2026-05-08 (line 180) a live feed by socket or polling. Run `live_feed_backend`.

Met while reading, and visible in the models' actions:

* `create_incident_from_event` opens an incident on a benign event (`event_store.py:116`);
  `docs/DATABASE_SCHEMA.md:9` has incidents "derived only from attack events".
* One failed heartbeat ends the thin agent's continuous mode (`agent/transferids_agent.py:197`), which
  `agent/README.md:59` says repeats.
* A failed flush doubles the Windows agent's buffer (`sender.py:69` and `:50`): `send_payload` has put back already
  what `flush_buffer` puts back.
* The role is "user" after every page load, whatever it was at login, because `/auth/me` has `roles` and no `role`
  (`app.js:1391`); what the settings page shows to administrators only is never shown.
* A network failure during `/auth/me` signs the user out (`app.js:1395`), as an invalid token does.
* A registration whose answer is lost is reported as failed though the account exists; the login after a
  registration uses what the fields hold by then.
* `socket.code` (`app.js:5960`) is a field sockets do not have; the close code 1008 is never noticed.
* A poll's answer may set `lastSeq` back behind a push: items are applied twice.
* After a failed dashboard load the tiles and the score's drivers stay while the cases are cleared. The note
  "verified attacks" falls back to all events when none is confirmed (`app.js:3270`).
* Overlapping window toggles may leave the data of one window under the button of another.
* Three panels of the dashboard (sensors, activity stream, ingestion flow) are drawn by the feed's refresh only.
* A source that comes first without coordinates stays off the map, though a later case of it has them
  (`app.js:3082`).
* Every event carries the incident id made of its own, so all count as linked; a status press on a benign event
  patches an incident that does not exist, and the 404 is swallowed (`app.js:6405`).
* A failed refresh empties the incidents page's list.
* The response page notes "submitted" in its trail before it looks at whether the feedback was taken
  (`app.js:8396`).

## 8. What is not modelled

* *Markup, wording, localization, exports* of the frontend; the choice of the API base (`app.js` 5-85); canvas
  drawing. A panel is which fields it reads.
* *Code no page reaches*: `loadIncidentsFromApi`, `renderIncidentQueue`, `bindIncidentFilters`,
  `renderAlignmentRows`, `renderMethodMapping`; the administrator's sensor and agent controls, and
  `bootstrapAutomaticDetection`, which ends at once, because the stored role is always "user".
* *The values behind the response, insights, reports, learning, settings and intake pages*: their handlers and panels are
  in `PageTables`; what the fields hold is copied from answers and not followed.
* *The classifier, its features and SHAP*: numeric, a function of the input. The verdict is the constant set
  `Attack`. The stages before `add_many` keep no state.
* *The composition `add_many`, `observations`, `publish`* of one intake request: each is modelled by itself, and
  nothing in the repository relates a sensor's count to the rows of the tables.
* *The decision threshold* that `settings_routes` sets in memory, and the bootstrap administrator.
* *The deque of the event bus*: `/ws/soc`, which reads it, is opened by no client of the repository.
* *The read-only routes* (metrics, reports, platform, integrations): they format what the stores
  answer. `summary` reads events, reviews and jobs one after the other, so its counts need not belong together.
* *Stale copies in memory.* In an outage incidents are shown with the status memory has, which a successful
  database update never touched. The model contains both copies; no document relates them, so no property does.
* *Migrations, start-up scripts, packaging*: I/O without state of its own. The constraints the models rely on
  (unique event, incident and job ids, unique tenant and agent id, unique username) come from `backend/app/models`.
* *Two runs of an agent at once* on one queue file.

## 9. Where it could go on

1. The intake request as a composition of `EventLedger`, the registry's counter and the bus.
2. The database gate by itself, with its flag, its five seconds and the bootstrap users.
3. Abstract specifications of the registry's counter and of a tab's session, and proofs that
   `AgentRegistry` and `Session` implement them.

## 10. Running it

    tlc -workers 2 -config MCEventStore.cfg MCEventStore
    tlapm EventStoreProofs.tla

Each run of `PROJECT.json` names its module and configuration; the runs marked `violation` end with a
counterexample, which is what they show. On two cores the largest run takes between one and two minutes and the
proofs about two minutes together.
