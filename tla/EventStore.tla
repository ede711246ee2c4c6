------------------------------ MODULE EventStore ------------------------------
(***************************************************************************)
(* backend/app/services/event_store.py with backend/app/database.py: the   *)
(* lists in process memory, the tables of the database, and the requests   *)
(* that work on both.  A request runs on a worker thread; every database   *)
(* call and every critical section of EventStore._lock is one step, and    *)
(* other threads run between two steps.                                    *)
(*                                                                         *)
(* A thread that arrives at `with self._lock` takes the lock, runs a body  *)
(* that blocks on nothing, and releases it: one step, guarded by the lock  *)
(* being free.  update_incident_status alone calls back into the store     *)
(* while it holds the lock, so there the lock has an owner.                *)
(***************************************************************************)
EXTENDS EventDomain

CONSTANTS
  Threads,     \* worker threads of the process
  Nobody,      \* owner of a free lock, and every unused field of a request
  Targets,     \* pairs of event and tenant that requests on incidents name
  Reviewed,    \* pairs of event and tenant that reviews and notes name
  DbOutcomes,  \* {TRUE}: the database always answers; {FALSE}: it is down; BOOLEAN: either
  Restarts     \* may the process die and start again?

ASSUME StoreAssumption ==
  /\ Nobody \notin Threads
  /\ Targets \subseteq ReviewRecord
  /\ Reviewed \subseteq ReviewRecord
  /\ DbOutcomes \in (SUBSET BOOLEAN) \ {{}}
  /\ Restarts \in BOOLEAN

VARIABLES
  mem,          \* EventStore._events: status per event held, Absent when not held
  memJobs,      \* EventStore._ingestion_jobs
  memReviews,   \* EventStore._reviews
  lock,         \* owner of EventStore._lock
  dbEvents,     \* table events
  dbIncidents,  \* table incidents
  dbJobs,       \* table ingestion_jobs
  dbReviews,    \* table reviews
  doomedIncidents, doomedJobs, doomedReviews,
                \* rows that each thread's open transaction has deleted
  drawn,        \* job ids already drawn from uuid4
  pc,           \* where each thread's request stands
  req           \* what each thread's request is about

memory == <<mem, memJobs, memReviews>>
tables == <<dbEvents, dbIncidents, dbJobs, dbReviews>>
doomed == <<doomedIncidents, doomedJobs, doomedReviews>>
vars == <<mem, memJobs, memReviews, lock, dbEvents, dbIncidents, dbJobs, dbReviews,
          doomedIncidents, doomedJobs, doomedReviews, drawn, pc, req>>

Ledger == INSTANCE EventLedger
            WITH events <- dbEvents, incidents <- dbIncidents,
                 jobs <- dbJobs, reviews <- dbReviews

Purposes == {"read", "create", "reply", "update", "note", "clear", "review", "add"}

Steps == {"idle", "add_db", "event_db", "event_mem", "incident_db",
          "incident_event_db", "incident_mem", "persist_incident",
          "update_db", "update_mem", "review_mem", "review_db",
          "clear_db", "clear_jobs", "clear_events", "clear_mem"}

Request == [for : Purposes, job : Jobs \cup {Nobody}, event : Events \cup {Nobody},
            tenant : Tenants \cup {Nobody}, status : Statuses \cup {Nobody}]

NoRequest == [for |-> "read", job |-> Nobody, event |-> Nobody,
              tenant |-> Nobody, status |-> Nobody]

AddRequest(j) == [NoRequest EXCEPT !.for = "add", !.job = j]

ClearRequest(tn) == [NoRequest EXCEPT !.for = "clear", !.tenant = tn]

\* A request about one event, or about its incident, made in the name of a tenant.
About(purpose, e, tn) ==
  [NoRequest EXCEPT !.for = purpose, !.event = e, !.tenant = tn]

TriageRequest(e, tn, s) == [About("update", e, tn) EXCEPT !.status = s]

NothingDoomed == [t \in Threads |-> {}]

Init ==
  /\ mem = NoIncidents /\ memJobs = {} /\ memReviews = {}
  /\ lock = Nobody
  /\ dbEvents = {} /\ dbIncidents = NoIncidents /\ dbJobs = {} /\ dbReviews = {}
  /\ doomedIncidents = NothingDoomed /\ doomedJobs = NothingDoomed
  /\ doomedReviews = NothingDoomed
  /\ drawn = {}
  /\ pc = [t \in Threads |-> "idle"]
  /\ req = [t \in Threads |-> NoRequest]

-----------------------------------------------------------------------------
(* One call of the store on the database, committed (ok) or given up.  The *)
(* code turns "believed unavailable", an error of the driver and a         *)
(* rollback into the same None, so a call that fails has one outcome.      *)
(* A transaction of one statement is one step.  The delete has four, and   *)
(* at the isolation level of the engine (read committed) each sees the     *)
(* rows committed so far; a row it has deleted is locked until it ends, so *)
(* another writer of that row waits.                                       *)

DbCall(ok) == ok \in DbOutcomes

Locked(e) == \E u \in Threads : e \in doomedIncidents[u]

Goto(t, step) == pc' = [pc EXCEPT ![t] = step]

Begin(t, step, request) ==
  /\ pc[t] = "idle"
  /\ Goto(t, step)
  /\ req' = [req EXCEPT ![t] = request]

Return(t) ==
  /\ Goto(t, "idle")
  /\ req' = [req EXCEPT ![t] = NoRequest]

-----------------------------------------------------------------------------
(* add_many: the intake routes hand over one batch.                        *)

AddMemory(t, j) ==
  /\ j \notin drawn
  /\ lock = Nobody
  /\ Begin(t, "add_db", AddRequest(j))
  /\ drawn' = drawn \cup {j}
  /\ mem' = [e \in Events |-> IF e \in Rows(j) THEN New ELSE mem[e]]
  /\ memJobs' = memJobs \cup {j}
  /\ UNCHANGED <<memReviews, lock, tables, doomed>>

\* Mutant: the events are committed before the incidents are inserted.
PersistAddManyTorn(t) ==
  LET j == req[t].job IN
  /\ pc[t] = "add_db"
  /\ \E ok \in BOOLEAN :
       /\ DbCall(ok)
       /\ dbEvents' = IF ok THEN dbEvents \cup Rows(j) ELSE dbEvents
       /\ IF ok /\ Opened(dbIncidents) \cap Rows(j) \cap Attack = {}
          THEN /\ dbIncidents' = WithBatch(dbIncidents, j)
               /\ dbJobs' = dbJobs \cup {j}
          ELSE UNCHANGED <<dbIncidents, dbJobs>>
  /\ Return(t)
  /\ UNCHANGED <<memory, lock, dbReviews, doomed, drawn>>

\* One transaction; the unique incident_id makes it fail as a whole when one of
\* the incidents is there already.  Either way the request is answered "accepted".
PersistAddMany(t) ==
  LET j == req[t].job IN
  /\ pc[t] = "add_db"
  /\ \E ok \in BOOLEAN :
       /\ DbCall(ok)
       /\ ok => \A e \in Rows(j) \cap Attack : ~Locked(e)
       /\ IF ok /\ Opened(dbIncidents) \cap Rows(j) \cap Attack = {}
          THEN /\ dbEvents' = dbEvents \cup Rows(j)
               /\ dbIncidents' = WithBatch(dbIncidents, j)
               /\ dbJobs' = dbJobs \cup {j}
          ELSE UNCHANGED <<dbEvents, dbIncidents, dbJobs>>
  /\ Return(t)
  /\ UNCHANGED <<memory, lock, dbReviews, doomed, drawn>>

-----------------------------------------------------------------------------
(* get_event and get_incident, on their own or inside another operation.   *)

Get(t, e, tn) ==
  /\ \/ Begin(t, "event_db", About("read", e, tn))
     \/ Begin(t, "incident_db", About("read", e, tn))
  /\ UNCHANGED <<memory, lock, tables, doomed, drawn>>

\* Mutant: create_incident_from_event does not look whether the event exists.
GotEventUnchecked(t, found) ==
  IF req[t].for = "create"
  THEN Goto(t, "incident_db") /\ UNCHANGED req
  ELSE Return(t)

GotEvent(t, found) ==
  IF req[t].for = "create" /\ found
  THEN Goto(t, "incident_db") /\ UNCHANGED req
  ELSE Return(t)

\* Mutant: an event missing from the database is looked for in memory.
GetEventDbOrMem(t) ==
  LET r == req[t] IN
  /\ pc[t] = "event_db"
  /\ \E ok \in BOOLEAN :
       /\ DbCall(ok)
       /\ IF ok /\ r.event \in dbEvents THEN GotEvent(t, Owner(r.event) = r.tenant)
          ELSE Goto(t, "event_mem") /\ UNCHANGED req
  /\ UNCHANGED <<memory, lock, tables, doomed, drawn>>

GetEventDb(t) ==
  LET r == req[t] IN
  /\ pc[t] = "event_db"
  /\ \E ok \in BOOLEAN :
       /\ DbCall(ok)
       /\ IF ok THEN GotEvent(t, r.event \in dbEvents /\ Owner(r.event) = r.tenant)
                ELSE Goto(t, "event_mem") /\ UNCHANGED req
  /\ UNCHANGED <<memory, lock, tables, doomed, drawn>>

\* Mutant: the memory fallback forgets the tenant filter.
GetEventMemAnyTenant(t) ==
  /\ pc[t] = "event_mem"
  /\ lock = Nobody
  /\ GotEvent(t, mem[req[t].event] # Absent)
  /\ UNCHANGED <<memory, lock, tables, doomed, drawn>>

GetEventMem(t) ==
  LET r == req[t] IN
  /\ pc[t] = "event_mem"
  /\ lock = Nobody
  /\ GotEvent(t, mem[r.event] # Absent /\ Owner(r.event) = r.tenant)
  /\ UNCHANGED <<memory, lock, tables, doomed, drawn>>

\* Mutant: the lock is not released when the nested look-up returns.
GotIncidentKeepsLock(t, found) ==
  /\ CASE req[t].for = "create" /\ ~found -> Goto(t, "persist_incident") /\ UNCHANGED req
       [] req[t].for = "note" /\ found -> Goto(t, "review_mem") /\ UNCHANGED req
       [] OTHER -> Return(t)
  /\ UNCHANGED lock

GotIncident(t, found) ==
  /\ CASE req[t].for = "create" /\ ~found -> Goto(t, "persist_incident") /\ UNCHANGED req
       [] req[t].for = "note" /\ found -> Goto(t, "review_mem") /\ UNCHANGED req
       [] OTHER -> Return(t)
  /\ lock' = IF lock = t THEN Nobody ELSE lock

GetIncidentDb(t) ==
  LET r == req[t] IN
  /\ pc[t] = "incident_db"
  /\ \E ok \in BOOLEAN :
       /\ DbCall(ok)
       /\ IF ok
          THEN GotIncident(t, dbIncidents[r.event] # Absent /\ Owner(r.event) = r.tenant)
          ELSE Goto(t, "incident_event_db") /\ UNCHANGED <<req, lock>>
  /\ UNCHANGED <<memory, tables, doomed, drawn>>

\* incidents() goes on with list_events(), which asks the database first.
GetIncidentEventDb(t) ==
  LET r == req[t] IN
  /\ pc[t] = "incident_event_db"
  /\ \E ok \in BOOLEAN :
       /\ DbCall(ok)
       /\ IF ok
          THEN GotIncident(t, r.event \in dbEvents \cap Attack /\ Owner(r.event) = r.tenant)
          ELSE Goto(t, "incident_mem") /\ UNCHANGED <<req, lock>>
  /\ UNCHANGED <<memory, tables, doomed, drawn>>

\* The lock is not reentrant: a thread that holds it waits here for ever.
GetIncidentMem(t) ==
  LET r == req[t] IN
  /\ pc[t] = "incident_mem"
  /\ lock = Nobody
  /\ GotIncident(t, r.event \in Attack /\ mem[r.event] # Absent /\ Owner(r.event) = r.tenant)
  /\ UNCHANGED <<memory, tables, doomed, drawn>>

-----------------------------------------------------------------------------
(* create_incident_from_event: look, look again, insert, look once more.   *)

CreateIncident(t, e, tn) ==
  /\ Begin(t, "event_db", About("create", e, tn))
  /\ UNCHANGED <<memory, lock, tables, doomed, drawn>>

\* Mutant: the row takes its status from the request, which has none.
PersistIncidentNoStatus(t) ==
  LET e == req[t].event IN
  /\ pc[t] = "persist_incident"
  /\ \E ok \in BOOLEAN :
       /\ DbCall(ok)
       /\ dbIncidents' = IF ok /\ dbIncidents[e] = Absent
                         THEN [dbIncidents EXCEPT ![e] = req[t].status] ELSE dbIncidents
  /\ Goto(t, "incident_db")
  /\ req' = [req EXCEPT ![t] = About("reply", e, @.tenant)]
  /\ UNCHANGED <<memory, lock, dbEvents, dbJobs, dbReviews, doomed, drawn>>

\* Mutant: an upsert in place of the insert.
PersistIncidentUpsert(t) ==
  LET e == req[t].event IN
  /\ pc[t] = "persist_incident"
  /\ \E ok \in BOOLEAN :
       /\ DbCall(ok)
       /\ dbIncidents' = IF ok THEN [dbIncidents EXCEPT ![e] = New] ELSE dbIncidents
  /\ Goto(t, "incident_db")
  /\ req' = [req EXCEPT ![t] = About("reply", e, @.tenant)]
  /\ UNCHANGED <<memory, lock, dbEvents, dbJobs, dbReviews, doomed, drawn>>

\* The row is built from what was read before; the unique id rejects a second one.
PersistIncident(t) ==
  LET e == req[t].event IN
  /\ pc[t] = "persist_incident"
  /\ \E ok \in BOOLEAN :
       /\ DbCall(ok)
       /\ ok => ~Locked(e)
       /\ dbIncidents' = IF ok /\ dbIncidents[e] = Absent
                         THEN [dbIncidents EXCEPT ![e] = New] ELSE dbIncidents
  /\ Goto(t, "incident_db")
  /\ req' = [req EXCEPT ![t] = About("reply", e, @.tenant)]
  /\ UNCHANGED <<memory, lock, dbEvents, dbJobs, dbReviews, doomed, drawn>>

-----------------------------------------------------------------------------
(* update_incident_status, for one of the allowed statuses.                *)

UpdateStatus(t, e, tn, s) ==
  /\ Begin(t, "update_db", TriageRequest(e, tn, s))
  /\ UNCHANGED <<memory, lock, tables, doomed, drawn>>

\* The row is read back after the commit: when that fails the update is done, and
\* the code goes on as if it were not.
UpdateDb(t) ==
  LET r == req[t] IN
  /\ pc[t] = "update_db"
  /\ \E ok, told \in BOOLEAN :
       /\ DbCall(ok) /\ DbCall(told)
       /\ ok => ~Locked(r.event)
       /\ IF ok /\ dbIncidents[r.event] # Absent /\ Owner(r.event) = r.tenant
          THEN /\ dbIncidents' = [dbIncidents EXCEPT ![r.event] = r.status]
               /\ IF told THEN Return(t) ELSE Goto(t, "update_mem") /\ UNCHANGED req
          ELSE /\ UNCHANGED <<dbIncidents, req>>
               /\ Goto(t, "update_mem")
  /\ UNCHANGED <<memory, lock, dbEvents, dbJobs, dbReviews, doomed, drawn>>

\* Sets the status on the event in memory, attack or not, and looks the incident
\* up with the lock still held.
UpdateMem(t) ==
  LET r == req[t] IN
  /\ pc[t] = "update_mem"
  /\ lock = Nobody
  /\ IF mem[r.event] # Absent /\ Owner(r.event) = r.tenant
     THEN /\ mem' = [mem EXCEPT ![r.event] = r.status]
          /\ lock' = t
          /\ Goto(t, "incident_db")
          /\ UNCHANGED req
     ELSE /\ UNCHANGED <<mem, lock>>
          /\ Return(t)
  /\ UNCHANGED <<memJobs, memReviews, tables, doomed, drawn>>

-----------------------------------------------------------------------------
(* add_review, straight from the review route or for a note on an incident *)
(* that is looked up first.                                                *)

SubmitReview(t, e, tn) ==
  /\ Begin(t, "review_mem", About("review", e, tn))
  /\ UNCHANGED <<memory, lock, tables, doomed, drawn>>

AddNote(t, e, tn) ==
  /\ Begin(t, "incident_db", About("note", e, tn))
  /\ UNCHANGED <<memory, lock, tables, doomed, drawn>>

ReviewOf(t) == [event |-> req[t].event, tenant |-> req[t].tenant]

ReviewMem(t) ==
  /\ pc[t] = "review_mem"
  /\ lock = Nobody
  /\ memReviews' = memReviews \cup {ReviewOf(t)}
  /\ Goto(t, "review_db")
  /\ UNCHANGED <<mem, memJobs, lock, tables, doomed, drawn, req>>

\* The new row is not one of those a clear under way has deleted.
PersistReview(t) ==
  /\ pc[t] = "review_db"
  /\ \E ok \in BOOLEAN :
       /\ DbCall(ok)
       /\ IF ok
          THEN /\ dbReviews' = dbReviews \cup {ReviewOf(t)}
               /\ doomedReviews' = [u \in Threads |-> doomedReviews[u] \ {ReviewOf(t)}]
          ELSE UNCHANGED <<dbReviews, doomedReviews>>
  /\ Return(t)
  /\ UNCHANGED <<memory, lock, dbEvents, dbIncidents, dbJobs, doomedIncidents, doomedJobs, drawn>>

-----------------------------------------------------------------------------
(* clear: the tables of one tenant first, then the lists.                  *)

ClearStore(t, tn) ==
  /\ Begin(t, "clear_db", ClearRequest(tn))
  /\ UNCHANGED <<memory, lock, tables, doomed, drawn>>

EndDelete(t) ==
  /\ doomedIncidents' = [doomedIncidents EXCEPT ![t] = {}]
  /\ doomedJobs' = [doomedJobs EXCEPT ![t] = {}]
  /\ doomedReviews' = [doomedReviews EXCEPT ![t] = {}]

\* Deletes from reviews and from incidents.
ClearIncidents(t) ==
  LET tn == req[t].tenant
      mine == {e \in Opened(dbIncidents) : Owner(e) = tn} IN
  /\ pc[t] = "clear_db"
  /\ \E ok \in BOOLEAN :
       /\ DbCall(ok)
       /\ ok => \A e \in mine : ~Locked(e)
       /\ IF ok
          THEN /\ doomedIncidents' = [doomedIncidents EXCEPT ![t] = mine]
               /\ doomedReviews' = [doomedReviews EXCEPT ![t] = {r \in dbReviews : r.tenant = tn}]
               /\ Goto(t, "clear_jobs")
          ELSE /\ UNCHANGED <<doomedIncidents, doomedReviews>>
               /\ Goto(t, "clear_mem")
  /\ UNCHANGED <<memory, lock, tables, doomedJobs, drawn, req>>

\* Deletes from ingestion_jobs; a failure takes back what was deleted before.
ClearJobs(t) ==
  LET mine == {j \in dbJobs : TenantOf[j] = req[t].tenant} IN
  /\ pc[t] = "clear_jobs"
  /\ \E ok \in BOOLEAN :
       /\ DbCall(ok)
       /\ ok => \A u \in Threads : doomedJobs[u] \cap mine = {}
       /\ IF ok
          THEN /\ doomedJobs' = [doomedJobs EXCEPT ![t] = mine]
               /\ UNCHANGED <<doomedIncidents, doomedReviews>>
               /\ Goto(t, "clear_events")
          ELSE /\ EndDelete(t)
               /\ Goto(t, "clear_mem")
  /\ UNCHANGED <<memory, lock, tables, drawn, req>>

\* Mutant: the events to delete are found through the jobs, and the incidents are
\* deleted last.
ClearEventsOfJobs(t) ==
  LET tn == req[t].tenant IN
  /\ pc[t] = "clear_events"
  /\ \E ok \in BOOLEAN :
       /\ DbCall(ok)
       /\ IF ok
          THEN /\ dbEvents' = {e \in dbEvents : JobOf[e] \notin doomedJobs[t]}
               /\ dbIncidents' = WithoutTenant(dbIncidents, tn)
               /\ dbJobs' = dbJobs \ doomedJobs[t]
               /\ dbReviews' = dbReviews \ doomedReviews[t]
          ELSE UNCHANGED tables
  /\ EndDelete(t)
  /\ Goto(t, "clear_mem")
  /\ UNCHANGED <<memory, lock, drawn, req>>

\* Deletes from events, and commits.
ClearEvents(t) ==
  LET tn == req[t].tenant IN
  /\ pc[t] = "clear_events"
  /\ \E ok \in BOOLEAN :
       /\ DbCall(ok)
       /\ IF ok
          THEN /\ dbEvents' = {e \in dbEvents : Owner(e) # tn}
               /\ dbIncidents' = WithoutIncidents(dbIncidents, doomedIncidents[t])
               /\ dbJobs' = dbJobs \ doomedJobs[t]
               /\ dbReviews' = dbReviews \ doomedReviews[t]
          ELSE UNCHANGED tables
  /\ EndDelete(t)
  /\ Goto(t, "clear_mem")
  /\ UNCHANGED <<memory, lock, drawn, req>>

ClearMem(t) ==
  LET tn == req[t].tenant IN
  /\ pc[t] = "clear_mem"
  /\ lock = Nobody
  /\ mem' = WithoutTenant(mem, tn)
  /\ memJobs' = {j \in memJobs : TenantOf[j] # tn}
  /\ memReviews' = {r \in memReviews : r.tenant # tn}
  /\ Return(t)
  /\ UNCHANGED <<lock, tables, doomed, drawn>>

-----------------------------------------------------------------------------
(* The environment.                                                        *)

\* The process dies and starts again: the lists are empty, the tables are not, and
\* an open transaction is rolled back.
Restart ==
  /\ Restarts
  /\ mem' = NoIncidents /\ memJobs' = {} /\ memReviews' = {}
  /\ lock' = Nobody
  /\ pc' = [t \in Threads |-> "idle"]
  /\ req' = [t \in Threads |-> NoRequest]
  /\ doomedIncidents' = NothingDoomed /\ doomedJobs' = NothingDoomed
  /\ doomedReviews' = NothingDoomed
  /\ UNCHANGED <<tables, drawn>>

Arrive(t) ==
  \/ \E j \in Jobs : AddMemory(t, j)
  \/ \E x \in Targets :
       \/ Get(t, x.event, x.tenant)
       \/ CreateIncident(t, x.event, x.tenant)
       \/ \E s \in Statuses : UpdateStatus(t, x.event, x.tenant, s)
  \/ \E x \in Reviewed :
       SubmitReview(t, x.event, x.tenant) \/ AddNote(t, x.event, x.tenant)
  \/ \E tn \in Tenants : ClearStore(t, tn)

Step(t) ==
  \/ PersistAddMany(t)
  \/ GetEventDb(t) \/ GetEventMem(t)
  \/ GetIncidentDb(t) \/ GetIncidentEventDb(t) \/ GetIncidentMem(t)
  \/ PersistIncident(t)
  \/ UpdateDb(t) \/ UpdateMem(t)
  \/ ReviewMem(t) \/ PersistReview(t)
  \/ ClearIncidents(t) \/ ClearJobs(t) \/ ClearEvents(t) \/ ClearMem(t)

Next ==
  \/ \E t \in Threads : Arrive(t) \/ Step(t)
  \/ Restart

Spec == Init /\ [][Next]_vars

\* A thread that can run does, and a lock released again and again is got at
\* last: the operating system schedules the workers, the semaphore wakes a waiter.
Fairness == \A t \in Threads : SF_vars(Step(t))

FairSpec == Spec /\ Fairness
-----------------------------------------------------------------------------
(* Properties.                                                             *)

\* Every variable keeps to its domain: no table holds a row without a status, no
\* thread stands at a step the code does not have.
TypeOK ==
  /\ mem \in IncidentTable /\ memJobs \subseteq Jobs /\ memReviews \subseteq ReviewRecord
  /\ lock \in Threads \cup {Nobody}
  /\ dbEvents \subseteq Events /\ dbIncidents \in IncidentTable
  /\ dbJobs \subseteq Jobs /\ dbReviews \subseteq ReviewRecord
  /\ doomedIncidents \in [Threads -> SUBSET Events]
  /\ doomedJobs \in [Threads -> SUBSET Jobs]
  /\ doomedReviews \in [Threads -> SUBSET ReviewRecord]
  /\ drawn \subseteq Jobs
  /\ pc \in [Threads -> Steps]
  /\ req \in [Threads -> Request]

Clearing == {"clear_db", "clear_jobs", "clear_events", "clear_mem"}

\* What the request of a thread carries at the step it stands at.
Carries(t) ==
  /\ pc[t] = "add_db" => req[t].for = "add" /\ req[t].job \in drawn \ dbJobs
  /\ pc[t] \in Clearing => req[t].tenant \in Tenants
  /\ pc[t] \notin Clearing \cup {"idle", "add_db"} =>
       req[t].event \in Events /\ req[t].tenant \in Tenants
  /\ pc[t] \in {"update_db", "update_mem"} =>
       req[t].for = "update" /\ req[t].status \in Statuses
  /\ pc[t] = "persist_incident" => req[t].for = "create"
  /\ pc[t] \notin {"idle", "event_db", "event_mem"} /\ req[t].for = "create" =>
       Owner(req[t].event) = req[t].tenant /\ JobOf[req[t].event] \in drawn

\* Between two steps a request keeps what it read: the event it found was handed in
\* by some batch and belongs to its tenant.  No batch is persisted twice.
Remembers ==
  /\ \A t \in Threads : Carries(t)
  /\ \A t, u \in Threads :
       t # u /\ pc[t] = "add_db" /\ pc[u] = "add_db" => req[t].job # req[u].job

\* An open transaction has deleted rows of the tenant it clears, and nothing else.
Deletes(t) ==
  /\ \A e \in doomedIncidents[t] : Owner(e) = req[t].tenant
  /\ \A j \in doomedJobs[t] : TenantOf[j] = req[t].tenant
  /\ \A r \in doomedReviews[t] : r.tenant = req[t].tenant
  /\ pc[t] \notin {"clear_jobs", "clear_events"} =>
       doomedIncidents[t] = {} /\ doomedJobs[t] = {} /\ doomedReviews[t] = {}

InFlight == Remembers /\ \A t \in Threads : Deletes(t)

\* No event sits in the database without its job and the rest of its batch,
\* whatever fails half-way and whoever clears meanwhile (_persist_add_many, the
\* order of the deletes in _db_clear).
BatchIsWhole ==
  \A e \in dbEvents : JobOf[e] \in dbJobs /\ Rows(JobOf[e]) \subseteq dbEvents

\* No attack sits in the database without an incident to triage, even when an
\* analyst opened or another request cleared incidents at the same time.
AttackHasIncident == dbEvents \cap Attack \subseteq Opened(dbIncidents)

\* "No sample, synthetic, or inferred-without-model rows are ever created here"
\* (event_store.py:13): a row, in memory or in a table, belongs to a batch that
\* some intake request handed over, through every fallback and look-up.
NoInventedRows ==
  /\ dbJobs \subseteq drawn
  /\ \A e \in Events :
       mem[e] # Absent \/ e \in dbEvents \/ dbIncidents[e] # Absent => JobOf[e] \in drawn

\* The lock outlives a step only inside update_incident_status: any other owner
\* would keep every request on the lists out for ever.
LockIsForUpdate ==
  lock # Nobody =>
    /\ pc[lock] \in {"incident_db", "incident_event_db", "incident_mem"}
    /\ req[lock].for = "update"

\* The status of an open incident changes only to what an analyst asked for: no
\* late insert of a batch or of a second look-and-insert takes it back to New.
TriageIsNeverUndone ==
  [][\A e \in Opened(dbIncidents) :
       dbIncidents'[e] \notin {dbIncidents[e], Absent} =>
         \E t \in Threads : /\ req[t].for = "update"
                            /\ req[t].event = e
                            /\ req[t].status = dbIncidents'[e]]_vars

\* The rows of a tenant change only while a request of that tenant is under way:
\* the filter applied in one step still protects the write several steps later.
TenantIsolation ==
  [][\A e \in Events :
       dbIncidents'[e] # dbIncidents[e] \/ ~(e \in dbEvents <=> e \in dbEvents') =>
         \E t \in Threads : \/ req[t].tenant = Owner(e)
                            \/ req[t].for = "add" /\ req[t].job = JobOf[e]]_vars

\* The tables change only by the whole transactions of EventLedger.
LedgerSpec == Ledger!Spec

\* While the database answers, a batch answered "accepted" is in it: the silent
\* rollback of _persist_add_many is never taken.
AcceptedIsDurable ==
  [][\A t \in Threads :
       pc[t] = "add_db" /\ pc'[t] = "idle" => req[t].job \in dbJobs']_vars

\* Every request is answered.
EveryRequestAnswered ==
  \A t \in Threads : pc[t] # "idle" ~> pc[t] = "idle"
=============================================================================
