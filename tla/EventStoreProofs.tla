--------------------------- MODULE EventStoreProofs ---------------------------
(***************************************************************************)
(* Theorems about EventStore, for every set of threads, tenants, batches   *)
(* and statuses, with a database that may fail at any call and a process   *)
(* that may die at any step.                                               *)
(***************************************************************************)
EXTENDS EventStore, TLAPS

IInv ==
  /\ TypeOK
  /\ InFlight
  /\ BatchIsWhole
  /\ AttackHasIncident
  /\ NoInventedRows
  /\ LockIsForUpdate

-----------------------------------------------------------------------------
(* What the operators on incident tables return.                           *)

\* Rows persisted with a batch and rows left by a clear keep a table a table.
LEMMA TableOps ==
  ASSUME NEW table \in IncidentTable
  PROVE  /\ \A j \in Jobs : WithBatch(table, j) \in IncidentTable
         /\ \A gone : WithoutIncidents(table, gone) \in IncidentTable
         /\ \A tn \in Tenants : WithoutTenant(table, tn) \in IncidentTable
         /\ NoIncidents \in IncidentTable
BY DomainAssumption DEF WithBatch, WithoutIncidents, WithoutTenant, NoIncidents, IncidentTable

\* Exactly five steps touch the tables; every other leaves them alone.
LEMMA TableSteps ==
  Next => \/ UNCHANGED tables
          \/ \E t \in Threads : \/ PersistAddMany(t) \/ PersistIncident(t)
                                \/ UpdateDb(t) \/ PersistReview(t) \/ ClearEvents(t)
<1> SUFFICES ASSUME Next
             PROVE  \/ UNCHANGED tables
                    \/ \E t \in Threads : \/ PersistAddMany(t) \/ PersistIncident(t)
                                          \/ UpdateDb(t) \/ PersistReview(t) \/ ClearEvents(t)
  OBVIOUS
<1>1. CASE Restart
  BY <1>1 DEF Restart, NothingDoomed
<1>2. ASSUME NEW t \in Threads, Arrive(t)
      PROVE  UNCHANGED tables
  BY <1>2 DEF Arrive, AddMemory, Get, CreateIncident, UpdateStatus, SubmitReview,
              AddNote, ClearStore
<1>3. ASSUME NEW t \in Threads, Step(t)
      PROVE  \/ UNCHANGED tables
             \/ PersistAddMany(t) \/ PersistIncident(t)
             \/ UpdateDb(t) \/ PersistReview(t) \/ ClearEvents(t)
  BY <1>3 DEF Step, GetEventDb, GetEventMem, GetIncidentDb, GetIncidentEventDb,
              GetIncidentMem, UpdateMem, ReviewMem, ClearIncidents, ClearJobs, ClearMem, tables
<1> QED
  BY <1>1, <1>2, <1>3 DEF Next

-----------------------------------------------------------------------------
(* The tables.                                                             *)

LEMMA BatchIsWholeStep ==
  ASSUME TypeOK, InFlight, BatchIsWhole, [Next]_vars
  PROVE  BatchIsWhole'
<1>1. ASSUME NEW t \in Threads, PersistAddMany(t)
      PROVE  BatchIsWhole'
  BY <1>1 DEF PersistAddMany, BatchIsWhole, Rows, TypeOK
<1>2. ASSUME NEW t \in Threads, PersistIncident(t) \/ UpdateDb(t) \/ PersistReview(t)
      PROVE  BatchIsWhole'
  BY <1>2 DEF PersistIncident, UpdateDb, PersistReview, BatchIsWhole
<1>3. ASSUME NEW t \in Threads, ClearEvents(t)
      PROVE  BatchIsWhole'
  BY <1>3, DomainAssumption DEF ClearEvents, EndDelete, BatchIsWhole, InFlight, Remembers, Carries, Deletes, Clearing, Owner, Rows, TypeOK, tables
<1>4. CASE UNCHANGED tables
  BY <1>4 DEF tables, BatchIsWhole
<1>5. CASE UNCHANGED vars
  BY <1>5 DEF vars, BatchIsWhole
<1> QED
  BY <1>1, <1>2, <1>3, <1>4, <1>5, TableSteps

LEMMA AttackHasIncidentStep ==
  ASSUME TypeOK, InFlight, AttackHasIncident, [Next]_vars
  PROVE  AttackHasIncident'
<1>1. ASSUME NEW t \in Threads, PersistAddMany(t)
      PROVE  AttackHasIncident'
  <2> USE DomainAssumption DEF PersistAddMany, AttackHasIncident, Opened, WithBatch,
                               Rows, TypeOK, IncidentTable
  <2>1. CASE UNCHANGED <<dbEvents, dbIncidents>>
    BY <2>1
  <2>2. CASE /\ dbEvents' = dbEvents \cup Rows(req[t].job)
             /\ dbIncidents' = WithBatch(dbIncidents, req[t].job)
    BY <2>2
  <2> QED
    BY <1>1, <2>1, <2>2
<1>2. ASSUME NEW t \in Threads, PersistIncident(t)
      PROVE  AttackHasIncident'
  BY <1>2, DomainAssumption
     DEF PersistIncident, AttackHasIncident, Opened, TypeOK, IncidentTable
<1>3. ASSUME NEW t \in Threads, UpdateDb(t)
      PROVE  AttackHasIncident'
  BY <1>3, DomainAssumption
     DEF UpdateDb, AttackHasIncident, Opened, TypeOK, IncidentTable, InFlight, Remembers, Carries, Deletes, Clearing
<1>4. ASSUME NEW t \in Threads, PersistReview(t)
      PROVE  AttackHasIncident'
  BY <1>4 DEF PersistReview, AttackHasIncident, Opened
<1>5. ASSUME NEW t \in Threads, ClearEvents(t)
      PROVE  AttackHasIncident'
  BY <1>5, DomainAssumption
     DEF ClearEvents, EndDelete, AttackHasIncident, Opened, WithoutIncidents, TypeOK, IncidentTable,
         InFlight, Remembers, Carries, Deletes, Clearing, tables
<1>6. CASE UNCHANGED tables
  BY <1>6 DEF tables, AttackHasIncident, Opened
<1>7. CASE UNCHANGED vars
  BY <1>7 DEF vars, AttackHasIncident, Opened
<1> QED
  BY <1>1, <1>2, <1>3, <1>4, <1>5, <1>6, <1>7, TableSteps

-----------------------------------------------------------------------------
(* Threads.                                                                *)

\* What a request carries.
LEMMA RequestShape ==
  /\ NoRequest \in Request /\ NoRequest.for = "read"
  /\ \A j \in Jobs :
       AddRequest(j) \in Request /\ AddRequest(j).for = "add" /\ AddRequest(j).job = j
  /\ \A tn \in Tenants :
       /\ ClearRequest(tn) \in Request
       /\ ClearRequest(tn).for = "clear" /\ ClearRequest(tn).tenant = tn
  /\ \A p \in Purposes, e \in Events, tn \in Tenants :
       /\ About(p, e, tn) \in Request
       /\ About(p, e, tn).for = p
       /\ About(p, e, tn).event = e
       /\ About(p, e, tn).tenant = tn
  /\ \A e \in Events, tn \in Tenants, s \in Statuses :
       LET r == TriageRequest(e, tn, s) IN
       r \in Request /\ r.for = "update" /\ r.event = e /\ r.tenant = tn /\ r.status = s
<1> USE DEF Purposes, Request
<1>1. NoRequest \in Request /\ NoRequest.for = "read"
  BY DEF NoRequest
<1>2. ASSUME NEW j \in Jobs
      PROVE  AddRequest(j) \in Request /\ AddRequest(j).for = "add" /\ AddRequest(j).job = j
  BY DEF NoRequest, AddRequest
<1>3. ASSUME NEW tn \in Tenants
      PROVE  /\ ClearRequest(tn) \in Request
             /\ ClearRequest(tn).for = "clear" /\ ClearRequest(tn).tenant = tn
  BY DEF NoRequest, ClearRequest
<1>4. ASSUME NEW p \in Purposes, NEW e \in Events, NEW tn \in Tenants
      PROVE  /\ About(p, e, tn) \in Request
             /\ About(p, e, tn).for = p
             /\ About(p, e, tn).event = e
             /\ About(p, e, tn).tenant = tn
  BY DEF NoRequest, About
<1>5. ASSUME NEW e \in Events, NEW tn \in Tenants, NEW s \in Statuses
      PROVE  LET r == TriageRequest(e, tn, s) IN
             r \in Request /\ r.for = "update" /\ r.event = e /\ r.tenant = tn /\ r.status = s
  BY DEF NoRequest, About, TriageRequest
<1> QED
  BY <1>1, <1>2, <1>3, <1>4, <1>5

LEMMA StepNames ==
  /\ "idle" \in Steps /\ "add_db" \in Steps
  /\ "event_db" \in Steps /\ "event_mem" \in Steps
  /\ "incident_db" \in Steps /\ "incident_event_db" \in Steps /\ "incident_mem" \in Steps
  /\ "persist_incident" \in Steps
  /\ "update_db" \in Steps /\ "update_mem" \in Steps
  /\ "review_mem" \in Steps /\ "review_db" \in Steps
  /\ "clear_db" \in Steps /\ "clear_jobs" \in Steps /\ "clear_events" \in Steps
  /\ "clear_mem" \in Steps
BY DEF Steps

\* Types survive every step: the statuses and tenants come from requests in flight.
LEMMA TypeStep ==
  ASSUME TypeOK, InFlight, [Next]_vars
  PROVE  TypeOK'
<1> DEFINE ThreadTypes == pc \in [Threads -> Steps] /\ req \in [Threads -> Request]
           DataTypes == /\ mem \in IncidentTable /\ memJobs \subseteq Jobs
                        /\ memReviews \subseteq ReviewRecord
                        /\ lock \in Threads \cup {Nobody}
                        /\ dbEvents \subseteq Events /\ dbIncidents \in IncidentTable
                        /\ dbJobs \subseteq Jobs /\ dbReviews \subseteq ReviewRecord
                        /\ doomedIncidents \in [Threads -> SUBSET Events]
                        /\ doomedJobs \in [Threads -> SUBSET Jobs]
                        /\ doomedReviews \in [Threads -> SUBSET ReviewRecord]
                        /\ drawn \subseteq Jobs
<1>a. \A x \in Targets \cup Reviewed : x.event \in Events /\ x.tenant \in Tenants
  BY StoreAssumption DEF ReviewRecord
<1>b. pc \in [Threads -> Steps] /\ req \in [Threads -> Request]
  BY DEF TypeOK
<1>1. ASSUME NEW t \in Threads, Arrive(t)
      PROVE  ThreadTypes'
  <2> USE <1>b, RequestShape, StepNames DEF Begin, Goto, Purposes
  <2>1. ASSUME NEW j \in Jobs, AddMemory(t, j)
        PROVE  ThreadTypes'
    BY <2>1 DEF AddMemory
  <2>2. ASSUME NEW x \in Targets, Get(t, x.event, x.tenant) \/ CreateIncident(t, x.event, x.tenant)
        PROVE  ThreadTypes'
    BY <1>a, <2>2 DEF Get, CreateIncident
  <2>3. ASSUME NEW x \in Targets, NEW s \in Statuses, UpdateStatus(t, x.event, x.tenant, s)
        PROVE  ThreadTypes'
    BY <1>a, <2>3 DEF UpdateStatus
  <2>4. ASSUME NEW x \in Reviewed,
               SubmitReview(t, x.event, x.tenant) \/ AddNote(t, x.event, x.tenant)
        PROVE  ThreadTypes'
    <3>1. CASE SubmitReview(t, x.event, x.tenant)
      BY <1>a, <3>1 DEF SubmitReview
    <3>2. CASE AddNote(t, x.event, x.tenant)
      BY <1>a, <3>2 DEF AddNote
    <3> QED
      BY <2>4, <3>1, <3>2
  <2>5. ASSUME NEW tn \in Tenants, ClearStore(t, tn)
        PROVE  ThreadTypes'
    BY <2>5 DEF ClearStore
  <2> QED
    BY <1>1, <2>1, <2>2, <2>3, <2>4, <2>5 DEF Arrive
<1>2. ASSUME NEW t \in Threads, Arrive(t)
      PROVE  DataTypes'
  BY <1>2, DomainAssumption
     DEF Arrive, AddMemory, Get, CreateIncident, UpdateStatus, SubmitReview, AddNote,
         ClearStore, doomed, TypeOK, IncidentTable, memory, tables, doomed
<1>3. ASSUME NEW t \in Threads, Step(t)
      PROVE  ThreadTypes'
  <2> USE <1>b, RequestShape, StepNames DEF Return, Goto
  <2>1. CASE PersistAddMany(t) \/ PersistReview(t) \/ ClearMem(t)
    BY <2>1 DEF PersistAddMany, PersistReview, ClearMem
  <2>7. CASE UpdateDb(t) \/ UpdateMem(t)
    BY <2>7 DEF UpdateDb, UpdateMem
  <2>2. CASE GetEventDb(t) \/ GetEventMem(t)
    BY <2>2 DEF GetEventDb, GetEventMem, GotEvent
  <2>3. CASE GetIncidentDb(t)
    BY <2>3 DEF GetIncidentDb, GotIncident
  <2>4. CASE GetIncidentEventDb(t) \/ GetIncidentMem(t)
    BY <2>4 DEF GetIncidentEventDb, GetIncidentMem, GotIncident
  <2>5. CASE PersistIncident(t)
    BY <2>5 DEF PersistIncident, InFlight, Remembers, Carries, Deletes, Clearing, Purposes
  <2>6. CASE ReviewMem(t) \/ ClearIncidents(t) \/ ClearJobs(t) \/ ClearEvents(t)
    BY <2>6 DEF ReviewMem, ClearIncidents, ClearJobs, ClearEvents
  <2> QED
    BY <1>3, <2>1, <2>2, <2>3, <2>4, <2>5, <2>6, <2>7 DEF Step
<1>4. ASSUME NEW t \in Threads, Step(t)
      PROVE  DataTypes'
  <2> USE DomainAssumption DEF TypeOK, memory, tables, doomed
  <2>1. CASE PersistAddMany(t)
    BY <2>1, TableOps DEF PersistAddMany, InFlight, Remembers, Carries, Deletes, Clearing, Rows
  <2>2. CASE GetEventDb(t) \/ GetEventMem(t)
    BY <2>2 DEF GetEventDb, GetEventMem
  <2>3. CASE GetIncidentDb(t) \/ GetIncidentEventDb(t) \/ GetIncidentMem(t)
    BY <2>3 DEF GetIncidentDb, GetIncidentEventDb, GetIncidentMem, GotIncident
  <2>4. CASE PersistIncident(t)
    BY <2>4 DEF PersistIncident, IncidentTable
  <2>5. CASE UpdateDb(t) \/ UpdateMem(t)
    BY <2>5 DEF UpdateDb, UpdateMem, IncidentTable, InFlight, Remembers, Carries, Deletes, Clearing
  <2>6. CASE ReviewMem(t) \/ PersistReview(t)
    BY <2>6 DEF ReviewMem, PersistReview, ReviewOf, InFlight, Remembers, Carries, Deletes, Clearing, ReviewRecord
  <2>7. CASE ClearIncidents(t) \/ ClearJobs(t)
    BY <2>7 DEF ClearIncidents, ClearJobs, EndDelete, Opened
  <2>9. CASE ClearEvents(t)
    BY <2>9, TableOps DEF ClearEvents, EndDelete, InFlight, Remembers, Carries, Deletes, Clearing
  <2>8. CASE ClearMem(t)
    BY <2>8, TableOps DEF ClearMem, InFlight, Remembers, Carries, Deletes, Clearing
  <2> QED
    BY <1>4, <2>1, <2>2, <2>3, <2>4, <2>5, <2>6, <2>7, <2>8, <2>9 DEF Step
<1>5. CASE Restart
  BY <1>5, TableOps, RequestShape, StoreAssumption DEF Restart, NothingDoomed, TypeOK, tables, Steps,
     NoIncidents, IncidentTable
<1>6. CASE UNCHANGED vars
  BY <1>6 DEF vars, TypeOK
<1> QED
  BY <1>1, <1>2, <1>3, <1>4, <1>5, <1>6 DEF Next, TypeOK

-----------------------------------------------------------------------------
(* Rows come from batches.                                                 *)

LEMMA NoInventedRowsStep ==
  ASSUME TypeOK, InFlight, BatchIsWhole, NoInventedRows, [Next]_vars
  PROVE  NoInventedRows'
<1> USE DomainAssumption DEF TypeOK, IncidentTable, NoInventedRows, memory, tables, doomed
<1>1. ASSUME NEW t \in Threads, Arrive(t)
      PROVE  NoInventedRows'
  BY <1>1 DEF Arrive, AddMemory, Get, CreateIncident, UpdateStatus, SubmitReview, AddNote,
              ClearStore, Rows
<1>2. ASSUME NEW t \in Threads, Step(t)
      PROVE  NoInventedRows'
  <2>1. CASE PersistAddMany(t)
    BY <2>1 DEF PersistAddMany, InFlight, Remembers, Carries, Deletes, Clearing, Rows, WithBatch
  <2>2. CASE GetEventDb(t) \/ GetEventMem(t)
    BY <2>2 DEF GetEventDb, GetEventMem
  <2>3. CASE GetIncidentDb(t) \/ GetIncidentEventDb(t) \/ GetIncidentMem(t)
    BY <2>3 DEF GetIncidentDb, GetIncidentEventDb, GetIncidentMem
  <2>4. CASE PersistIncident(t)
    BY <2>4 DEF PersistIncident, InFlight, Remembers, Carries, Deletes, Clearing
  <2>5. CASE UpdateDb(t) \/ UpdateMem(t)
    BY <2>5 DEF UpdateDb, UpdateMem
  <2>6. CASE ReviewMem(t) \/ PersistReview(t)
    BY <2>6 DEF ReviewMem, PersistReview
  <2>7. CASE ClearIncidents(t) \/ ClearJobs(t) \/ ClearEvents(t) \/ ClearMem(t)
    BY <2>7 DEF ClearIncidents, ClearJobs, ClearEvents, EndDelete, ClearMem, WithoutIncidents, WithoutTenant
  <2> QED
    BY <1>2, <2>1, <2>2, <2>3, <2>4, <2>5, <2>6, <2>7 DEF Step
<1>3. CASE Restart
  BY <1>3 DEF Restart, NothingDoomed, NoIncidents
<1>4. CASE UNCHANGED vars
  BY <1>4 DEF vars
<1> QED
  BY <1>1, <1>2, <1>3, <1>4 DEF Next

-----------------------------------------------------------------------------
(* The lock.                                                               *)

LEMMA LockIsForUpdateStep ==
  ASSUME TypeOK, InFlight, LockIsForUpdate, [Next]_vars
  PROVE  LockIsForUpdate'
<1> USE StoreAssumption DEF TypeOK, LockIsForUpdate, Goto, Return, Begin, memory, tables, doomed
<1>1. ASSUME NEW t \in Threads, Arrive(t)
      PROVE  LockIsForUpdate'
  BY <1>1 DEF Arrive, AddMemory, Get, CreateIncident, UpdateStatus, SubmitReview, AddNote,
              ClearStore
<1>2. ASSUME NEW t \in Threads, Step(t)
      PROVE  LockIsForUpdate'
  <2>1. CASE PersistAddMany(t) \/ PersistReview(t) \/ PersistIncident(t)
    BY <2>1 DEF PersistAddMany, PersistReview, PersistIncident
  <2>2. CASE GetEventDb(t) \/ GetEventMem(t)
    BY <2>2 DEF GetEventDb, GetEventMem, GotEvent
  <2>3. CASE GetIncidentDb(t) \/ GetIncidentEventDb(t) \/ GetIncidentMem(t)
    BY <2>3 DEF GetIncidentDb, GetIncidentEventDb, GetIncidentMem, GotIncident
  <2>5. CASE UpdateDb(t) \/ UpdateMem(t)
    BY <2>5 DEF UpdateDb, UpdateMem, InFlight, Remembers, Carries, Deletes, Clearing
  <2>6. CASE ReviewMem(t) \/ ClearIncidents(t) \/ ClearJobs(t) \/ ClearEvents(t) \/ ClearMem(t)
    BY <2>6 DEF ReviewMem, ClearIncidents, ClearJobs, ClearEvents, EndDelete, ClearMem
  <2> QED
    BY <1>2, <2>1, <2>2, <2>3, <2>5, <2>6 DEF Step
<1>3. CASE Restart
  BY <1>3 DEF Restart, NothingDoomed
<1>4. CASE UNCHANGED vars
  BY <1>4 DEF vars
<1> QED
  BY <1>1, <1>2, <1>3, <1>4 DEF Next

-----------------------------------------------------------------------------
(* What requests carry.                                                    *)

\* A uuid is drawn once, and a request that passed a look-up remembers what it found.
LEMMA RemembersStep ==
  ASSUME TypeOK, Remembers, BatchIsWhole, NoInventedRows, [Next]_vars
  PROVE  Remembers'
<1> USE DEF TypeOK, Goto, Return, Begin, memory, tables, doomed
<1>a. \A x \in Targets \cup Reviewed : x.event \in Events /\ x.tenant \in Tenants
  BY StoreAssumption DEF ReviewRecord
<1>1. ASSUME NEW t \in Threads, Arrive(t)
      PROVE  Remembers'
  <2> USE RequestShape DEF Remembers, Carries, Clearing, Purposes
  <2>1. ASSUME NEW j \in Jobs, AddMemory(t, j)
        PROVE  Remembers'
    BY <2>1 DEF AddMemory, NoInventedRows
  <2>2. ASSUME NEW x \in Targets, Get(t, x.event, x.tenant) \/ CreateIncident(t, x.event, x.tenant)
        PROVE  Remembers'
    <3>1. CASE CreateIncident(t, x.event, x.tenant)
      BY <1>a, <3>1 DEF CreateIncident
    <3>2. CASE Begin(t, "event_db", About("read", x.event, x.tenant))
               /\ UNCHANGED <<memory, lock, tables, doomed, drawn>>
      BY <1>a, <3>2
    <3>3. CASE Begin(t, "incident_db", About("read", x.event, x.tenant))
               /\ UNCHANGED <<memory, lock, tables, doomed, drawn>>
      BY <1>a, <3>3
    <3> QED
      BY <2>2, <3>1, <3>2, <3>3 DEF Get
  <2>3. ASSUME NEW x \in Targets, NEW s \in Statuses, UpdateStatus(t, x.event, x.tenant, s)
        PROVE  Remembers'
    BY <1>a, <2>3 DEF UpdateStatus
  <2>4. ASSUME NEW x \in Reviewed,
               SubmitReview(t, x.event, x.tenant) \/ AddNote(t, x.event, x.tenant)
        PROVE  Remembers'
    <3>1. CASE SubmitReview(t, x.event, x.tenant)
      BY <1>a, <3>1 DEF SubmitReview
    <3>2. CASE AddNote(t, x.event, x.tenant)
      BY <1>a, <3>2 DEF AddNote
    <3> QED
      BY <2>4, <3>1, <3>2
  <2>5. ASSUME NEW tn \in Tenants, ClearStore(t, tn)
        PROVE  Remembers'
    BY <2>5 DEF ClearStore
  <2> QED
    BY <1>1, <2>1, <2>2, <2>3, <2>4, <2>5 DEF Arrive
<1>2. ASSUME NEW t \in Threads, Step(t)
      PROVE  Remembers'
  <2>1. CASE PersistAddMany(t)
    BY <2>1, RequestShape DEF PersistAddMany, Remembers, Carries, Clearing
  <2>2. CASE GetEventDb(t)
    BY <2>2, RequestShape DEF GetEventDb, GotEvent, Remembers, Carries, Clearing, BatchIsWhole, NoInventedRows
  <2>3. CASE GetEventMem(t)
    BY <2>3, RequestShape DEF GetEventMem, GotEvent, Remembers, Carries, Clearing, NoInventedRows
  <2>4. CASE GetIncidentDb(t) \/ GetIncidentEventDb(t) \/ GetIncidentMem(t)
    BY <2>4, RequestShape
       DEF GetIncidentDb, GetIncidentEventDb, GetIncidentMem, GotIncident, Remembers, Carries, Clearing
  <2>5. CASE PersistIncident(t)
    BY <2>5, RequestShape DEF PersistIncident, Remembers, Carries, Clearing, Purposes
  <2>6. CASE UpdateDb(t) \/ UpdateMem(t)
    BY <2>6, RequestShape DEF UpdateDb, UpdateMem, Remembers, Carries, Clearing
  <2>7. CASE ReviewMem(t) \/ PersistReview(t)
    BY <2>7, RequestShape
       DEF ReviewMem, PersistReview, Remembers, Carries, Clearing
  <2>8. CASE ClearIncidents(t) \/ ClearJobs(t) \/ ClearEvents(t) \/ ClearMem(t)
    BY <2>8, RequestShape
       DEF ClearIncidents, ClearJobs, ClearEvents, EndDelete, ClearMem, Remembers, Carries, Clearing
  <2> QED
    BY <1>2, <2>1, <2>2, <2>3, <2>4, <2>5, <2>6, <2>7, <2>8 DEF Step
<1>3. CASE Restart
  BY <1>3, RequestShape DEF Restart, NothingDoomed, Remembers, Carries, Clearing
<1>4. CASE UNCHANGED vars
  BY <1>4 DEF vars, Remembers, Carries, Clearing
<1> QED
  BY <1>1, <1>2, <1>3, <1>4 DEF Next

\* Another thread's transaction is its own.
LEMMA DeletesStep ==
  ASSUME TypeOK, Remembers, \A t \in Threads : Deletes(t), [Next]_vars
  PROVE  \A t \in Threads : Deletes(t)'
<1> USE DEF TypeOK, Deletes
<1>1. ASSUME NEW t \in Threads, Arrive(t)
      PROVE  \A u \in Threads : Deletes(u)'
  <2>1. doomed' = doomed /\ pc[t] = "idle"
    BY <1>1 DEF Arrive, AddMemory, Get, CreateIncident, UpdateStatus, SubmitReview, AddNote,
                ClearStore, Begin, tables, doomed
  <2>2. \A u \in Threads \ {t} : pc'[u] = pc[u] /\ req'[u] = req[u]
    BY <1>1 DEF Arrive, AddMemory, Get, CreateIncident, UpdateStatus, SubmitReview, AddNote,
                ClearStore, Begin, Goto
  <2>3. doomedIncidents[t] = {} /\ doomedJobs[t] = {} /\ doomedReviews[t] = {}
    BY <2>1 DEF Clearing
  <2> QED
    BY <2>1, <2>2, <2>3 DEF doomed
<1>2. ASSUME NEW t \in Threads, Step(t), UNCHANGED doomed, pc[t] \notin Clearing
      PROVE  \A u \in Threads : Deletes(u)'
  <2>1. \A u \in Threads \ {t} : pc'[u] = pc[u] /\ req'[u] = req[u]
    <3> USE DEF Goto, Return
    <3>1. CASE PersistAddMany(t) \/ PersistReview(t) \/ PersistIncident(t)
      BY <3>1 DEF PersistAddMany, PersistReview, PersistIncident
    <3>2. CASE GetEventDb(t) \/ GetEventMem(t)
      BY <3>2 DEF GetEventDb, GetEventMem, GotEvent
    <3>3. CASE GetIncidentDb(t) \/ GetIncidentEventDb(t) \/ GetIncidentMem(t)
      BY <3>3 DEF GetIncidentDb, GetIncidentEventDb, GetIncidentMem, GotIncident
    <3>4. CASE UpdateDb(t) \/ UpdateMem(t) \/ ReviewMem(t)
      BY <3>4 DEF UpdateDb, UpdateMem, ReviewMem
    <3>5. ~ClearIncidents(t) /\ ~ClearJobs(t) /\ ~ClearEvents(t) /\ ~ClearMem(t)
      BY <1>2 DEF ClearIncidents, ClearJobs, ClearEvents, ClearMem, Clearing
    <3> QED
      BY <1>2, <3>1, <3>2, <3>3, <3>4, <3>5 DEF Step
  <2> QED
    BY <1>2, <2>1 DEF doomed, Clearing
<1>3. ASSUME NEW t \in Threads, Step(t), pc[t] \in Clearing
      PROVE  \A u \in Threads : Deletes(u)'
  <2> USE DEF Clearing, Goto, Return
  <2>1. CASE ClearIncidents(t)
    BY <2>1 DEF ClearIncidents, Opened
  <2>2. CASE ClearJobs(t)
    BY <2>2 DEF ClearJobs, EndDelete
  <2>3. CASE ClearEvents(t)
    BY <2>3 DEF ClearEvents, EndDelete
  <2>4. CASE ClearMem(t)
    BY <2>4 DEF ClearMem, doomed
  <2> QED
    BY <1>3, <2>1, <2>2, <2>3, <2>4
       DEF Step, PersistAddMany, GetEventDb, GetEventMem, GetIncidentDb, GetIncidentEventDb,
           GetIncidentMem, PersistIncident, UpdateDb, UpdateMem, ReviewMem, PersistReview
<1>4. ASSUME NEW t \in Threads, PersistReview(t)
      PROVE  \A u \in Threads : Deletes(u)'
  BY <1>4 DEF PersistReview, Goto, Return, Clearing
<1>5. CASE Restart
  BY <1>5 DEF Restart, NothingDoomed
<1>6. CASE UNCHANGED vars
  BY <1>6 DEF vars
<1>7. ASSUME NEW t \in Threads, Step(t)
      PROVE  PersistReview(t) \/ pc[t] \in Clearing \/ UNCHANGED doomed
  BY <1>7 DEF Step, PersistAddMany, GetEventDb, GetEventMem, GetIncidentDb,
              GetIncidentEventDb, GetIncidentMem, PersistIncident, UpdateDb, UpdateMem,
              ReviewMem, ClearIncidents, ClearJobs, ClearEvents, ClearMem, Clearing
<1> QED
  BY <1>1, <1>2, <1>3, <1>4, <1>5, <1>6, <1>7 DEF Next

LEMMA InFlightStep ==
  ASSUME TypeOK, InFlight, BatchIsWhole, NoInventedRows, [Next]_vars
  PROVE  InFlight'
BY RemembersStep, DeletesStep DEF InFlight

-----------------------------------------------------------------------------
(* The theorems.                                                           *)

LEMMA InitIInv == Init => IInv
BY RequestShape, StepNames, TableOps, StoreAssumption, DomainAssumption
   DEF Init, NothingDoomed, Deletes, Remembers, IInv, TypeOK, InFlight, Remembers, Carries, Deletes, Clearing, BatchIsWhole, AttackHasIncident,
       NoInventedRows, LockIsForUpdate, NoIncidents, IncidentTable, Opened

\* The inductive invariant holds in every reachable state.
THEOREM Invariance == Spec => []IInv
<1>1. Init => IInv
  BY InitIInv
<1>2. IInv /\ [Next]_vars => IInv'
  <2> SUFFICES ASSUME IInv, [Next]_vars
               PROVE  IInv'
    OBVIOUS
  <2> QED
    BY TypeStep, InFlightStep, BatchIsWholeStep, AttackHasIncidentStep,
       NoInventedRowsStep, LockIsForUpdateStep DEF IInv
<1> QED
  BY <1>1, <1>2, PTL DEF Spec

\* Type correctness of the store.
THEOREM TypeCorrect == Spec => []TypeOK
<1>1. IInv => TypeOK
  BY DEF IInv
<1> QED
  BY <1>1, Invariance, PTL

\* What a request carries from a look-up to a write several steps later is its own
\* tenant's, and what it deletes it may still delete.
THEOREM RequestsCarryTheirOwn == Spec => []InFlight
<1>1. IInv => InFlight
  BY DEF IInv
<1> QED
  BY <1>1, Invariance, PTL

\* A batch is stored with its job and all its events or not at all.
THEOREM BatchesAreWhole == Spec => []BatchIsWhole
<1>1. IInv => BatchIsWhole
  BY DEF IInv
<1> QED
  BY <1>1, Invariance, PTL

\* Every stored attack can be triaged.
THEOREM AttacksHaveIncidents == Spec => []AttackHasIncident
<1>1. IInv => AttackHasIncident
  BY DEF IInv
<1> QED
  BY <1>1, Invariance, PTL

\* No row comes from anywhere but an intake batch.
THEOREM RowsAreReal == Spec => []NoInventedRows
<1>1. IInv => NoInventedRows
  BY DEF IInv
<1> QED
  BY <1>1, Invariance, PTL

\* Only update_incident_status keeps the lock over a step.
THEOREM LockDiscipline == Spec => []LockIsForUpdate
<1>1. IInv => LockIsForUpdate
  BY DEF IInv
<1> QED
  BY <1>1, Invariance, PTL

\* No interleaving takes an incident back to a status nobody asked for.
THEOREM TriageIsKept == Spec => TriageIsNeverUndone
<1> DEFINE A == \A e \in Opened(dbIncidents) :
                  dbIncidents'[e] \notin {dbIncidents[e], Absent} =>
                    \E t \in Threads : /\ req[t].for = "update"
                                       /\ req[t].event = e
                                       /\ req[t].status = dbIncidents'[e]
<1>1. IInv /\ [Next]_vars => [A]_vars
  <2> SUFFICES ASSUME IInv, Next
               PROVE  A
    OBVIOUS
  <2> USE DomainAssumption DEF IInv, TypeOK, IncidentTable, Opened
  <2>1. ASSUME NEW t \in Threads, PersistAddMany(t)
        PROVE  A
    BY <2>1 DEF PersistAddMany, WithBatch
  <2>2. ASSUME NEW t \in Threads, PersistIncident(t)
        PROVE  A
    BY <2>2 DEF PersistIncident
  <2>3. ASSUME NEW t \in Threads, UpdateDb(t)
        PROVE  A
    BY <2>3 DEF UpdateDb, InFlight, Remembers, Carries, Deletes, Clearing
  <2>4. ASSUME NEW t \in Threads, PersistReview(t)
        PROVE  A
    BY <2>4 DEF PersistReview
  <2>5. ASSUME NEW t \in Threads, ClearEvents(t)
        PROVE  A
    BY <2>5 DEF ClearEvents, EndDelete, WithoutIncidents, tables
  <2>6. CASE UNCHANGED tables
    BY <2>6 DEF tables
  <2> QED
    BY <2>1, <2>2, <2>3, <2>4, <2>5, <2>6, TableSteps
<1> QED
  BY <1>1, Invariance, PTL DEF Spec, TriageIsNeverUndone

\* A tenant's rows change only under a request of that tenant.
THEOREM TenantsAreIsolated == Spec => TenantIsolation
<1> DEFINE A == \A e \in Events :
                  dbIncidents'[e] # dbIncidents[e] \/ ~(e \in dbEvents <=> e \in dbEvents') =>
                    \E t \in Threads : \/ req[t].tenant = Owner(e)
                                       \/ req[t].for = "add" /\ req[t].job = JobOf[e]
<1>1. IInv /\ [Next]_vars => [A]_vars
  <2> SUFFICES ASSUME IInv, Next
               PROVE  A
    OBVIOUS
  <2> USE DomainAssumption DEF IInv, TypeOK, IncidentTable
  <2>1. ASSUME NEW t \in Threads, PersistAddMany(t)
        PROVE  A
    BY <2>1 DEF PersistAddMany, WithBatch, Rows, InFlight, Remembers, Carries, Deletes, Clearing
  <2>2. ASSUME NEW t \in Threads, PersistIncident(t)
        PROVE  A
    BY <2>2 DEF PersistIncident, InFlight, Remembers, Carries, Deletes, Clearing
  <2>3. ASSUME NEW t \in Threads, UpdateDb(t)
        PROVE  A
    BY <2>3 DEF UpdateDb, InFlight, Remembers, Carries, Deletes, Clearing
  <2>4. ASSUME NEW t \in Threads, PersistReview(t)
        PROVE  A
    BY <2>4 DEF PersistReview
  <2>5. ASSUME NEW t \in Threads, ClearEvents(t)
        PROVE  A
    BY <2>5 DEF ClearEvents, WithoutIncidents, tables, InFlight, Deletes
  <2>6. CASE UNCHANGED tables
    BY <2>6 DEF tables
  <2> QED
    BY <2>1, <2>2, <2>3, <2>4, <2>5, <2>6, TableSteps
<1> QED
  BY <1>1, Invariance, PTL DEF Spec, TenantIsolation

\* The store implements the ledger: every step is one whole transaction on the
\* tables or leaves them alone.
THEOREM Refinement == Spec => LedgerSpec
<1>1. Init => Ledger!Init
  BY DEF Init, Ledger!Init, NoIncidents, Ledger!NoIncidents
<1>2. IInv /\ [Next]_vars => [Ledger!Next]_(Ledger!vars)
  <2> SUFFICES ASSUME IInv, Next
               PROVE  Ledger!Next \/ UNCHANGED Ledger!vars
    BY DEF vars, Ledger!vars
  <2> USE DomainAssumption DEF IInv, TypeOK, IncidentTable, Ledger!Next, Ledger!vars
  <2>1. ASSUME NEW t \in Threads, PersistAddMany(t)
        PROVE  Ledger!Next \/ UNCHANGED Ledger!vars
    BY <2>1 DEF PersistAddMany, InFlight, Remembers, Carries, Deletes, Clearing, Ledger!Ingest, Rows, Ledger!Rows,
                Opened, Ledger!Opened, WithBatch, Ledger!WithBatch
  <2>2. ASSUME NEW t \in Threads, PersistIncident(t)
        PROVE  Ledger!Next \/ UNCHANGED Ledger!vars
    BY <2>2 DEF PersistIncident, Ledger!Open, InFlight, Remembers, Carries, Deletes, Clearing
  <2>3. ASSUME NEW t \in Threads, UpdateDb(t)
        PROVE  Ledger!Next \/ UNCHANGED Ledger!vars
    BY <2>3 DEF UpdateDb, Ledger!Triage, InFlight, Remembers, Carries, Deletes, Clearing
  <2>4. ASSUME NEW t \in Threads, PersistReview(t)
        PROVE  Ledger!Next \/ UNCHANGED Ledger!vars
    BY <2>4 DEF PersistReview, Ledger!Review, ReviewOf, ReviewRecord,
                Ledger!ReviewRecord, InFlight, Remembers, Carries, Deletes, Clearing
  <2>5. ASSUME NEW t \in Threads, ClearEvents(t), ~UNCHANGED tables
        PROVE  Ledger!Next
    <3> DEFINE tn == req[t].tenant
               lost == doomedIncidents[t] \cap Opened(dbIncidents)
    <3>1. tn \in Tenants /\ Deletes(t)
      BY <2>5 DEF ClearEvents, InFlight, Remembers, Carries, Clearing
    <3>2. dbEvents' = {e \in dbEvents : Ledger!Owner(e) # tn}
      BY <2>5 DEF ClearEvents, Owner, Ledger!Owner
    <3>3. \E gone \in SUBSET {e \in Ledger!Opened(dbIncidents) : Ledger!Owner(e) = tn} :
            dbIncidents' = Ledger!WithoutIncidents(dbIncidents, gone)
      <4>1. lost \in SUBSET {e \in Ledger!Opened(dbIncidents) : Ledger!Owner(e) = tn}
        BY <3>1 DEF Deletes, Opened, Ledger!Opened, Owner, Ledger!Owner
      <4>2. dbIncidents' = WithoutIncidents(dbIncidents, doomedIncidents[t])
        BY <2>5 DEF ClearEvents
      <4>3. dbIncidents' = Ledger!WithoutIncidents(dbIncidents, lost)
        BY <4>2 DEF WithoutIncidents, Ledger!WithoutIncidents, Opened
      <4> QED
        BY <4>1, <4>3
    <3>4. \E gone \in SUBSET {j \in dbJobs : TenantOf[j] = tn} : dbJobs' = dbJobs \ gone
      <4>1. doomedJobs[t] \cap dbJobs \in SUBSET {j \in dbJobs : TenantOf[j] = tn}
        BY <3>1 DEF Deletes
      <4>2. dbJobs' = dbJobs \ (doomedJobs[t] \cap dbJobs)
        BY <2>5 DEF ClearEvents
      <4> QED
        BY <4>1, <4>2
    <3>5. \E gone \in SUBSET {r \in dbReviews : r.tenant = tn} : dbReviews' = dbReviews \ gone
      <4>1. doomedReviews[t] \cap dbReviews \in SUBSET {r \in dbReviews : r.tenant = tn}
        BY <3>1 DEF Deletes
      <4>2. dbReviews' = dbReviews \ (doomedReviews[t] \cap dbReviews)
        BY <2>5 DEF ClearEvents
      <4> QED
        BY <4>1, <4>2
    <3>6. Ledger!Clear(tn)
      BY <3>2, <3>3, <3>4, <3>5 DEF Ledger!Clear
    <3> QED
      BY <3>1, <3>6
  <2>6. CASE UNCHANGED tables
    BY <2>6 DEF tables
  <2> QED
    BY <2>1, <2>2, <2>3, <2>4, <2>5, <2>6, TableSteps
<1> QED
  BY <1>1, <1>2, Invariance, PTL DEF Spec, LedgerSpec, Ledger!Spec

-----------------------------------------------------------------------------
(* While the database answers.                                             *)

\* A request that opens an incident has found its event.
Looked(t) == req[t].for = "create" /\ pc[t] \notin {"idle", "event_db", "event_mem"}

NoFallback ==
  \A t \in Threads : pc[t] \notin {"event_mem", "incident_event_db", "incident_mem"}

\* Of a batch that is not in the database yet nothing is: no event, no incident,
\* and no request has found one of its events.
NotBefore ==
  \A u \in Threads : pc[u] = "add_db" =>
    \A e \in Rows(req[u].job) :
      /\ e \notin dbEvents /\ dbIncidents[e] = Absent
      /\ \A t \in Threads : Looked(t) => req[t].event # e

HealthyInv == NoFallback /\ NotBefore

LEMMA NoFallbackStep ==
  ASSUME DbOutcomes = {TRUE}, Restarts = FALSE, TypeOK, InFlight, NoFallback, [Next]_vars
  PROVE  NoFallback'
<1> USE DEF NoFallback, TypeOK, Goto, Return, Begin
<1>1. ASSUME NEW t \in Threads, Arrive(t)
      PROVE  NoFallback'
  BY <1>1 DEF Arrive, AddMemory, Get, CreateIncident, UpdateStatus, SubmitReview, AddNote,
              ClearStore
<1>2. ASSUME NEW t \in Threads, Step(t)
      PROVE  NoFallback'
  <2>1. CASE PersistAddMany(t) \/ PersistReview(t) \/ PersistIncident(t)
    BY <2>1 DEF PersistAddMany, PersistReview, PersistIncident
  <2>2. CASE GetEventDb(t)
    BY <1>2, <2>2 DEF GetEventDb, GotEvent, DbCall
  <2>3. CASE GetIncidentDb(t)
    BY <2>3 DEF GetIncidentDb, GotIncident, DbCall
  <2>4. CASE GetEventMem(t) \/ GetIncidentEventDb(t) \/ GetIncidentMem(t)
    BY <2>4 DEF GetEventMem, GetIncidentEventDb, GetIncidentMem
  <2>5. CASE UpdateDb(t) \/ UpdateMem(t) \/ ReviewMem(t)
    BY <2>5 DEF UpdateDb, UpdateMem, ReviewMem
  <2>6. CASE ClearIncidents(t) \/ ClearJobs(t) \/ ClearEvents(t) \/ ClearMem(t)
    BY <2>6 DEF ClearIncidents, ClearJobs, ClearEvents, ClearMem
  <2> QED
    BY <1>2, <2>1, <2>2, <2>3, <2>4, <2>5, <2>6 DEF Step
<1>3. CASE UNCHANGED vars
  BY <1>3 DEF vars
<1> QED
  BY <1>1, <1>2, <1>3 DEF Next, Restart

\* A step that starts no batch, leaves the tables and lets no other request
\* find an event keeps what is not in the database out.
LEMMA QuietStep ==
  ASSUME TypeOK, NotBefore, NEW t \in Threads,
         \A u \in Threads \ {t} : pc'[u] = pc[u] /\ req'[u] = req[u],
         pc'[t] # "add_db", dbEvents' \subseteq dbEvents,
         \A e \in Events : dbIncidents[e] = Absent => dbIncidents'[e] = Absent,
         Looked(t)' => Looked(t) /\ req'[t].event = req[t].event
  PROVE  NotBefore'
BY DEF NotBefore, TypeOK, Rows, Looked

LEMMA NotBeforeStep ==
  ASSUME DbOutcomes = {TRUE}, Restarts = FALSE, IInv, NoFallback, NotBefore, [Next]_vars
  PROVE  NotBefore'
<1> USE DEF IInv
<1>0. pc \in [Threads -> Steps] /\ req \in [Threads -> Request]
  BY DEF TypeOK
<1>1. ASSUME NEW t \in Threads, NEW j \in Jobs, AddMemory(t, j)
      PROVE  NotBefore'
  <2>1. /\ j \notin drawn /\ UNCHANGED <<dbEvents, dbIncidents>>
        /\ pc'[t] = "add_db" /\ req'[t].job = j /\ req'[t].for = "add"
        /\ \A u \in Threads \ {t} : pc'[u] = pc[u] /\ req'[u] = req[u]
    BY <1>0, <1>1, RequestShape DEF AddMemory, Begin, Goto, tables
  <2>2. ASSUME NEW e \in Rows(j)
        PROVE  /\ e \notin dbEvents /\ dbIncidents[e] = Absent
               /\ \A u \in Threads : Looked(u) => req[u].event # e
    BY <2>1, <2>2 DEF Rows, NoInventedRows, InFlight, Remembers, Carries, Looked
  <2>3. \A u \in Threads : Looked(u)' => Looked(u) /\ req'[u] = req[u]
    BY <2>1 DEF Looked
  <2> QED
    BY <2>1, <2>2, <2>3 DEF NotBefore, Rows
<1>2. ASSUME NEW t \in Threads, Arrive(t), \A j \in Jobs : ~AddMemory(t, j)
      PROVE  NotBefore'
  <2>1. /\ UNCHANGED <<dbEvents, dbIncidents>> /\ pc'[t] # "add_db"
        /\ \A u \in Threads \ {t} : pc'[u] = pc[u] /\ req'[u] = req[u]
    BY <1>0, <1>2 DEF Arrive, Get, CreateIncident, UpdateStatus, SubmitReview, AddNote,
                ClearStore, Begin, Goto, tables
  <2>2. ~Looked(t)'
    <3>1. \A x \in Targets \cup Reviewed : x.event \in Events /\ x.tenant \in Tenants
      BY StoreAssumption DEF ReviewRecord
    <3>2. pc'[t] = "event_db" \/ req'[t].for # "create"
      BY <1>0, <1>2, <3>1, RequestShape
         DEF Arrive, Get, CreateIncident, UpdateStatus, SubmitReview, AddNote,
             ClearStore, Begin, Goto, Purposes
    <3> QED
      BY <3>2 DEF Looked
  <2> QED
    BY <2>1, <2>2, QuietStep
<1>3. ASSUME NEW t \in Threads, PersistAddMany(t)
      PROVE  NotBefore'
  <2> DEFINE j == req[t].job
  <2>1. /\ pc[t] = "add_db" /\ pc'[t] = "idle"
        /\ \A u \in Threads \ {t} : pc'[u] = pc[u] /\ req'[u] = req[u]
        /\ dbEvents' \subseteq dbEvents \cup Rows(j)
        /\ \A e \in Events \ Rows(j) : dbIncidents'[e] = dbIncidents[e]
    BY <1>0, <1>3 DEF PersistAddMany, Return, Goto, WithBatch, TypeOK, IncidentTable
  <2>2. \A u \in Threads \ {t} : pc[u] = "add_db" => Rows(req[u].job) \cap Rows(j) = {}
    BY <2>1 DEF InFlight, Remembers, Rows
  <2> HIDE DEF j
  <2>3. \A u \in Threads : Looked(u)' => Looked(u) /\ req'[u] = req[u]
    BY <2>1 DEF Looked
  <2> QED
    BY <2>1, <2>2, <2>3 DEF NotBefore, Rows
<1>4. ASSUME NEW t \in Threads, GetEventDb(t)
      PROVE  NotBefore'
  <2>1. /\ UNCHANGED <<dbEvents, dbIncidents>> /\ pc'[t] # "add_db"
        /\ \A u \in Threads \ {t} : pc'[u] = pc[u] /\ req'[u] = req[u]
    BY <1>0, <1>4 DEF GetEventDb, GotEvent, Return, Goto, tables
  <2>2. Looked(t)' => req[t].event \in dbEvents /\ req'[t] = req[t]
    BY <1>0, <1>4 DEF GetEventDb, GotEvent, Return, Goto, DbCall, Looked
  <2>3. \A u \in Threads \ {t} : Looked(u)' => Looked(u)
    BY <2>1 DEF Looked
  <2> QED
    BY <2>1, <2>2, <2>3 DEF NotBefore, Rows
<1>5. ASSUME NEW t \in Threads, PersistIncident(t)
      PROVE  NotBefore'
  <2>1. /\ pc[t] = "persist_incident" /\ pc'[t] = "incident_db" /\ dbEvents' = dbEvents
        /\ \A u \in Threads \ {t} : pc'[u] = pc[u] /\ req'[u] = req[u]
        /\ \A e \in Events \ {req[t].event} : dbIncidents'[e] = dbIncidents[e]
    BY <1>0, <1>5 DEF PersistIncident, Goto, TypeOK, IncidentTable
  <2>2. Looked(t) /\ ~Looked(t)'
    <3>1. req[t].for = "create" /\ req[t].event \in Events /\ req[t].tenant \in Tenants
      BY <2>1 DEF InFlight, Remembers, Carries, Clearing
    <3>2. req'[t].for = "reply"
      BY <1>0, <1>5, <3>1, RequestShape DEF PersistIncident, Purposes
    <3> QED
      BY <2>1, <3>1, <3>2 DEF Looked
  <2>3. \A u \in Threads : Looked(u)' => Looked(u) /\ req'[u] = req[u]
    BY <2>1, <2>2 DEF Looked
  <2> QED
    BY <2>1, <2>2, <2>3 DEF NotBefore, Rows
<1>6. ASSUME NEW t \in Threads, UpdateDb(t)
      PROVE  NotBefore'
  <2>1. /\ dbEvents' = dbEvents /\ pc'[t] # "add_db"
        /\ \A u \in Threads \ {t} : pc'[u] = pc[u] /\ req'[u] = req[u]
        /\ \A e \in Events : dbIncidents[e] = Absent => dbIncidents'[e] = Absent
    BY <1>0, <1>6 DEF UpdateDb, Return, Goto, TypeOK, IncidentTable
  <2>2. ~Looked(t)'
    BY <1>0, <1>6, RequestShape
       DEF UpdateDb, Return, Goto, Looked, InFlight, Remembers, Carries
  <2> QED
    BY <2>1, <2>2, QuietStep
<1>7. ASSUME NEW t \in Threads, Step(t), ~PersistAddMany(t), ~GetEventDb(t),
             ~PersistIncident(t), ~UpdateDb(t)
      PROVE  NotBefore'
  <2> USE DEF Goto, Return
  <2>1. pc[t] \notin {"event_mem", "incident_event_db", "incident_mem"}
    BY DEF NoFallback
  <2>2. CASE GetIncidentDb(t) \/ UpdateMem(t) \/ ReviewMem(t) \/ PersistReview(t)
    <3>1. /\ UNCHANGED <<dbEvents, dbIncidents>> /\ pc'[t] # "add_db"
          /\ pc[t] \notin {"idle", "event_db", "event_mem"}
          /\ \A u \in Threads \ {t} : pc'[u] = pc[u] /\ req'[u] = req[u]
          /\ req'[t] = req[t] \/ pc'[t] = "idle"
      BY <1>0, <2>2 DEF GetIncidentDb, GotIncident, UpdateMem, ReviewMem, PersistReview, tables
    <3>2. Looked(t)' => Looked(t) /\ req'[t] = req[t]
      BY <3>1 DEF Looked
    <3> QED
      BY <3>1, <3>2, QuietStep
  <2>3. CASE ClearIncidents(t) \/ ClearJobs(t) \/ ClearEvents(t) \/ ClearMem(t)
    <3>1. /\ dbEvents' \subseteq dbEvents /\ pc'[t] # "add_db"
          /\ pc[t] \notin {"idle", "event_db", "event_mem"}
          /\ \A u \in Threads \ {t} : pc'[u] = pc[u] /\ req'[u] = req[u]
          /\ req'[t] = req[t] \/ pc'[t] = "idle"
          /\ \A e \in Events : dbIncidents[e] = Absent => dbIncidents'[e] = Absent
      BY <1>0, <2>3
         DEF ClearIncidents, ClearJobs, ClearEvents, ClearMem, WithoutIncidents, tables
    <3>2. Looked(t)' => Looked(t) /\ req'[t] = req[t]
      BY <3>1 DEF Looked
    <3> QED
      BY <3>1, <3>2, QuietStep
  <2>4. ~GetEventMem(t) /\ ~GetIncidentEventDb(t) /\ ~GetIncidentMem(t)
    BY <2>1 DEF GetEventMem, GetIncidentEventDb, GetIncidentMem
  <2> QED
    BY <1>7, <2>2, <2>3, <2>4 DEF Step
<1>8. CASE UNCHANGED vars
  BY <1>8 DEF vars, NotBefore, Looked
<1> QED
  BY <1>1, <1>2, <1>3, <1>4, <1>5, <1>6, <1>7, <1>8 DEF Next, Restart

\* With a database that answers every call and a process that lives, a batch
\* answered "accepted" is in the database: the rollback that _persist_add_many
\* hides from its caller is never taken, whatever else runs meanwhile.
THEOREM AcceptedIsKept ==
  ASSUME DbOutcomes = {TRUE}, Restarts = FALSE
  PROVE  Spec => AcceptedIsDurable
<1> DEFINE A == \A t \in Threads :
                  pc[t] = "add_db" /\ pc'[t] = "idle" => req[t].job \in dbJobs'
<1>1. Init => HealthyInv
  BY DEF Init, HealthyInv, NoFallback, NotBefore
<1>2. IInv /\ HealthyInv /\ [Next]_vars => HealthyInv'
  BY NoFallbackStep, NotBeforeStep DEF HealthyInv, IInv
<1>3. IInv /\ HealthyInv /\ [Next]_vars => [A]_vars
  <2> SUFFICES ASSUME IInv, HealthyInv, Next, NEW t \in Threads,
                      pc[t] = "add_db", pc'[t] = "idle"
               PROVE  req[t].job \in dbJobs'
    OBVIOUS
  <2>0. pc \in [Threads -> Steps]
    BY DEF IInv, TypeOK
  <2>1. ASSUME NEW u \in Threads, u # t, Arrive(u) \/ Step(u)
        PROVE  FALSE
    <3>1. pc'[t] = pc[t]
      BY <2>0, <2>1 DEF Arrive, AddMemory, Get, CreateIncident, UpdateStatus, SubmitReview, AddNote,
                ClearStore, Begin, Step, PersistAddMany, GetEventDb, GetEventMem, GotEvent,
                GetIncidentDb, GetIncidentEventDb, GetIncidentMem, GotIncident,
                PersistIncident, UpdateDb, UpdateMem, ReviewMem, PersistReview,
                ClearIncidents, ClearJobs, ClearEvents, ClearMem, Goto, Return
    <3> QED
      BY <3>1
  <2>2. PersistAddMany(t)
    <3>1. Arrive(t) \/ Step(t)
      BY <2>1 DEF Next, Restart
    <3>2. ~Arrive(t)
      BY DEF Arrive, AddMemory, Get, CreateIncident, UpdateStatus, SubmitReview, AddNote,
             ClearStore, Begin
    <3> QED
      BY <3>1, <3>2 DEF Step, GetEventDb, GetEventMem, GetIncidentDb, GetIncidentEventDb,
           GetIncidentMem, PersistIncident, UpdateDb, UpdateMem, ReviewMem, PersistReview,
           ClearIncidents, ClearJobs, ClearEvents, ClearMem
  <2>3. Opened(dbIncidents) \cap Rows(req[t].job) \cap Attack = {}
    BY DEF HealthyInv, NotBefore, Opened, Rows
  <2> QED
    BY <2>2, <2>3 DEF PersistAddMany, DbCall
<1> QED
  BY <1>1, <1>2, <1>3, Invariance, PTL DEF Spec, AcceptedIsDurable
=============================================================================
