----------------------------- MODULE EventLedger -----------------------------
(***************************************************************************)
(* What the database promises its readers: four tables that change only by *)
(* whole transactions.  EventStore.tla, where each transaction is one step *)
(* of a request that also works on process memory and may fail half-way,   *)
(* is shown to implement this.                                             *)
(***************************************************************************)
EXTENDS EventDomain

VARIABLES
  events,     \* rows of table events
  incidents,  \* rows of table incidents, with their status
  jobs,       \* rows of table ingestion_jobs
  reviews     \* rows of table reviews

vars == <<events, incidents, jobs, reviews>>

Init ==
  /\ events = {}
  /\ incidents = NoIncidents
  /\ jobs = {}
  /\ reviews = {}

\* A batch appears with its job and the incidents of its attacks, or not at all.
Ingest(j) ==
  /\ j \notin jobs
  /\ Opened(incidents) \cap Rows(j) \cap Attack = {}
  /\ events' = events \cup Rows(j)
  /\ incidents' = WithBatch(incidents, j)
  /\ jobs' = jobs \cup {j}
  /\ UNCHANGED reviews

\* An analyst opens an incident by hand; an open one is left as it is.
Open(e) ==
  /\ incidents[e] = Absent
  /\ incidents' = [incidents EXCEPT ![e] = New]
  /\ UNCHANGED <<events, jobs, reviews>>

Triage(e, s) ==
  /\ incidents[e] # Absent
  /\ incidents' = [incidents EXCEPT ![e] = s]
  /\ UNCHANGED <<events, jobs, reviews>>

Review(r) ==
  /\ reviews' = reviews \cup {r}
  /\ UNCHANGED <<events, incidents, jobs>>

\* The events of one tenant go in one transaction.  So do those of its incidents,
\* jobs and reviews that the transaction came to see: a batch committed meanwhile
\* loses its events only.
Clear(tn) ==
  /\ events' = {e \in events : Owner(e) # tn}
  /\ \E gone \in SUBSET {e \in Opened(incidents) : Owner(e) = tn} :
       incidents' = WithoutIncidents(incidents, gone)
  /\ \E gone \in SUBSET {j \in jobs : TenantOf[j] = tn} : jobs' = jobs \ gone
  /\ \E gone \in SUBSET {r \in reviews : r.tenant = tn} : reviews' = reviews \ gone

Next ==
  \/ \E j \in Jobs : Ingest(j)
  \/ \E e \in Events : Open(e) \/ \E s \in Statuses : Triage(e, s)
  \/ \E r \in ReviewRecord : Review(r)
  \/ \E tn \in Tenants : Clear(tn)

Spec == Init /\ [][Next]_vars
=============================================================================
