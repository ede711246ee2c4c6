----------------------------- MODULE EventDomain -----------------------------
(***************************************************************************)
(* The data the event store works on: batches of classified flows.         *)
(*                                                                         *)
(* A job is one accepted upload or sensor batch; it belongs to the tenant  *)
(* named in the request header, and its events carry fresh uuid ids, so an *)
(* event belongs to one job for ever.  The incident of an event is         *)
(* "inc_<hex>" for "evt_<hex>": the id is a bijection, so an incident is   *)
(* named by its event here.                                                *)
(***************************************************************************)
CONSTANTS
  Tenants,    \* values of the X-TransferIDS-Tenant header
  Jobs,       \* ids of the batches
  Events,     \* ids of the classified flows
  Attack,     \* the events whose verdict is "attack"
  JobOf,      \* [Events -> Jobs]
  TenantOf,   \* [Jobs -> Tenants]
  Statuses,   \* the triage states an incident may be in
  New,        \* the first of them
  Absent      \* no such row

ASSUME DomainAssumption ==
  /\ Attack \subseteq Events
  /\ JobOf \in [Events -> Jobs]
  /\ TenantOf \in [Jobs -> Tenants]
  /\ New \in Statuses
  /\ Absent \notin Statuses

Rows(j) == {e \in Events : JobOf[e] = j}

Owner(e) == TenantOf[JobOf[e]]

\* A table of incidents, one status per event that has a row.
IncidentTable == [Events -> Statuses \cup {Absent}]

NoIncidents == [e \in Events |-> Absent]

Opened(table) == {e \in Events : table[e] # Absent}

\* The rows persisted for one batch: every attack event opens an incident.
WithBatch(table, j) ==
  [e \in Events |-> IF e \in Rows(j) \cap Attack THEN New ELSE table[e]]

WithoutIncidents(table, gone) ==
  [e \in Events |-> IF e \in gone THEN Absent ELSE table[e]]

WithoutTenant(table, tn) ==
  [e \in Events |-> IF Owner(e) = tn THEN Absent ELSE table[e]]

\* A row of table reviews; also what a request on an incident names.
ReviewRecord == [event : Events, tenant : Tenants]
=============================================================================
