---------------------------- MODULE AgentRegistry ----------------------------
(***************************************************************************)
(* backend/app/services/agent_registry_service.py: the registry of sensors,*)
(* a dictionary in process memory keyed by agent id and a table of devices *)
(* keyed by tenant and agent id.  Of a record this keeps the tenant and    *)
(* the counter observations_received (events_created is treated alike).    *)
(*                                                                         *)
(* heartbeat and observations hold AgentRegistryService._lock from reading *)
(* the dictionary to writing it, the call on the database included: one    *)
(* step.  enroll, get and list call the database first and take the lock   *)
(* afterwards: two steps, with whatever other threads do in between.       *)
(***************************************************************************)
EXTENDS Naturals

CONSTANTS
  Threads,      \* worker threads of the process
  Tenants,
  Agents,       \* agent ids
  Callers,      \* pairs of agent id and tenant that sensors and users name
  BatchSizes,   \* numbers of flows in a batch
  MaxReceived,  \* bound on the flows a sensor reports
  DbOutcomes,   \* {TRUE}: the database always answers; BOOLEAN: any call may fail
  Restarts,     \* may the process die and start again?
  Absent        \* no record, no row

Key == [agent : Agents, tenant : Tenants]

ASSUME RegistryAssumption ==
  /\ Callers \subseteq Key
  /\ BatchSizes \subseteq Nat \ {0}
  /\ MaxReceived \in Nat
  /\ DbOutcomes \subseteq BOOLEAN
  /\ Restarts \in BOOLEAN
  /\ Absent \notin Nat \cup Tenants

VARIABLES
  holder,    \* tenant_id of the record in _agents, Absent when there is none
  counted,   \* observations_received of that record, 0 when there is none
  devices,   \* observations_received of each row of table devices
  received,  \* flows accepted so far for each sensor; the program keeps no such number
  asked,     \* tenant of the request a thread has under way, Absent when idle
  loaded     \* what that request read from the database, per agent id

vars == <<holder, counted, devices, received, asked, loaded>>

Nothing == [a \in Agents |-> Absent]

Init ==
  /\ holder = Nothing
  /\ counted = [a \in Agents |-> 0]
  /\ devices = [k \in Key |-> Absent]
  /\ received = [k \in Key |-> 0]
  /\ asked = [t \in Threads |-> Absent]
  /\ loaded = [t \in Threads |-> Nothing]

-----------------------------------------------------------------------------
\* A call that fails and an insert that another thread's insert of the same row has
\* beaten both end in a rollback and None.
DbCall(ok) == ok \in DbOutcomes

\* Mutant: the counter of the record is added to that of the row.
KeptAdded(k, n) == IF devices[k] = Absent THEN n ELSE devices[k] + n

\* Mutant: the row takes the counter of the record, zero or not.
KeptPlain(k, n) == n

\* `record or device or 0`: the counter a row has after an upsert.
Kept(k, n) == IF n = 0 /\ devices[k] # Absent THEN devices[k] ELSE n

\* The upsert of a record with counter n.  It yields the row it wrote, and nothing
\* when it fails before the commit (~ok) or when the row is read back (~told).
Upsert(k, n, ok) ==
  devices' = IF ok THEN [devices EXCEPT ![k] = Kept(k, n)] ELSE devices

Hold(k, n) ==
  /\ holder' = [holder EXCEPT ![k.agent] = k.tenant]
  /\ counted' = [counted EXCEPT ![k.agent] = n]

Heartbeat(k) ==
  LET n == counted[k.agent] IN
  /\ \E ok, told \in BOOLEAN :
       /\ DbCall(ok) /\ DbCall(told)
       /\ Upsert(k, n, ok)
       /\ Hold(k, IF ok /\ told THEN Kept(k, n) ELSE n)
  /\ UNCHANGED <<received, asked, loaded>>

\* Counts from the record in memory, whichever tenant it was last held for.
Observations(k, size) ==
  LET n == counted[k.agent] + size IN
  /\ received[k] + size <= MaxReceived
  /\ received' = [received EXCEPT ![k] = @ + size]
  /\ \E ok, told \in BOOLEAN :
       /\ DbCall(ok) /\ DbCall(told)
       /\ Upsert(k, n, ok)
       /\ Hold(k, IF ok /\ told THEN Kept(k, n) ELSE n)
  /\ UNCHANGED <<asked, loaded>>

Enroll(t, k) ==
  /\ asked[t] = Absent
  /\ asked' = [asked EXCEPT ![t] = k.tenant]
  /\ \E ok, told \in BOOLEAN :
       /\ DbCall(ok) /\ DbCall(told)
       /\ Upsert(k, 0, ok)
       /\ loaded' = [loaded EXCEPT ![t] =
                      [Nothing EXCEPT ![k.agent] = IF ok /\ told THEN Kept(k, 0) ELSE 0]]
  /\ UNCHANGED <<holder, counted, received>>

\* get asks for one agent, list and summary for all of a tenant.  Without an answer
\* they only read the dictionary.
Load(t, tn, agents) ==
  /\ asked[t] = Absent
  /\ DbCall(TRUE)
  /\ asked' = [asked EXCEPT ![t] = tn]
  /\ loaded' = [loaded EXCEPT ![t] =
                 [a \in Agents |-> IF a \in agents THEN devices[[agent |-> a, tenant |-> tn]]
                                   ELSE Absent]]
  /\ UNCHANGED <<holder, counted, devices, received>>

\* Mutant: an agent that has no row is stored like the others.
StoreAll(t) ==
  /\ asked[t] # Absent
  /\ holder' = [a \in Agents |-> asked[t]]
  /\ counted' = loaded[t]
  /\ asked' = [asked EXCEPT ![t] = Absent]
  /\ loaded' = [loaded EXCEPT ![t] = Nothing]
  /\ UNCHANGED <<devices, received>>

\* The second half of enroll, get and list: what was read replaces the records.
Store(t) ==
  /\ asked[t] # Absent
  /\ holder' = [a \in Agents |-> IF loaded[t][a] = Absent THEN holder[a] ELSE asked[t]]
  /\ counted' = [a \in Agents |-> IF loaded[t][a] = Absent THEN counted[a] ELSE loaded[t][a]]
  /\ asked' = [asked EXCEPT ![t] = Absent]
  /\ loaded' = [loaded EXCEPT ![t] = Nothing]
  /\ UNCHANGED <<devices, received>>

Restart ==
  /\ Restarts
  /\ holder' = Nothing
  /\ counted' = [a \in Agents |-> 0]
  /\ asked' = [t \in Threads |-> Absent]
  /\ loaded' = [t \in Threads |-> Nothing]
  /\ UNCHANGED <<devices, received>>

\* heartbeat and observations need an idle thread to run on.
Next ==
  \/ \E t \in Threads, k \in Callers :
       \/ asked[t] = Absent /\ Heartbeat(k)
       \/ asked[t] = Absent /\ \E size \in BatchSizes : Observations(k, size)
       \/ Enroll(t, k)
       \/ Load(t, k.tenant, {k.agent})
  \/ \E t \in Threads, tn \in Tenants : Load(t, tn, Agents)
  \/ \E t \in Threads : Store(t)
  \/ Restart

Spec == Init /\ [][Next]_vars
-----------------------------------------------------------------------------
(* Properties.                                                             *)

\* Every variable keeps to its domain; a counter is a number, never a missing one.
TypeOK ==
  /\ holder \in [Agents -> Tenants \cup {Absent}]
  /\ counted \in [Agents -> Nat]
  /\ devices \in [Key -> Nat \cup {Absent}]
  /\ received \in [Key -> Nat]
  /\ asked \in [Threads -> Tenants \cup {Absent}]
  /\ loaded \in [Threads -> [Agents -> Nat \cup {Absent}]]

\* An agent id that one tenant uses.  The dictionary ignores the tenant, so nothing
\* is promised for an id that two of them use.
SoleTenant(k) == \A c \in Callers : c.agent = k.agent => c.tenant = k.tenant

AtMostReceived(k, n) == n = Absent \/ n <= received[k]

\* No sensor is credited with flows it did not report, whatever is lost: neither in
\* the table, nor in memory, nor by a request that still carries an old count.
NeverOvercounts ==
  \A k \in Callers : SoleTenant(k) =>
    /\ AtMostReceived(k, devices[k])
    /\ counted[k.agent] <= received[k]
    /\ \A t \in Threads : asked[t] = k.tenant => AtMostReceived(k, loaded[t][k.agent])

\* A sensor with flows on record never goes back to having none: not by a restart,
\* a late enrolment, or a heartbeat sent from an empty memory.
CountSurvives ==
  [][\A k \in Key : devices[k] \notin {Absent, 0} => devices'[k] \notin {Absent, 0}]_vars

\* With a database that answers, no restart and one request at a time, the table
\* has exactly what was reported: a flow is lost only to an overlap, a restart or an
\* outage.
CountIsExact ==
  \A k \in Callers : SoleTenant(k) =>
    /\ devices[k] # Absent => devices[k] = received[k]
    /\ devices[k] = Absent => received[k] = 0

\* "DB-backed when the configured database is available and falls back to local
\* memory only when the database is unavailable" (agent_registry_service.py:12): an
\* accepted batch is counted on top of what the table has.
CountedOnTop ==
  [][\A k \in Callers : SoleTenant(k) /\ received'[k] # received[k] =>
       devices'[k] + received[k] =
         (IF devices[k] = Absent THEN 0 ELSE devices[k]) + received'[k]]_vars
=============================================================================
