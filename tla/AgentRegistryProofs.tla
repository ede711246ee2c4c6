------------------------- MODULE AgentRegistryProofs -------------------------
(***************************************************************************)
(* Theorems about AgentRegistry, for every set of threads, sensors and     *)
(* tenants.                                                                *)
(***************************************************************************)
EXTENDS AgentRegistry, TLAPS

\* A row exists, or is on its way to memory, only for an agent its tenant named.
RowsAreNamed ==
  /\ \A k \in Key : devices[k] # Absent => k \in Callers
  /\ \A t \in Threads, a \in Agents : loaded[t][a] # Absent =>
       asked[t] \in Tenants /\ [agent |-> a, tenant |-> asked[t]] \in Callers

IInv == TypeOK /\ RowsAreNamed /\ NeverOvercounts

-----------------------------------------------------------------------------
(* What the helpers return.                                                *)

LEMMA KeyShape ==
  /\ \A k \in Key : k.agent \in Agents /\ k.tenant \in Tenants
  /\ \A k \in Key : k = [agent |-> k.agent, tenant |-> k.tenant]
  /\ \A a \in Agents, tn \in Tenants :
       LET k == [agent |-> a, tenant |-> tn] IN k \in Key /\ k.agent = a /\ k.tenant = tn
BY DEF Key

\* An upsert leaves a row between the row it found and the record it was given.
LEMMA KeptBounds ==
  ASSUME TypeOK, NEW k \in Key, NEW n \in Nat
  PROVE  /\ Kept(k, n) \in Nat
         /\ \A bound \in Nat : n <= bound /\ (devices[k] = Absent \/ devices[k] <= bound)
                                 => Kept(k, n) <= bound
         /\ n # 0 => Kept(k, n) = n
         /\ devices[k] \notin {Absent, 0} => Kept(k, n) # 0
BY RegistryAssumption DEF TypeOK, Kept

-----------------------------------------------------------------------------
(* A step of a request under the lock: the upsert and the record.          *)

LEMMA HeldStep ==
  ASSUME IInv, NEW k \in Callers, NEW n \in Nat, NEW ok \in BOOLEAN, NEW told \in BOOLEAN,
         Upsert(k, n, ok), Hold(k, IF ok /\ told THEN Kept(k, n) ELSE n),
         UNCHANGED <<asked, loaded>>,
         received' \in [Key -> Nat],
         \A c \in Key : received[c] <= received'[c],
         SoleTenant(k) => n <= received'[k]
  PROVE  IInv'
<1> USE RegistryAssumption, KeyShape
<1>a. k \in Key
  OBVIOUS
<1>b. Kept(k, n) \in Nat
  BY <1>a, KeptBounds DEF IInv
<1>1. TypeOK'
  BY <1>a, <1>b DEF IInv, TypeOK, Upsert, Hold
<1>2. RowsAreNamed'
  BY <1>a, <1>b DEF IInv, TypeOK, RowsAreNamed, Upsert
<1>3. NeverOvercounts'
  <2> SUFFICES ASSUME NEW c \in Callers, SoleTenant(c)
               PROVE  /\ AtMostReceived(c, devices[c])'
                      /\ counted'[c.agent] <= received'[c]
                      /\ \A t \in Threads : asked'[t] = c.tenant =>
                           AtMostReceived(c, loaded[t][c.agent])'
    BY DEF NeverOvercounts, SoleTenant
  <2>1. received[c] \in Nat /\ received'[c] \in Nat /\ received[c] <= received'[c]
    BY DEF IInv, TypeOK
  <2>2. \A t \in Threads : asked'[t] = c.tenant => AtMostReceived(c, loaded[t][c.agent])'
    BY <2>1 DEF IInv, TypeOK, NeverOvercounts, AtMostReceived
  <2>3. CASE c = k
    <3>1. n <= received'[k] /\ Kept(k, n) <= received'[k]
      BY <1>a, <2>1, <2>3, KeptBounds DEF IInv, TypeOK, NeverOvercounts, AtMostReceived
    <3> QED
      BY <1>a, <1>b, <2>1, <2>2, <2>3, <3>1
         DEF IInv, TypeOK, NeverOvercounts, AtMostReceived, Upsert, Hold
  <2>4. CASE c # k
    <3>1. c.agent # k.agent
      BY <1>a, <2>4 DEF SoleTenant
    <3>2. devices'[c] = devices[c] /\ counted'[c.agent] = counted[c.agent]
      BY <1>a, <2>4, <3>1 DEF IInv, TypeOK, Upsert, Hold
    <3> QED
      BY <2>1, <2>2, <3>2 DEF IInv, TypeOK, NeverOvercounts, AtMostReceived
  <2> QED
    BY <2>3, <2>4
<1> QED
  BY <1>1, <1>2, <1>3 DEF IInv

LEMMA HeartbeatStep ==
  ASSUME IInv, NEW k \in Callers, Heartbeat(k)
  PROVE  IInv'
<1>1. k \in Key /\ counted[k.agent] \in Nat
  BY RegistryAssumption, KeyShape DEF IInv, TypeOK
<1>2. SoleTenant(k) => counted[k.agent] <= received[k]
  BY DEF IInv, NeverOvercounts
<1>3. received' \in [Key -> Nat] /\ \A c \in Key : received[c] <= received'[c]
  BY DEF Heartbeat, IInv, TypeOK
<1> QED
  BY <1>1, <1>2, <1>3, HeldStep DEF Heartbeat

LEMMA ObservationsStep ==
  ASSUME IInv, NEW k \in Callers, NEW size \in BatchSizes, Observations(k, size)
  PROVE  IInv'
<1>1. k \in Key /\ counted[k.agent] \in Nat /\ size \in Nat /\ counted[k.agent] + size \in Nat
  BY RegistryAssumption, KeyShape DEF IInv, TypeOK
<1>2. received' \in [Key -> Nat] /\ \A c \in Key : received[c] <= received'[c]
  BY <1>1 DEF Observations, IInv, TypeOK
<1>3. SoleTenant(k) => counted[k.agent] + size <= received'[k]
  BY <1>1 DEF Observations, IInv, TypeOK, NeverOvercounts
<1> QED
  BY <1>1, <1>2, <1>3, HeldStep DEF Observations

-----------------------------------------------------------------------------
(* The two halves of enroll, get and list.                                 *)

LEMMA EnrollStep ==
  ASSUME IInv, NEW t \in Threads, NEW k \in Callers, Enroll(t, k)
  PROVE  IInv'
<1> USE RegistryAssumption, KeyShape
<1>a. k \in Key /\ k.agent \in Agents /\ k.tenant \in Tenants
  OBVIOUS
<1>b. Kept(k, 0) \in Nat /\ (SoleTenant(k) => Kept(k, 0) <= received[k])
  <2>1. received[k] \in Nat /\ 0 <= received[k]
    BY <1>a DEF IInv, TypeOK
  <2>2. SoleTenant(k) => devices[k] = Absent \/ devices[k] <= received[k]
    BY DEF IInv, NeverOvercounts, AtMostReceived
  <2> QED
    BY <1>a, <2>1, <2>2, KeptBounds DEF IInv
<1>c. PICK n \in {0, Kept(k, 0)} :
        loaded' = [loaded EXCEPT ![t] = [Nothing EXCEPT ![k.agent] = n]]
  BY DEF Enroll
<1>d. /\ loaded'[t] = [Nothing EXCEPT ![k.agent] = n]
      /\ \A u \in Threads \ {t} : loaded'[u] = loaded[u] /\ asked'[u] = asked[u]
      /\ asked'[t] = k.tenant
      /\ n \in Nat
  <2>1. n \in Nat
    BY <1>b, <1>c
  <2>2. asked' = [asked EXCEPT ![t] = k.tenant]
    BY DEF Enroll
  <2>3. DOMAIN loaded = Threads /\ DOMAIN asked = Threads
    BY DEF IInv, TypeOK
  <2> QED
    BY <1>c, <2>1, <2>2, <2>3
<1>e. devices' \in {devices, [devices EXCEPT ![k] = Kept(k, 0)]}
      /\ UNCHANGED <<holder, counted, received>>
  BY DEF Enroll, Upsert
<1>1. TypeOK'
  BY <1>a, <1>b, <1>c, <1>d, <1>e DEF Enroll, Nothing, IInv, TypeOK
<1>2. RowsAreNamed'
  BY <1>a, <1>b, <1>d, <1>e DEF IInv, TypeOK, RowsAreNamed, Nothing
<1>3. NeverOvercounts'
  <2> SUFFICES ASSUME NEW c \in Callers, SoleTenant(c)
               PROVE  /\ AtMostReceived(c, devices[c])'
                      /\ counted'[c.agent] <= received'[c]
                      /\ \A u \in Threads : asked'[u] = c.tenant =>
                           AtMostReceived(c, loaded[u][c.agent])'
    BY DEF NeverOvercounts, SoleTenant
  <2>1. AtMostReceived(c, devices[c])'
    <3>1. AtMostReceived(c, devices[c])
      BY DEF IInv, NeverOvercounts
    <3>2. c \in Key /\ k \in Key /\ DOMAIN devices = Key
      BY <1>a DEF IInv, TypeOK
    <3>3. devices'[c] = devices[c] \/ (c = k /\ devices'[c] = Kept(k, 0))
      BY <1>e, <3>2
    <3>4. c = k => AtMostReceived(k, Kept(k, 0))
      BY <1>b DEF AtMostReceived
    <3> QED
      BY <1>e, <3>1, <3>3, <3>4 DEF AtMostReceived
  <2>2. counted'[c.agent] <= received'[c]
    BY <1>e DEF IInv, NeverOvercounts
  <2>3. ASSUME NEW u \in Threads, asked'[u] = c.tenant, u # t
        PROVE  AtMostReceived(c, loaded[u][c.agent])'
    BY <1>d, <1>e, <2>3 DEF IInv, NeverOvercounts, AtMostReceived
  <2>4. ASSUME asked'[t] = c.tenant
        PROVE  AtMostReceived(c, loaded[t][c.agent])'
    <3>1. CASE c.agent = k.agent
      <4>1. c = k
        <5>1. c \in Key /\ c.tenant = k.tenant
          BY <1>d, <2>4
        <5> QED
          BY <1>a, <3>1, <5>1
      <4> QED
        BY <1>a, <1>b, <1>d, <1>e, <4>1 DEF AtMostReceived, Nothing, IInv, TypeOK
    <3>2. CASE c.agent # k.agent
      BY <1>a, <1>d, <3>2 DEF AtMostReceived, Nothing
    <3> QED
      BY <3>1, <3>2
  <2> QED
    BY <2>1, <2>2, <2>3, <2>4
<1> QED
  BY <1>1, <1>2, <1>3 DEF IInv

LEMMA LoadStep ==
  ASSUME IInv, NEW t \in Threads, NEW tn \in Tenants, NEW agents, Load(t, tn, agents)
  PROVE  IInv'
<1> USE RegistryAssumption, KeyShape
<1>a. /\ \A a \in Agents : loaded'[t][a] \in {Absent, devices[[agent |-> a, tenant |-> tn]]}
      /\ loaded' \in [Threads -> [Agents -> Nat \cup {Absent}]]
      /\ \A u \in Threads \ {t} : loaded'[u] = loaded[u] /\ asked'[u] = asked[u]
      /\ asked' \in [Threads -> Tenants \cup {Absent}]
      /\ asked'[t] = tn
      /\ UNCHANGED <<holder, counted, devices, received>>
  BY DEF Load, IInv, TypeOK
<1>1. TypeOK'
  BY <1>a DEF IInv, TypeOK
<1>2. RowsAreNamed'
  BY <1>a DEF IInv, RowsAreNamed
<1>3. NeverOvercounts'
  <2> SUFFICES ASSUME NEW c \in Callers, SoleTenant(c), NEW u \in Threads, asked'[u] = c.tenant
               PROVE  AtMostReceived(c, loaded[u][c.agent])'
    BY <1>a DEF NeverOvercounts, SoleTenant, AtMostReceived, IInv
  <2>1. CASE u # t
    BY <1>a, <2>1 DEF IInv, NeverOvercounts, AtMostReceived
  <2>2. CASE u = t
    <3>1. c = [agent |-> c.agent, tenant |-> tn] /\ c.agent \in Agents
      BY <1>a, <2>2
    <3> QED
      BY <1>a, <2>2, <3>1 DEF IInv, NeverOvercounts, AtMostReceived
  <2> QED
    BY <2>1, <2>2
<1> QED
  BY <1>1, <1>2, <1>3 DEF IInv

LEMMA StoreStep ==
  ASSUME IInv, NEW t \in Threads, Store(t)
  PROVE  IInv'
<1> USE RegistryAssumption, KeyShape
<1>a. /\ loaded' \in [Threads -> [Agents -> Nat \cup {Absent}]]
      /\ \A u \in Threads \ {t} : loaded'[u] = loaded[u] /\ asked'[u] = asked[u]
      /\ \A a \in Agents : loaded'[t][a] = Absent
      /\ asked' \in [Threads -> Tenants \cup {Absent}]
      /\ asked'[t] = Absent
      /\ UNCHANGED <<devices, received>>
  BY DEF Store, Nothing, IInv, TypeOK
<1>1. TypeOK'
  BY <1>a DEF Store, IInv, TypeOK
<1>2. RowsAreNamed'
  BY <1>a DEF IInv, RowsAreNamed
<1>3. NeverOvercounts'
  <2> SUFFICES ASSUME NEW c \in Callers, SoleTenant(c)
               PROVE  /\ AtMostReceived(c, devices[c])'
                      /\ counted'[c.agent] <= received'[c]
                      /\ \A u \in Threads : asked'[u] = c.tenant =>
                           AtMostReceived(c, loaded[u][c.agent])'
    BY DEF NeverOvercounts, SoleTenant
  <2>1. AtMostReceived(c, devices[c])'
    BY <1>a DEF IInv, NeverOvercounts, AtMostReceived
  <2>2. counted'[c.agent] <= received'[c]
    <3>1. CASE loaded[t][c.agent] = Absent
      BY <1>a, <3>1 DEF Store, IInv, NeverOvercounts
    <3>2. CASE loaded[t][c.agent] # Absent
      <4>1. asked[t] = c.tenant
        <5> DEFINE d == [agent |-> c.agent, tenant |-> asked[t]]
        <5>1. c.agent \in Agents
          OBVIOUS
        <5>2. asked[t] \in Tenants /\ d \in Callers
          BY <3>2, <5>1 DEF IInv, RowsAreNamed
        <5>3. d.agent = c.agent /\ d.tenant = asked[t]
          OBVIOUS
        <5> HIDE DEF d
        <5> QED
          BY <5>2, <5>3 DEF SoleTenant
      <4> QED
        BY <1>a, <3>2, <4>1 DEF Store, IInv, NeverOvercounts, AtMostReceived
    <3> QED
      BY <3>1, <3>2
  <2>3. \A u \in Threads : asked'[u] = c.tenant => AtMostReceived(c, loaded[u][c.agent])'
    BY <1>a DEF IInv, NeverOvercounts, AtMostReceived
  <2> QED
    BY <2>1, <2>2, <2>3
<1> QED
  BY <1>1, <1>2, <1>3 DEF IInv

-----------------------------------------------------------------------------
(* The theorems.                                                           *)

LEMMA InitIInv == Init => IInv
BY RegistryAssumption, KeyShape
   DEF Init, IInv, TypeOK, RowsAreNamed, NeverOvercounts, AtMostReceived, Nothing

LEMMA NextIInv == IInv /\ [Next]_vars => IInv'
<1> SUFFICES ASSUME IInv, [Next]_vars
             PROVE  IInv'
  OBVIOUS
<1> USE RegistryAssumption, KeyShape
<1>1. CASE Restart
  BY <1>1 DEF Restart, IInv, TypeOK, RowsAreNamed, NeverOvercounts, AtMostReceived, Nothing,
              SoleTenant
<1>2. CASE UNCHANGED vars
  BY <1>2 DEF vars, IInv, TypeOK, RowsAreNamed, NeverOvercounts, AtMostReceived, SoleTenant
<1>3. \A k \in Callers : k \in Key /\ k.tenant \in Tenants
  OBVIOUS
<1> QED
  BY <1>1, <1>2, <1>3, HeartbeatStep, ObservationsStep, EnrollStep, LoadStep, StoreStep
     DEF Next

\* The inductive invariant holds in every reachable state.
THEOREM Invariance == Spec => []IInv
BY InitIInv, NextIInv, PTL DEF Spec

\* Type correctness of the registry.
THEOREM TypeCorrect == Spec => []TypeOK
<1>1. IInv => TypeOK
  BY DEF IInv
<1> QED
  BY <1>1, Invariance, PTL

\* No sensor is credited with flows it did not report.
THEOREM CreditIsEarned == Spec => []NeverOvercounts
<1>1. IInv => NeverOvercounts
  BY DEF IInv
<1> QED
  BY <1>1, Invariance, PTL

\* A row with flows on record never loses the last of them.
THEOREM CountsSurvive == Spec => CountSurvives
<1> DEFINE A == \A k \in Key : devices[k] \notin {Absent, 0} => devices'[k] \notin {Absent, 0}
<1>1. IInv /\ [Next]_vars => [A]_vars
  <2> SUFFICES ASSUME IInv, Next
               PROVE  A
    OBVIOUS
  <2> USE RegistryAssumption, KeyShape DEF IInv, TypeOK
  <2>1. ASSUME NEW k \in Callers, NEW n \in Nat, NEW ok \in BOOLEAN, Upsert(k, n, ok)
        PROVE  A
    BY <2>1, KeptBounds DEF Upsert
  <2>2. ASSUME NEW k \in Callers,
               Heartbeat(k) \/ \E size \in BatchSizes : Observations(k, size)
        PROVE  A
    <3>1. PICK n \in Nat, ok \in BOOLEAN : Upsert(k, n, ok)
      <4>1. counted[k.agent] \in Nat /\ \A size \in BatchSizes : counted[k.agent] + size \in Nat
        OBVIOUS
      <4> QED
        BY <2>2, <4>1 DEF Heartbeat, Observations
    <3> QED
      BY <2>1, <3>1
  <2>3. ASSUME NEW k \in Callers, NEW t \in Threads, Enroll(t, k)
        PROVE  A
    <3>1. PICK n \in Nat, ok \in BOOLEAN : Upsert(k, n, ok)
      <4>1. 0 \in Nat
        OBVIOUS
      <4>2. \E ok \in BOOLEAN : Upsert(k, 0, ok)
        BY <2>3 DEF Enroll
      <4> QED
        BY ONLY <4>1, <4>2, Zenon
    <3> QED
      BY <2>1, <3>1
  <2>4. CASE UNCHANGED devices
    BY <2>4
  <2> QED
    BY <2>2, <2>3, <2>4 DEF Next, Load, Store, Restart
<1> QED
  BY <1>1, Invariance, PTL DEF Spec, CountSurvives

-----------------------------------------------------------------------------
(* When the counters are exact.                                            *)

Quiet ==
  /\ \A t, u \in Threads : t = u
  /\ DbOutcomes = {TRUE}
  /\ ~Restarts

\* Table, memory and the request under way agree on what was reported.
ExactInv ==
  \A k \in Callers : SoleTenant(k) =>
    /\ devices[k] \in {Absent, received[k]}
    /\ devices[k] = Absent => received[k] = 0
    /\ counted[k.agent] = received[k]
    /\ \A t \in Threads : asked[t] = k.tenant => loaded[t][k.agent] \in {Absent, received[k]}

LEMMA ExactHeldStep ==
  ASSUME IInv, ExactInv, NEW k \in Callers, NEW n \in Nat,
         Upsert(k, n, TRUE), Hold(k, Kept(k, n)),
         UNCHANGED <<asked, loaded>>,
         received' \in [Key -> Nat],
         \A c \in Key \ {k} : received'[c] = received[c],
         received[k] <= received'[k],
         received'[k] # received[k] => \A t \in Threads : asked[t] = Absent,
         SoleTenant(k) => received'[k] = n
  PROVE  ExactInv'
<1> USE RegistryAssumption, KeyShape
<1> SUFFICES ASSUME NEW c \in Callers, SoleTenant(c)
             PROVE  /\ devices'[c] \in {Absent, received'[c]}
                    /\ devices'[c] = Absent => received'[c] = 0
                    /\ counted'[c.agent] = received'[c]
                    /\ \A t \in Threads : asked'[t] = c.tenant =>
                         loaded'[t][c.agent] \in {Absent, received'[c]}
  BY DEF ExactInv, SoleTenant
<1>1. CASE c = k
  <2>1. Kept(k, n) = n
    <3>1. n = 0 => received[k] = 0
      BY <1>1 DEF IInv, TypeOK
    <3> QED
      BY <1>1, <3>1 DEF Kept, ExactInv
  <2>2. c.tenant # Absent
    OBVIOUS
  <2> QED
    BY <1>1, <2>1, <2>2 DEF ExactInv, IInv, TypeOK, Upsert, Hold
<1>2. CASE c # k
  <2>1. c.agent # k.agent
    BY <1>2 DEF SoleTenant
  <2>2. devices'[c] = devices[c] /\ counted'[c.agent] = counted[c.agent]
    BY <1>2, <2>1 DEF IInv, TypeOK, Upsert, Hold
  <2>3. received'[c] = received[c]
    BY <1>2
  <2> QED
    BY <2>2, <2>3 DEF ExactInv
<1> QED
  BY <1>1, <1>2

LEMMA ExactStep ==
  ASSUME Quiet, IInv, ExactInv, [Next]_vars
  PROVE  ExactInv'
<1> USE RegistryAssumption, KeyShape
<1>a. \A ok \in BOOLEAN : DbCall(ok) => ok = TRUE
  BY DEF DbCall, Quiet
<1>1. ASSUME NEW t \in Threads, NEW k \in Callers, asked[t] = Absent, Heartbeat(k)
      PROVE  ExactInv'
  <2>1. counted[k.agent] \in Nat /\ received' = received
    BY <1>1 DEF IInv, TypeOK, Heartbeat
  <2>2. Upsert(k, counted[k.agent], TRUE) /\ Hold(k, Kept(k, counted[k.agent]))
    BY <1>1, <1>a DEF Heartbeat
  <2> QED
    <3>1. UNCHANGED <<asked, loaded>>
      BY <1>1 DEF Heartbeat
    <3>2. received' \in [Key -> Nat] /\ received[k] <= received'[k]
      BY <2>1 DEF IInv, TypeOK
    <3>3. SoleTenant(k) => received'[k] = counted[k.agent]
      BY <2>1 DEF ExactInv
    <3> QED
      BY <2>1, <2>2, <3>1, <3>2, <3>3, ExactHeldStep
<1>2. ASSUME NEW t \in Threads, NEW k \in Callers, NEW size \in BatchSizes, asked[t] = Absent,
             Observations(k, size)
      PROVE  ExactInv'
  <2> DEFINE n == counted[k.agent] + size
  <2>1. k \in Key /\ n \in Nat /\ received[k] \in Nat /\ size \in Nat
    BY DEF IInv, TypeOK
  <2>2. Upsert(k, n, TRUE) /\ Hold(k, Kept(k, n))
    BY <1>2, <1>a DEF Observations
  <2>3. /\ received' \in [Key -> Nat]
        /\ \A c \in Key \ {k} : received'[c] = received[c]
        /\ received'[k] = received[k] + size /\ received[k] <= received'[k]
    BY <1>2, <2>1 DEF Observations, IInv, TypeOK
  <2>4. SoleTenant(k) => received'[k] = n
    BY <2>3 DEF ExactInv
  <2>5. \A u \in Threads : asked[u] = Absent
    BY <1>2 DEF Quiet
  <2>6. UNCHANGED <<asked, loaded>>
    BY <1>2 DEF Observations
  <2> QED
    BY <2>1, <2>2, <2>3, <2>4, <2>5, <2>6, ExactHeldStep
<1>3. ASSUME NEW t \in Threads, NEW k \in Callers, Enroll(t, k)
      PROVE  ExactInv'
  <2>1. Upsert(k, 0, TRUE) /\ loaded' = [loaded EXCEPT ![t] = [Nothing EXCEPT ![k.agent] = Kept(k, 0)]]
    BY <1>3, <1>a DEF Enroll
  <2>2. UNCHANGED <<holder, counted, received>> /\ asked'[t] = k.tenant
    BY <1>3 DEF Enroll, IInv, TypeOK
  <2>3. Kept(k, 0) = IF devices[k] = Absent THEN 0 ELSE devices[k]
    BY DEF Kept
  <2>4. \A u \in Threads : u = t
    BY DEF Quiet
  <2> SUFFICES ASSUME NEW c \in Callers, SoleTenant(c)
               PROVE  /\ devices'[c] \in {Absent, received[c]}
                      /\ devices'[c] = Absent => received[c] = 0
                      /\ asked'[t] = c.tenant =>
                           loaded'[t][c.agent] \in {Absent, received[c]}
    BY <2>2, <2>4 DEF ExactInv, SoleTenant
  <2>5. CASE c = k
    BY <2>1, <2>3, <2>5 DEF ExactInv, IInv, TypeOK, Upsert, Nothing
  <2>6. CASE c # k
    <3>1. c.agent # k.agent
      BY <2>6 DEF SoleTenant
    <3> QED
      BY <2>1, <2>6, <3>1 DEF ExactInv, IInv, TypeOK, Upsert, Nothing
  <2> QED
    BY <2>5, <2>6
<1>4. ASSUME NEW t \in Threads, NEW tn \in Tenants, NEW agents, Load(t, tn, agents)
      PROVE  ExactInv'
  <2>1. /\ \A a \in Agents : loaded'[t][a] \in {Absent, devices[[agent |-> a, tenant |-> tn]]}
        /\ asked'[t] = tn
        /\ UNCHANGED <<holder, counted, devices, received>>
    BY <1>4 DEF Load, IInv, TypeOK
  <2>2. \A u \in Threads : u = t
    BY DEF Quiet
  <2>3. ASSUME NEW c \in Callers, SoleTenant(c), c.tenant = tn
        PROVE  loaded'[t][c.agent] \in {Absent, received[c]}
    <3>1. c.agent \in Agents /\ c = [agent |-> c.agent, tenant |-> tn]
      BY <2>3
    <3>2. devices[c] \in {Absent, received[c]}
      BY <2>3 DEF ExactInv
    <3> QED
      BY <2>1, <3>1, <3>2
  <2> QED
    BY <2>1, <2>2, <2>3 DEF ExactInv, SoleTenant
<1>5. ASSUME NEW t \in Threads, Store(t)
      PROVE  ExactInv'
  <2>1. \A u \in Threads : asked'[u] = Absent
    BY <1>5 DEF Store, Quiet, IInv, TypeOK
  <2>2. UNCHANGED <<devices, received>>
    BY <1>5 DEF Store
  <2>3. ASSUME NEW c \in Callers, SoleTenant(c)
        PROVE  counted'[c.agent] = received[c]
    <3>1. CASE loaded[t][c.agent] = Absent
      BY <1>5, <2>3, <3>1 DEF Store, ExactInv
    <3>2. CASE loaded[t][c.agent] # Absent
      <4> DEFINE d == [agent |-> c.agent, tenant |-> asked[t]]
      <4>1. asked[t] \in Tenants /\ d \in Callers
        BY <3>2 DEF IInv, RowsAreNamed
      <4>2. d.agent = c.agent /\ d.tenant = asked[t]
        OBVIOUS
      <4> HIDE DEF d
      <4>3. asked[t] = c.tenant
        BY <2>3, <4>1, <4>2 DEF SoleTenant
      <4> QED
        BY <1>5, <2>3, <3>2, <4>3 DEF Store, ExactInv
    <3> QED
      BY <3>1, <3>2
  <2> QED
    BY <2>1, <2>2, <2>3 DEF ExactInv, SoleTenant
<1>6. CASE Restart
  BY <1>6 DEF Restart, Quiet
<1>7. CASE UNCHANGED vars
  BY <1>7 DEF vars, ExactInv, SoleTenant
<1>8. \A k \in Callers : k.tenant \in Tenants
  OBVIOUS
<1> QED
  BY <1>1, <1>2, <1>3, <1>4, <1>5, <1>6, <1>7, <1>8 DEF Next

\* Served one request at a time, with a database that answers and a process that
\* stays up, the registry counts every flow once.
THEOREM QuietCountsAreExact == Quiet /\ Spec => []CountIsExact
<1>1. Init => ExactInv
  BY RegistryAssumption, KeyShape DEF Init, ExactInv, Nothing
<1>2. Quiet /\ IInv /\ ExactInv /\ [Next]_vars => ExactInv'
  BY ExactStep
<1>3. ExactInv => CountIsExact
  BY DEF ExactInv, CountIsExact
<1>4. CASE Quiet
  <2>1. IInv /\ ExactInv /\ [Next]_vars => ExactInv'
    BY <1>2, <1>4
  <2> QED
    BY <1>1, <1>3, <2>1, Invariance, PTL DEF Spec
<1> QED
  BY <1>4
=============================================================================
