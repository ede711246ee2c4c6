----------------------------- MODULE MCEventStore -----------------------------
(* Small instance of EventStore for TLC. *)
EXTENDS EventStore, TLC

CONSTANTS t1, t2, ja, jb, a1, b1, a2, acme, globex

\* One batch with an attack and a benign flow for one tenant, one for another.
MCJobOf == [e \in Events |-> IF e = a2 THEN jb ELSE ja]
MCTenantOf == [j \in Jobs |-> IF j = jb THEN globex ELSE acme]

\* What callers name: each event by its tenant, and one by the wrong tenant.

MCTargets ==
  {[event |-> a1, tenant |-> acme], [event |-> b1, tenant |-> acme],
   [event |-> a1, tenant |-> globex]}
MCReviewed == {[event |-> a1, tenant |-> acme]}

ThreadSymmetry == Permutations(Threads)
=============================================================================
