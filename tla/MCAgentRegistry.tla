--------------------------- MODULE MCAgentRegistry ---------------------------
(* Small instance of AgentRegistry for TLC. *)
EXTENDS AgentRegistry, TLC

CONSTANTS t1, t2, s1, s2, acme, globex

\* s1 reports for one tenant; two tenants have given their sensor the id s2.
MCCallers == {[agent |-> s1, tenant |-> acme], [agent |-> s2, tenant |-> acme],
              [agent |-> s2, tenant |-> globex]}

MCOwnIds == {[agent |-> s1, tenant |-> acme], [agent |-> s2, tenant |-> globex]}

ThreadSymmetry == Permutations(Threads)
=============================================================================
