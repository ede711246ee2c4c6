SPECIFICATION Spec
CONSTANTS
  t1 = t1 t2 = t2
  s1 = s1 s2 = s2
  acme = acme globex = globex
  Threads = {t1, t2}
  Tenants = {acme, globex}
  Agents = {s1, s2}
  Callers <- MCCallers
  BatchSizes = {1}
  MaxReceived = 2
  DbOutcomes = {TRUE, FALSE}
  Restarts = TRUE
  Absent = Absent
SYMMETRY ThreadSymmetry
INVARIANTS TypeOK NeverOvercounts
PROPERTIES CountSurvives
