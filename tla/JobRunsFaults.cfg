SPECIFICATION Spec
CONSTANTS
  u1 = u1
  u2 = u2
  j1 = j1
  Users = {u1, u2}
  Jobs = {j1}
  MaxRuns = 1
  Crons = {"daily", "hourly"}
  BadCrons = {"bad"}
  NoCron = NoCron
  NoUser = NoUser
  NoJob = NoJob
  Faults = {"db", "crash"}
SYMMETRY MCSymmetry
INVARIANTS TypeOK  SuccessHasJob
PROPERTIES ImplementsLedger
