SPECIFICATION Spec
CONSTANTS
  u1 = u1
  u2 = u2
  j1 = j1
  Users = {u1}
  Jobs = {j1}
  MaxRuns = 1
  Crons = {"daily"}
  BadCrons = {}
  NoCron = NoCron
  NoUser = NoUser
  NoJob = NoJob
  Faults = {}
PROPERTIES VerdictIsDefinitive
