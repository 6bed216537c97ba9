SPECIFICATION TasksSpec
CONSTANTS
  a = a
  b = b
  c = c
  t1 = t1
  t2 = t2
  Jobs = {a, b, c}
  NWorkers = 2
  Serial = {}
  MayAsk = {a}
  AddressOf <- MCAddressOf
  NoJob = NoJob
  Tasks = {t1, t2}
  TaskOf <- MCTaskOf
INVARIANTS
  OnlyWholePackages
  NoDanglingJob
  FailedJobsLeaveNoFile
  FailureStopsSiblings
CHECK_DEADLOCK FALSE
