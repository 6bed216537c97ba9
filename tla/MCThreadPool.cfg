SPECIFICATION Spec
CONSTANTS
  a = a
  b = b
  c = c
  Jobs = {a, b, c}
  NWorkers = 2
  Serial = {b, c}
  MayAsk = {a}
  AddressOf <- MCAddressOf
  NoJob = NoJob
INVARIANTS
  JobsAreTracked
  SerialJobsAlone
PROPERTIES
  AbortedJobsEndAborted
  ImplementsTaskPool

CHECK_DEADLOCK FALSE
