SPECIFICATION Spec
CONSTANTS
  ThreadOrder <- MCOrder
  AccTasks <- MCAccTasks
  Traces <- MCTraces
  GenerateFirstIdle = TRUE
  InitBarrier = TRUE
  MissesThreshold = 0
INVARIANTS CallsKept TimeConserved
PROPERTY Translated
CHECK_DEADLOCK FALSE
