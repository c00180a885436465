CONSTANTS
  Thread = {t1, t2}
  Transient = {x1, x2}
  Value = {v}
  None = None
  ExnClosures = 1

SPECIFICATION FairSpec

INVARIANTS
  TypeOK
  RunQueueExact
  EvaluatorExact
  WaitersExact
  BindingSound
  RefsResolve
  HoleFutureAgree
PROPERTIES
  SingleAssignment
  QueuedThreadsRun
  WaitersRun
