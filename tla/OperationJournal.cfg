SPECIFICATION FairSpec
CONSTANTS
  Callers = {c1, c2}
  Ops = {o1, o2}
  LegacyOps = {o1}
  Payloads = {p, q}
  NoRecord = NoRecord
  MaxCached = 1
  MaxFaults = 2
INVARIANTS
  TypeOK
  AtMostOnce
  AnswersAreTrue
  ConfirmedStays
  CacheIsBounded
PROPERTIES
  EveryCallIsAnswered
  ImplementsOperationsOnce
