SPECIFICATION FairSpec
CONSTANTS
  v1 = v1
  v2 = v2
  Views = {v1, v2}
  MaxInstallers = 2
  MaxEdits = 1
  MaxGeneration = 2
  MaxEpoch = 1
  MaxChoices = 1
  MaxFaults = 1
  Openings <- ViewsAndInstallers
INVARIANTS
  TypeOK
  
  AdmissionFollowsTheAttempt
PROPERTIES
  CommitIsCurrent
  ViewsCloseProtected
  FrozenViewsAreFreed
\* A service that has ended, with every installer done, takes no step.
CHECK_DEADLOCK FALSE
