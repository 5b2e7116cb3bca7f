\* The installer gives up while the service drains (a finding).
SPECIFICATION FairSpec
CONSTANTS
  v1 = v1
  v2 = v2
  Views = {v1, v2}
  MaxInstallers = 1
  MaxEdits = 0
  MaxGeneration = 1
  MaxEpoch = 0
  MaxChoices = 0
  MaxFaults = 0
  Openings <- OneInstaller
PROPERTY RetiredServiceCloses
\* A service that has ended, with every installer done, takes no step.
CHECK_DEADLOCK FALSE
