\* A startup and a readiness probe, a container that is restarted once.
SPECIFICATION Spec
CONSTANTS
  Probes <- TwoProbes
  SuccessThreshold <- OneSuccess
  FailureThreshold <- StartupTwice
  UpdatesCap = 3
  MaxID = 2
  MaxAdds = 1
INVARIANTS
  
  ResultsHaveWorkers
CHECK_DEADLOCK FALSE
