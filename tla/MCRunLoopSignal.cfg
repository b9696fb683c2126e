SPECIFICATION RunSpec
\* Run returns and the process ends.
CHECK_DEADLOCK FALSE
CONSTANTS
  ServeThread = serve
  RunThread = run
  Closers = {run}
  StartupHooks = 2
  MaxServes = 1
  MaxHooks = 2
  MaxInflight = 2
  NoServer = nil
PROPERTY
  EverySignalEndsRun
