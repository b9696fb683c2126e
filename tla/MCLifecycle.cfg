SPECIFICATION Spec
CONSTANTS
  ServeThread = serve
  Closers = {s1, s2}
  StartupHooks = 1
  MaxServes = 2
  MaxHooks = 2
  MaxInflight = 1
  NoServer = nil
INVARIANTS
  NoLostWakeup
  HooksRunOnce
  ShutdownAfterStartup
PROPERTIES
  RegisteredHooksRun
  ShutdownEndsServe
