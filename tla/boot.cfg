CONSTANTS
  c1 = c1
  c2 = c2
  Shells <- MCShells
  Procs <- MCProcs
  Migrators <- MCShells
  Registered <- MCRegistered
  Kinds = {"start", "stop", "restart", "migrate", "drop"}
  KindsUp = {"start", "stop", "restart"}
  MaxVersion = 2
  MaxCrashes = 1
  Beans = 2
  MaxDbFaults = 1
SPECIFICATION Spec
INVARIANTS TypeOK SettingsSurvive MigratesAgain StartedOnce StoppedAreGone
PROPERTIES LoadSeesLatest MigratedIsComplete StopEnds
CHECK_DEADLOCK FALSE
