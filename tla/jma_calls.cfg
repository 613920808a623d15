\* Two sessions one after the other, two threads that call once each.
SPECIFICATION SystemSpec
CONSTANTS
  s1 = s1
  s2 = s2
  port8090 = port8090
  app = app
  run = run
  help = help
  t1 = t1
  t2 = t2
  Listener = Listener
  Orig = Orig
  None = None
  Sessions = {s1, s2}
  Ports = {port8090}
  PortOf <- OnDefaultPort
  Classes = {app}
  CoreClasses = {}
  Unwritable = {}
  Patient = TRUE
  KillsDuringAttach = FALSE
  Names = {run, help}
  Methods <- TwoMethods
  EnterOf <- EnterMethods
  Threads = {t1, t2}
  MaxCalls = 1
INVARIANTS
  SystemTypeOK
  ShownOnce
PROPERTIES
  AttachedCallsShown
  LedgerSpec
SYMMETRY ThreadSymmetry
