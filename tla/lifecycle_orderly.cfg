\* Two sessions one after the other, each ended only after its attach.
SPECIFICATION FairSpec
CONSTANTS
  s1 = s1
  s2 = s2
  s3 = s3
  port8090 = port8090
  app = app
  core = core
  odd = odd
  Listener = Listener
  Orig = Orig
  None = None
  Sessions <- TwoSessions
  Ports <- DefaultPort
  PortOf <- OnDefaultPort
  Classes <- AppCoreAndOdd
  CoreClasses <- OnlyCore
  Unwritable <- OnlyOdd
  Patient = TRUE
  KillsDuringAttach = FALSE
INVARIANTS
  TypeOK
  AttachedIsInstrumented
  PatientInv
  OrderlyInv
PROPERTIES
  AgentWorkStops
  PresenceSpec
