\* A second Boot started before the first session is cleaned up.
SPECIFICATION FairSpec
CONSTANTS
  s1 = s1
  s2 = s2
  s3 = s3
  port8090 = port8090
  app = app
  core = core
  odd = odd
  Listener = Listener
  Orig = Orig
  None = None
  Sessions <- TwoSessions
  Ports <- DefaultPort
  PortOf <- OnDefaultPort
  Classes <- OnlyApp
  CoreClasses = {}
  Unwritable = {}
  Patient = FALSE
  KillsDuringAttach = FALSE
PROPERTY AgentWorkStops
