\* One session whose Boot may be ended while it attaches.
SPECIFICATION FairSpec
CONSTANTS
  s1 = s1
  s2 = s2
  s3 = s3
  port8090 = port8090
  app = app
  core = core
  odd = odd
  Listener = Listener
  Orig = Orig
  None = None
  Sessions <- OneSession
  Ports <- DefaultPort
  PortOf <- OnDefaultPort
  Classes <- OnlyApp
  CoreClasses = {}
  Unwritable = {}
  Patient = TRUE
  KillsDuringAttach = TRUE
PROPERTY AgentWorkStops
