\* Two sessions on ports of their own, started and ended at any moment, and
\* three with one cleanup at a time.
SPECIFICATION Spec
CONSTANTS
  s1 = s1
  s2 = s2
  s3 = s3
  port8090 = port8090
  app = app
  core = core
  odd = odd
  Listener = Listener
  Orig = Orig
  None = None
  Sessions <- ThreeSessions
  Ports <- ThreeSessions
  PortOf <- OnPortOfItsOwn
  Classes <- OnlyApp
  CoreClasses = {}
  Unwritable = {}
  Patient = FALSE
  KillsDuringAttach = TRUE
INVARIANTS
  KeepsEarlierBytes
  OverlapInv
CONSTRAINT TwoOrThree
SYMMETRY SessionSymmetry
