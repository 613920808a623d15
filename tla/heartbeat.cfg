\* One tick is 100 ms: an interval of 8 s, sleeps of 1 s that may be 100 ms late.
SPECIFICATION Spec
CONSTANTS
  Interval = 80
  Second = 10
  Jitter = 1
  Latency = 1
  Setup = 60
INVARIANTS
  NoSpuriousExit
  NoticedInTime
  Inv
