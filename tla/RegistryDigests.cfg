SPECIFICATION EngineSpec
CONSTANTS
  r1 = r1  r2 = r2  r3 = r3
  k1 = k1  demo = demo
  d1 = d1  d2 = d2  seeded = seeded
  Absent = Absent
  NoStore = NoStore
  Requests = {r1, r2, r3}
  Keys = {k1, demo}
  Digests = {d1, d2, seeded}
  DemoKey = demo
  DemoDigest = seeded
  Calls <- PublishCalls
  Loads = {"any"}
  MaxCrashes <- NoKill
  Modes <- EachMode
  MaxLists <- ListBeside
SYMMETRY Interchangeable
INVARIANTS OneDigest
CHECK_DEADLOCK FALSE
