SPECIFICATION Spec
CONSTANTS
  r1 = r1  r2 = r2  r3 = r3  r4 = r4
  Requests = {r1, r2, r3, r4}
  Calls <- AnyCall
  LongNamed = {r2}
  NoBlock = NoBlock
  Loads = {"apart", "any"}
  MaxCrashes <- OneKill
INVARIANTS TypeOK DisjointStores PortsFixed Kept DedicatedPorts
CHECK_DEADLOCK FALSE
