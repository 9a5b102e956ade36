SPECIFICATION Spec
CONSTANTS
  Slots = {"s1", "s2"}
  Fds = {"f1", "f2"}
  NoFd = "no fd"
  NoSlot = "no slot"
  Sizes <- TwoSizes
  MaxRequests = 3
INVARIANTS TypeOK OneOwner PoolClean LeftIsTrue OwnBytes
CHECK_DEADLOCK FALSE
