SPECIFICATION Spec
CONSTANTS
  Slots = {"s1", "s2"}
  Fds = {"f1", "f2"}
  NoFd = "no fd"
  NoSlot = "no slot"
  Sizes <- TwoHeads
  MaxRequests = 3
INVARIANTS RelayedInFull
CHECK_DEADLOCK FALSE
