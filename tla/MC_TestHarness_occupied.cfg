CONSTANTS
  Tests <- MCLifecycleTests
  BasePort = 60000
  Occupied = {60000}
  External = External
  NoServer = NoServer
  NoHolder = NoHolder
  NoWallet = NoWallet
SPECIFICATION Spec
CHECK_DEADLOCK FALSE
INVARIANT OwnServer
