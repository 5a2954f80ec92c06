CONSTANTS
  Tests <- MCLifecycleTests
  BasePort = 60000
  Occupied = {}
  External = External
  NoServer = NoServer
  NoHolder = NoHolder
  NoWallet = NoWallet
SPECIFICATION Spec
INVARIANT ExpectedErrorsAnswered
