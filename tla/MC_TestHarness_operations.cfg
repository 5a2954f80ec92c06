CONSTANTS
  Tests <- MCOperationTests
  BasePort = 60000
  Occupied = {}
  External = External
  NoServer = NoServer
  NoHolder = NoHolder
  NoWallet = NoWallet
SPECIFICATION Spec
 
 
INVARIANT FailsOnlyUnanswered
 
