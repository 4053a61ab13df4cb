CONSTANTS
  local = local
  remote = remote
  m1 = m1
  m2 = m2
  t1 = t1
  t2 = t2
  Users <- MCUsers
  Local = local
  Messages <- MCMessages
  From <- MCFrom
  Created <- MCCreated
  Threads <- MCThreads
  HistoryCap = 1
  MaxCalls = 3
  MaxFaults = 1
  None = None
SPECIFICATION Spec
INVARIANTS OneNode SentIsKept
PROPERTIES StopReturns
CHECK_DEADLOCK FALSE
