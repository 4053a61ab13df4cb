CONSTANTS
  e1 = e1
  e2 = e2
  junk = junk
  Envelopes <- MCEnvelopes
  Opens <- MCOpens
  SizeOf <- MCSizeOf
  Skews <- MCSkews
  TTL = 1
  MaxPerRecipient = 2
  Limit = 2
  MaxFrame = 3
  MaxTime = 2
  MaxFaults = 2
SPECIFICATION Spec
INVARIANTS StoreSound
PROPERTIES Delivered
