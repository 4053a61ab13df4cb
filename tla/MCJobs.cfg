CONSTANTS
  deploy = deploy
  remove = remove
  Jobs <- MCJobs
  KindOf <- MCKindOf
  None = None
  MaxFaults = 2
SPECIFICATION Spec
INVARIANT ControlPlane
PROPERTIES JobsEnd InventoryConverges
