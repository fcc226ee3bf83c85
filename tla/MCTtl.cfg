SPECIFICATION TtlSpec
CONSTANTS
  c1 = c1
  ContractId <- MCContract
  AbiMax = 1
  Capacity = 2
  Day = 1
  InstanceBump = 3
  RegistryBump = 2
  EventBump = 2
  Floor = 0
INVARIANTS TtlTypeOK HorizonKept EventsWithinInstance
