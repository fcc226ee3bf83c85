SPECIFICATION ExplorerSpec
SYMMETRY Interchangeable
CONSTANTS
  a1 = a1
  a2 = a2
  c1 = c1
  c2 = c2
  m1 = m1
  i1 = i1
  i2 = i2
  unnamed = unnamed
  w1 = w1
  NoAddress = NoAddress
  Address <- MCAddress
  Signer <- MCAddress
  InitAdmin <- AnAdmin
  InitCapacity <- DefaultCap
  ResizeTo <- NoResize
  MinMaxEvents = 1
  DefaultMaxEvents = 1
  Wasm <- MCWasm
  ContractId <- MCContract
  Body <- MCBody
  AbiMax = 1
  LedgerMax = 1
  Input <- MCInput
  Unnamed <- MCUnnamed
  SeqMax = 2
INVARIANTS InstanceTypeOK RegistryTypeOK HistoryIsServed MinLedgerOrdersVersions IndexerFollows ReadsAreFaithful
PROPERTIES HandoverSpendsNomination WrittenVersionsStand ImplementsCatalog
