SPECIFICATION RegistrySpec
CONSTANTS
  a1 = a1
  a2 = a2
  c1 = c1
  m1 = m1
  w1 = w1
  NoAddress = NoAddress
  Address <- MCAddress
  Signer <- MCAddress
  InitAdmin <- AnAdmin
  InitCapacity <- DefaultCap
  ResizeTo <- NoResize
  MinMaxEvents = 1
  DefaultMaxEvents = 1
  Wasm <- MCWasm
  ContractId <- OneContract
  Body <- OneBody
  AbiMax = 2
  LedgerMax = 2
INVARIANTS OnlyExistingVersionsServed
