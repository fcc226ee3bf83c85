SPECIFICATION ClientsSpec
CONSTANTS
  a1 = a1
  a2 = a2
  lost = lost
  c1 = c1
  b1 = b1
  b2 = b2
  k1 = k1
  k2 = k2
  w1 = w1
  NoAddress = NoAddress
  NoRead = NoRead
  Address <- MCAddress
  Signer <- MCSigner
  InitAdmin <- AnAdmin
  InitCapacity <- DefaultCap
  ResizeTo <- NoResize
  MinMaxEvents = 1
  DefaultMaxEvents = 1
  Wasm <- MCWasm
  ContractId <- MCContract
  Body <- MCBody
  AbiMax = 2
  LedgerMax = 0
  Client <- MCClient
  Account <- MCAccount
  RegisterMax = 2
INVARIANTS AdminHoldsKey HeldIsHistory
PROPERTIES UpdatesBuildOnWhatWasRead
