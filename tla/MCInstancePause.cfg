SPECIFICATION InstanceSpec
CONSTANTS
  a1 = a1
  a2 = a2
  lost = lost
  w1 = w1
  w2 = w2
  NoAddress = NoAddress
  Address <- MCAddress
  Signer <- MCSigner
  InitAdmin <- MCSigner
  InitCapacity <- Caps
  ResizeTo <- Caps
  MinMaxEvents = 2
  DefaultMaxEvents = 3
  Wasm <- MCWasm
PROPERTIES PauseFreezesInstance
