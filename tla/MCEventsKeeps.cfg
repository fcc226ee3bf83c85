SPECIFICATION EventsSpec
CONSTANTS
  a1 = a1
  a2 = a2
  i1 = i1
  i2 = i2
  unnamed = unnamed
  w1 = w1
  NoAddress = NoAddress
  Address <- MCAddress
  Signer <- MCSigner
  InitAdmin <- AnAdmin
  InitCapacity <- InitCaps
  ResizeTo <- ResizeCaps
  MinMaxEvents = 1
  DefaultMaxEvents = 3
  Wasm <- MCWasm
  Input <- MCInput
  Unnamed <- MCUnnamed
  SeqMax = 6
PROPERTIES ResizeKeepsRetained
