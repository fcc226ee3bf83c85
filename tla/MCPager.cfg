SPECIFICATION PagerSpec
CONSTANTS
  a1 = a1
  i1 = i1
  i2 = i2
  w1 = w1
  NoAddress = NoAddress
  Address <- MCAddress
  Signer <- MCAddress
  InitAdmin <- MCAddress
  InitCapacity <- InitCaps
  ResizeTo <- ResizeCaps
  MinMaxEvents = 1
  DefaultMaxEvents = 2
  Wasm <- MCWasm
  Input <- MCInput
  Unnamed <- NoUnnamed
  SeqMax = 5
  Limit = 3
  MaxPageSize = 2
INVARIANTS EventsTypeOK WindowExactSinceLayout HealedRingExact ReadsAreFaithful PagesInOrder NextPollApproaches
PROPERTIES ShortPageMeansExhausted HealedEvictionsAnnounced ImplementsLedger EventuallyReceived
