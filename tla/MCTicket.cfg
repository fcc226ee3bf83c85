SPECIFICATION TicketSpec
CONSTANTS
  org = org
  buyer = buyer
  w1 = w1
  NoAddress = NoAddress
  Address <- MCAddress
  Signer <- MCAddress
  SupplyChoice <- Supplies
  Price <- Prices
  TicketId <- Ids
  Wasm <- MCWasm
INVARIANTS TicketTypeOK SupplyAndResaleLimits TicketInv
PROPERTIES ImplementsPass
