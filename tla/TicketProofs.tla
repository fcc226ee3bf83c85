---------------------------- MODULE TicketProofs ----------------------------
(***************************************************************************)
(* Proofs about Ticket, for every choice of its constants.                 *)
(***************************************************************************)
EXTENDS Ticket, SequenceTheorems, TLAPS

\* The tickets verify_ticket answered true for, and those its status marks.
VerifiedIds == {verified[i] : i \in DOMAIN verified}
UsedIds     == {id \in DOMAIN tickets : tickets[id].status = "Used"}

\* A sequence with one more entry has one more element.
LEMMA AppendElements ==
  ASSUME NEW s \in Seq(Nat), NEW e \in Nat
  PROVE  {Append(s, e)[i] : i \in DOMAIN Append(s, e)}
           = {s[i] : i \in DOMAIN s} \cup {e}
<1>1. /\ Len(s) \in Nat /\ DOMAIN s = 1 .. Len(s)
      /\ DOMAIN Append(s, e) = 1 .. (Len(s) + 1)
      /\ Append(s, e)[Len(s) + 1] = e
      /\ \A i \in 1 .. Len(s) : Append(s, e)[i] = s[i]
  OBVIOUS
<1>2. 1 .. (Len(s) + 1) = (1 .. Len(s)) \cup {Len(s) + 1}
  BY <1>1
<1> QED
  BY ONLY <1>1, <1>2

\* A contract nobody initialised has sold nothing.
LEMMA TicketInvInit == TicketInit => TicketInv
<1> SUFFICES ASSUME TicketInit PROVE TicketInv
  OBVIOUS
<1>1. tickets \in [0 .. (nextId - 1) -> Ticket] /\ DOMAIN tickets = {}
  BY DEF TicketInit
<1>2. paid \in Seq(Seq(Nat)) /\ Len(paid) = nextId
  BY DEF TicketInit
<1>3. TicketTypeOK
  BY <1>1, <1>2 DEF TicketInit, TicketTypeOK
<1>4. {verified[i] : i \in DOMAIN verified}
        = {id \in DOMAIN tickets : tickets[id].status = "Used"}
  <2>1. DOMAIN verified = {}
    BY DEF TicketInit
  <2> QED
    BY <1>1, <2>1
<1> QED
  BY <1>1, <1>3, <1>4 DEF TicketInit, TicketInv, SupplyAndResaleLimits

\* A refused call changes nothing the invariant speaks of.
LEMMA UnchangedKeepsInv ==
  TicketInv /\ UNCHANGED <<saleVars, tickets, wasm, history>> => TicketInv'
BY DEF saleVars, history, TicketInv, TicketTypeOK, SupplyAndResaleLimits

\* A successful initialize finds nothing sold, so any supply and ceiling will do.
LEMMA InitializeKeepsInv ==
  ASSUME TicketInv, NEW organizer \in Signer, NEW max_tickets \in SupplyChoice,
         NEW price \in Price, NEW max_resale_price \in Price,
         initialize(organizer, max_tickets, price, max_resale_price)
  PROVE  TicketInv'
<1>1. CASE UNCHANGED <<saleVars, tickets, wasm, history>>
  BY <1>1, UnchangedKeepsInv
<1>2. ASSUME ~Initialized, max_resale_price >= 0,
             admin' = organizer, maxTickets' = max_tickets,
             maxResale' = max_resale_price, nextId' = 0,
             UNCHANGED <<tickets, wasm, history>>
      PROVE  TicketInv'
  <2>1. nextId = 0 /\ DOMAIN tickets = {}
    BY <1>2 DEF Initialized, TicketInv, TicketTypeOK
  <2>2. organizer \in Address /\ organizer # NoAddress /\ max_tickets \in Nat
          /\ max_resale_price \in Nat
    BY <1>2, TicketAssumption
  <2>3. TicketTypeOK'
    BY <1>2, <2>1, <2>2 DEF TicketInv, TicketTypeOK, history
  <2> QED
    BY <1>2, <2>1, <2>2, <2>3 DEF TicketInv, SupplyAndResaleLimits, history
<1> QED
  BY <1>1, <1>2 DEF initialize, Refuses

\* A sale adds one ticket at the ceiling of the event, never resold.
LEMMA MintKeepsInv ==
  ASSUME TicketInv, NEW organizer \in Signer, NEW recipient \in Address,
         mint_ticket(organizer, recipient)
  PROVE  TicketInv'
<1>1. CASE UNCHANGED <<saleVars, tickets, wasm, history>>
  BY <1>1, UnchangedKeepsInv
<1>2. ASSUME organizer = admin, ~SoldOut,
             tickets' = [id \in DOMAIN tickets \cup {nextId} |->
                           IF id = nextId
                           THEN [owner |-> recipient, status |-> "Valid",
                                 max_resale_price |-> maxResale]
                           ELSE tickets[id]],
             nextId' = nextId + 1, paid' = Append(paid, << >>),
             UNCHANGED <<admin, maxTickets, maxResale, wasm, verified>>
      PROVE  TicketInv'
  <2> USE <1>2
  <2>1. /\ nextId \in Nat /\ maxTickets \in Nat /\ maxResale \in Nat
        /\ DOMAIN tickets = 0 .. (nextId - 1)
        /\ \A id \in DOMAIN tickets : tickets[id] \in Ticket
        /\ paid \in Seq(Seq(Nat)) /\ Len(paid) = nextId
        /\ nextId + 1 <= maxTickets
    BY DEF TicketInv, TicketTypeOK, SoldOut
  <2>2. DOMAIN tickets' = 0 .. (nextId' - 1)
    BY <2>1
  <2>3. \A id \in DOMAIN tickets' : tickets'[id] \in Ticket
    BY <2>1 DEF Ticket, TicketStatus
  <2>4. /\ paid' \in Seq(Seq(Nat)) /\ Len(paid') = nextId'
        /\ paid'[nextId + 1] = << >>
        /\ \A id \in DOMAIN tickets : paid'[id + 1] = paid[id + 1]
    BY <2>1
  <2>5. TicketTypeOK'
    <3>1. tickets' \in [0 .. (nextId' - 1) -> Ticket]
      BY <2>2, <2>3
    <3> QED
      BY <2>1, <2>4, <3>1 DEF TicketInv, TicketTypeOK
  <2>6. ASSUME NEW id \in DOMAIN tickets'
        PROVE  /\ Len(paid'[id + 1]) <= 1
               /\ \A i \in DOMAIN paid'[id + 1] : paid'[id + 1][i] <= maxResale'
               /\ tickets'[id].status = "Valid" => paid'[id + 1] = << >>
               /\ tickets'[id].max_resale_price = maxResale'
    <3>1. CASE id = nextId
      BY <2>1, <2>4, <3>1
    <3>2. CASE id # nextId
      BY <2>1, <2>2, <2>4, <3>2 DEF TicketInv, SupplyAndResaleLimits
    <3> QED
      BY <3>1, <3>2
  <2>7. admin # NoAddress
    BY TicketAssumption
  <2>8. VerifiedIds' = UsedIds'
    <3>1. /\ nextId \notin DOMAIN tickets
          /\ DOMAIN tickets' = DOMAIN tickets \cup {nextId}
          /\ tickets'[nextId].status = "Valid"
          /\ \A id \in DOMAIN tickets : tickets'[id] = tickets[id]
      BY <2>1
    <3>2. UsedIds' = UsedIds
      BY ONLY <3>1 DEF UsedIds
    <3> QED
      BY <3>2 DEF TicketInv, VerifiedIds, UsedIds
  <2> QED
    BY <2>1, <2>5, <2>6, <2>7, <2>8
    DEF TicketInv, SupplyAndResaleLimits, VerifiedIds, UsedIds
<1> QED
  BY <1>1, <1>2 DEF mint_ticket, NotOrganizer, Refuses

\* A resale happens to a ticket that was never resold, at a price the ceiling
\* allows, and leaves it no longer resalable.
LEMMA TransferKeepsInv ==
  ASSUME TicketInv, NEW from \in Signer, NEW to \in Address, NEW id \in TicketId,
         NEW sale_price \in Price, transfer_ticket(from, to, id, sale_price)
  PROVE  TicketInv'
<1>1. CASE UNCHANGED <<saleVars, tickets, wasm, history>>
  BY <1>1, UnchangedKeepsInv
<1>2. ASSUME sale_price >= 0, Known(id), Transferable(id),
             ~AboveCeiling(id, sale_price),
             tickets' = [tickets EXCEPT ![id].owner = to,
                                        ![id].status = "Transferred"],
             paid' = [paid EXCEPT ![id + 1] = Append(@, sale_price)],
             UNCHANGED <<saleVars, wasm, verified>>
      PROVE  TicketInv'
  <2> USE <1>2 DEF Known
  <2>1. /\ nextId \in Nat /\ maxResale \in Nat
        /\ DOMAIN tickets = 0 .. (nextId - 1)
        /\ \A n \in DOMAIN tickets : tickets[n] \in Ticket
        /\ paid \in Seq(Seq(Nat)) /\ Len(paid) = nextId
        /\ UNCHANGED <<admin, maxTickets, maxResale, nextId, wasm>>
    BY DEF TicketInv, TicketTypeOK, saleVars
  <2>2. /\ sale_price \in Nat /\ sale_price <= maxResale
        /\ id + 1 \in 1 .. Len(paid) /\ paid[id + 1] = << >>
    BY <2>1, TicketAssumption
    DEF TicketInv, SupplyAndResaleLimits, Transferable, AboveCeiling
  <2>3. /\ DOMAIN tickets' = DOMAIN tickets
        /\ tickets'[id].status = "Transferred"
        /\ \A n \in DOMAIN tickets :
             /\ tickets'[n] \in Ticket
             /\ n # id => tickets'[n] = tickets[n]
             /\ tickets'[n].max_resale_price = tickets[n].max_resale_price
    BY <2>1 DEF Ticket, TicketStatus
  <2>4. /\ paid' \in Seq(Seq(Nat)) /\ Len(paid') = nextId
        /\ paid'[id + 1] = <<sale_price>>
        /\ \A n \in DOMAIN tickets : n # id => paid'[n + 1] = paid[n + 1]
    <3>1. Append(paid[id + 1], sale_price) = <<sale_price>>
      BY <2>2
    <3>2. <<sale_price>> \in Seq(Nat)
      BY <2>2
    <3>3. paid' = [paid EXCEPT ![id + 1] = <<sale_price>>]
      BY <3>1
    <3> QED
      BY <2>1, <2>2, <3>2, <3>3, ExceptSeq
  <2>5. TicketTypeOK'
    <3>1. tickets' \in [0 .. (nextId' - 1) -> Ticket]
      BY <2>1, <2>3
    <3> QED
      BY <2>1, <2>4, <3>1 DEF TicketInv, TicketTypeOK
  <2>6. ASSUME NEW n \in DOMAIN tickets'
        PROVE  /\ Len(paid'[n + 1]) <= 1
               /\ \A i \in DOMAIN paid'[n + 1] : paid'[n + 1][i] <= maxResale'
               /\ tickets'[n].status = "Valid" => paid'[n + 1] = << >>
               /\ tickets'[n].max_resale_price = maxResale'
    <3>1. CASE n = id
      BY <2>1, <2>2, <2>3, <2>4, <3>1 DEF TicketInv
    <3>2. CASE n # id
      <4>1. /\ n \in DOMAIN tickets /\ tickets'[n] = tickets[n]
            /\ paid'[n + 1] = paid[n + 1] /\ maxResale' = maxResale
        BY <2>1, <2>3, <2>4, <3>2
      <4>2. /\ Len(paid[n + 1]) <= 1
            /\ \A i \in DOMAIN paid[n + 1] : paid[n + 1][i] <= maxResale
            /\ tickets[n].status = "Valid" => paid[n + 1] = << >>
            /\ tickets[n].max_resale_price = maxResale
        BY ONLY <4>1, TicketInv DEF TicketInv, SupplyAndResaleLimits
      <4> QED
        BY ONLY <4>1, <4>2
    <3> QED
      BY <3>1, <3>2
  <2>7. VerifiedIds' = UsedIds'
    <3>1. tickets[id].status # "Used" /\ VerifiedIds' = VerifiedIds
      BY DEF Transferable, VerifiedIds
    <3>2. UsedIds' = UsedIds
      BY ONLY <2>3, <3>1 DEF UsedIds
    <3> QED
      BY <3>1, <3>2 DEF TicketInv, VerifiedIds, UsedIds
  <2> QED
    BY <2>1, <2>5, <2>6, <2>7
    DEF TicketInv, SupplyAndResaleLimits, VerifiedIds, UsedIds
<1> QED
  BY <1>1, <1>2 DEF transfer_ticket, Refuses

\* An admission changes the status of one ticket, and never back to "Valid".
LEMMA VerifyKeepsInv ==
  ASSUME TicketInv, NEW verifier \in Signer, NEW id \in TicketId,
         verify_ticket(verifier, id)
  PROVE  TicketInv'
<1>1. CASE UNCHANGED <<saleVars, tickets, wasm, history>>
  BY <1>1, UnchangedKeepsInv
<1>2. ASSUME Known(id), tickets' = [tickets EXCEPT ![id].status = "Used"],
             verified' = Append(verified, id), UNCHANGED <<saleVars, wasm, paid>>
      PROVE  TicketInv'
  <2>1. /\ DOMAIN tickets = 0 .. (nextId - 1)
        /\ \A n \in DOMAIN tickets : tickets[n] \in Ticket
        /\ UNCHANGED <<admin, maxTickets, maxResale, nextId, wasm, paid>>
    BY <1>2 DEF TicketInv, TicketTypeOK, saleVars
  <2>2. /\ DOMAIN tickets' = DOMAIN tickets
        /\ id \in DOMAIN tickets /\ tickets'[id].status = "Used"
        /\ \A n \in DOMAIN tickets :
             /\ tickets'[n] \in Ticket
             /\ n # id => tickets'[n] = tickets[n]
             /\ tickets'[n].status = "Valid" => tickets[n].status = "Valid"
             /\ tickets'[n].max_resale_price = tickets[n].max_resale_price
    BY <1>2, <2>1 DEF Known, Ticket, TicketStatus
  <2>3. tickets' \in [0 .. (nextId' - 1) -> Ticket]
    BY <1>2, <2>1, <2>2
  <2>4. verified \in Seq(Nat) /\ verified' = Append(verified, id) /\ id \in Nat
    BY <1>2, TicketAssumption DEF TicketInv, TicketTypeOK
  <2>5. TicketTypeOK'
    BY <2>1, <2>3, <2>4 DEF TicketInv, TicketTypeOK
  <2>6. VerifiedIds' = UsedIds'
    <3>1. VerifiedIds' = VerifiedIds \cup {id}
      BY <2>4, AppendElements DEF VerifiedIds
    <3>2. UsedIds' = UsedIds \cup {id}
      BY ONLY <2>2 DEF UsedIds
    <3> QED
      BY <3>1, <3>2 DEF TicketInv, VerifiedIds, UsedIds
  <2> QED
    BY ONLY TicketInv, <2>1, <2>2, <2>5, <2>6
    DEF TicketInv, SupplyAndResaleLimits, VerifiedIds, UsedIds
<1> QED
  BY <1>1, <1>2 DEF verify_ticket, NotOrganizer, Refuses

\* An upgrade replaces the executable only.
LEMMA UpgradeKeepsInv ==
  ASSUME TicketInv, NEW caller \in Signer, NEW hash \in Wasm, upgrade(caller, hash)
  PROVE  TicketInv'
<1>1. CASE UNCHANGED <<saleVars, tickets, wasm, history>>
  BY <1>1, UnchangedKeepsInv
<1>2. CASE wasm' = hash /\ UNCHANGED <<saleVars, tickets, history>>
  BY <1>2 DEF saleVars, history, TicketInv, TicketTypeOK, SupplyAndResaleLimits
<1> QED
  BY <1>1, <1>2 DEF upgrade, NotOrganizer, Refuses

\* Every call keeps the invariant.
LEMMA TicketStepKeepsInv == TicketInv /\ [TicketNext]_ticketState => TicketInv'
<1> SUFFICES ASSUME TicketInv, [TicketNext]_ticketState PROVE TicketInv'
  OBVIOUS
<1>1. CASE UNCHANGED ticketState
  BY <1>1, UnchangedKeepsInv DEF ticketState
<1>2. CASE TicketNext
  <2>1. PICK caller \in Signer : TicketCall(caller)
    BY <1>2 DEF TicketNext
  <2> QED
    BY <2>1, TicketAssumption, InitializeKeepsInv, MintKeepsInv,
       TransferKeepsInv, VerifyKeepsInv, UpgradeKeepsInv
    DEF TicketCall
<1> QED
  BY <1>1, <1>2

\* In every reachable state of the ticket contract the inductive invariant holds,
\* for every supply, ceiling, price and order of calls.
THEOREM TicketInvariant == TicketSpec => []TicketInv
BY TicketInvInit, TicketStepKeepsInv, PTL DEF TicketSpec

\* Type correctness: the tickets are exactly those numbered below NEXT_ID.
THEOREM TicketTypeCorrect == TicketSpec => []TicketTypeOK
<1>1. TicketInv => TicketTypeOK
  BY DEF TicketInv
<1> QED
  BY <1>1, TicketInvariant, PTL

\* mint_ticket never exceeds max_tickets, and transfer_ticket never lets a ticket
\* be resold twice or above the ceiling of the event.
THEOREM LimitsHold == TicketSpec => []SupplyAndResaleLimits
<1>1. TicketInv => SupplyAndResaleLimits
  BY DEF TicketInv
<1> QED
  BY <1>1, TicketInvariant, PTL

-----------------------------------------------------------------------------
(***************************************************************************)
(* The contract implements TicketPass.                                     *)
(***************************************************************************)

Owners   == [id \in DOMAIN tickets |-> tickets[id].owner]
FreshIds == {id \in DOMAIN tickets : tickets[id].status = "Valid"}

\* A call that leaves the sale and the tickets alone and does not answer true is
\* no step of the passes.
LEMMA UnchangedMaps ==
  UNCHANGED <<maxTickets, tickets, history>> => UNCHANGED Pass!passVars
BY DEF Pass!passVars, history

LEMMA InitMaps == TicketInit => Pass!PassInit
<1> SUFFICES ASSUME TicketInit PROVE Pass!PassInit
  OBVIOUS
<1>1. maxTickets = 0 /\ DOMAIN tickets = {} /\ verified = << >>
  BY DEF TicketInit
<1>2. Owners = [pass \in {} |-> 0] /\ FreshIds = {}
  BY <1>1 DEF Owners, FreshIds
<1> QED
  BY <1>1, <1>2 DEF Pass!PassInit, Owners, FreshIds

\* initialize opens the sale: nothing was sold before.
LEMMA InitializeMaps ==
  ASSUME TicketInv, NEW organizer \in Signer, NEW max_tickets \in SupplyChoice,
         NEW price \in Price, NEW max_resale_price \in Price,
         initialize(organizer, max_tickets, price, max_resale_price)
  PROVE  [Pass!PassNext]_(Pass!passVars)
<1>1. CASE UNCHANGED <<saleVars, tickets, wasm, history>>
  BY <1>1, UnchangedMaps DEF saleVars
<1>2. ASSUME ~Initialized, maxTickets' = max_tickets,
             UNCHANGED <<tickets, verified>>
      PROVE  Pass!PassNext
  <2>1. DOMAIN tickets = {}
    BY <1>2 DEF Initialized, TicketInv, TicketTypeOK
  <2>2. Pass!Open(max_tickets)
    BY <1>2, <2>1 DEF Pass!Open, Pass!Sold
  <2> QED
    BY <2>2 DEF Pass!PassNext
<1> QED
  BY <1>1, <1>2 DEF initialize, Refuses, history

\* mint_ticket sells the next pass.
LEMMA MintMaps ==
  ASSUME TicketInv, NEW organizer \in Signer, NEW recipient \in Address,
         mint_ticket(organizer, recipient)
  PROVE  [Pass!PassNext]_(Pass!passVars)
<1>1. CASE UNCHANGED <<saleVars, tickets, wasm, history>>
  BY <1>1, UnchangedMaps DEF saleVars
<1>2. ASSUME ~SoldOut, UNCHANGED <<maxTickets, verified>>,
             tickets' = [id \in DOMAIN tickets \cup {nextId} |->
                           IF id = nextId
                           THEN [owner |-> recipient, status |-> "Valid",
                                 max_resale_price |-> maxResale]
                           ELSE tickets[id]]
      PROVE  Pass!PassNext
  <2>1. /\ nextId \in 0 .. (maxTickets - 1)
        /\ DOMAIN tickets = 0 .. (nextId - 1)
        /\ DOMAIN tickets' = 0 .. nextId
    BY <1>2 DEF TicketInv, TicketTypeOK, SoldOut
  <2>2. /\ tickets'[nextId].owner = recipient
        /\ tickets'[nextId].status = "Valid"
        /\ \A id \in DOMAIN tickets : tickets'[id] = tickets[id]
        /\ nextId \notin DOMAIN tickets
    BY <1>2, <2>1
  <2>3. Owners' = [p \in 0 .. nextId |->
                     IF p = nextId THEN recipient ELSE Owners[p]]
    BY <2>1, <2>2 DEF Owners
  <2>4. FreshIds' = FreshIds \cup {nextId}
    BY <2>1, <2>2 DEF FreshIds
  <2>5. DOMAIN Owners = 0 .. (nextId - 1)
    BY <2>1 DEF Owners
  <2>6. Pass!Sell(recipient)
    BY <1>2, <2>1, <2>3, <2>4, <2>5
    DEF Pass!Sell, Pass!Sold, Owners, FreshIds
  <2> QED
    BY <2>6 DEF Pass!PassNext
<1> QED
  BY <1>1, <1>2 DEF mint_ticket, NotOrganizer, Refuses

\* transfer_ticket resells a fresh pass.
LEMMA TransferMaps ==
  ASSUME TicketInv, NEW from \in Signer, NEW to \in Address, NEW id \in TicketId,
         NEW sale_price \in Price, transfer_ticket(from, to, id, sale_price)
  PROVE  [Pass!PassNext]_(Pass!passVars)
<1>1. CASE UNCHANGED <<saleVars, tickets, wasm, history>>
  BY <1>1, UnchangedMaps DEF saleVars
<1>2. ASSUME Known(id), Transferable(id), UNCHANGED <<maxTickets, verified>>,
             tickets' = [tickets EXCEPT ![id].owner = to,
                                        ![id].status = "Transferred"]
      PROVE  Pass!PassNext
  <2>1. /\ id \in DOMAIN tickets /\ tickets[id].status = "Valid"
        /\ \A n \in DOMAIN tickets : tickets[n] \in Ticket
    BY <1>2 DEF Known, Transferable, TicketInv, TicketTypeOK
  <2>2. /\ DOMAIN tickets' = DOMAIN tickets
        /\ tickets'[id].owner = to /\ tickets'[id].status = "Transferred"
        /\ \A n \in DOMAIN tickets : n # id => tickets'[n] = tickets[n]
    BY <1>2, <2>1 DEF Ticket
  <2>3. Owners' = [Owners EXCEPT ![id] = to]
    BY ONLY <2>1, <2>2 DEF Owners
  <2>4. FreshIds' = FreshIds \ {id}
    BY ONLY <2>1, <2>2 DEF FreshIds
  <2>5. id \in FreshIds /\ id \in DOMAIN Owners
    BY ONLY <2>1 DEF FreshIds, Owners
  <2>6. Pass!Resell(id, to)
    BY ONLY <1>2, <2>3, <2>4, <2>5 DEF Pass!Resell, Owners, FreshIds
  <2> QED
    BY ONLY <2>5, <2>6, to \in Address DEF Pass!PassNext, Pass!Sold, Owners
<1> QED
  BY <1>1, <1>2 DEF transfer_ticket, Refuses, saleVars

\* verify_ticket answers true for a pass it never answered true for: of those it
\* did the status is "Used", and of a used one it answers false.
LEMMA VerifyMaps ==
  ASSUME TicketInv, NEW verifier \in Signer, NEW id \in TicketId,
         verify_ticket(verifier, id)
  PROVE  [Pass!PassNext]_(Pass!passVars)
<1>1. CASE UNCHANGED <<saleVars, tickets, wasm, history>>
  BY <1>1, UnchangedMaps DEF saleVars
<1>2. ASSUME Known(id), Admissible(id), UNCHANGED maxTickets,
             tickets' = [tickets EXCEPT ![id].status = "Used"],
             verified' = Append(verified, id)
      PROVE  Pass!PassNext
  <2>1. /\ id \in DOMAIN tickets /\ tickets[id].status # "Used"
        /\ \A n \in DOMAIN tickets : tickets[n] \in Ticket
    BY <1>2 DEF Known, Admissible, TicketInv, TicketTypeOK
  <2>2. /\ DOMAIN tickets' = DOMAIN tickets
        /\ tickets'[id].owner = tickets[id].owner
        /\ tickets'[id].status = "Used"
        /\ \A n \in DOMAIN tickets : n # id => tickets'[n] = tickets[n]
    BY <1>2, <2>1 DEF Ticket
  <2>3. Owners' = Owners
    BY ONLY <2>1, <2>2 DEF Owners
  <2>4. FreshIds' = FreshIds \ {id}
    BY ONLY <2>1, <2>2 DEF FreshIds
  <2>5. id \in DOMAIN Owners /\ id \notin VerifiedIds
    BY <2>1 DEF TicketInv, VerifiedIds, Owners
  <2>6. Pass!Admit(id)
    BY ONLY <1>2, <2>3, <2>4, <2>5
    DEF Pass!Admit, Pass!Sold, Owners, FreshIds, VerifiedIds
  <2> QED
    BY ONLY <2>5, <2>6 DEF Pass!PassNext, Pass!Sold, Owners
<1> QED
  BY <1>1, <1>2 DEF verify_ticket, NotOrganizer, Refuses, saleVars

\* Every step of the contract is a step of the passes or leaves them alone.
LEMMA StepMaps ==
  TicketInv /\ [TicketNext]_ticketState => [Pass!PassNext]_(Pass!passVars)
<1> SUFFICES ASSUME TicketInv, [TicketNext]_ticketState
             PROVE  [Pass!PassNext]_(Pass!passVars)
  OBVIOUS
<1>1. CASE UNCHANGED ticketState
  BY <1>1, UnchangedMaps DEF ticketState, saleVars
<1>2. CASE TicketNext
  <2>1. PICK caller \in Signer : TicketCall(caller)
    BY <1>2 DEF TicketNext
  <2>2. ASSUME NEW hash \in Wasm, upgrade(caller, hash)
        PROVE  [Pass!PassNext]_(Pass!passVars)
    BY <2>2, UnchangedMaps DEF upgrade, NotOrganizer, Refuses, saleVars
  <2> QED
    BY <2>1, <2>2, InitializeMaps, MintMaps, TransferMaps, VerifyMaps DEF TicketCall
<1> QED
  BY <1>1, <1>2

\* The contract implements the abstract pass, for every supply, price and order
\* of calls: each ticket is resold at most once, verify_ticket answers true for it
\* at most once, and after that it does not change hands.
THEOREM TicketRefinesPass == TicketSpec => ImplementsPass
BY InitMaps, StepMaps, TicketInvariant, PTL
DEF TicketSpec, ImplementsPass, Pass!PassSpec
=============================================================================
