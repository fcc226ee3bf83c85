------------------------------- MODULE Ticket -------------------------------
(***************************************************************************)
(* The ticket contract (ticket/src/lib.rs): an organizer mints tickets, an *)
(* owner resells one under a price ceiling, the organizer verifies them at *)
(* the entrance.                                                           *)
(*                                                                         *)
(* Every entry point answers with a value, a typed Error or a panic; the   *)
(* alternatives below are its returns in the order of the code, and one    *)
(* that is not a success writes nothing.  require_auth is the membership   *)
(* of the caller in Signer.                                                *)
(***************************************************************************)
EXTENDS Integers, Sequences

CONSTANTS
  Address,       \* the addresses a caller can pass
  Signer,        \* those whose owner can satisfy require_auth
  NoAddress,     \* an absent ADMIN key
  SupplyChoice,  \* the values passed to initialize as max_tickets
  Price,         \* the prices passed: initialize and transfer_ticket
  TicketId,      \* the ticket ids passed
  Wasm           \* the wasm hashes an upgrade can install

ASSUME TicketAssumption ==
  /\ Signer \subseteq Address
  /\ NoAddress \notin Address
  /\ SupplyChoice \subseteq Nat
  /\ Price \subseteq Int
  /\ TicketId \subseteq Nat

VARIABLES
  admin,         \* ADMIN, the organizer
  maxTickets,    \* MAX_TIX
  maxResale,     \* MAXRESALE
  nextId,        \* NEXT_ID; absent reads as 0
  tickets,       \* the persistent entries: ticket_id -> Ticket, where present
  wasm,          \* the executable installed for the contract
  reply,         \* the last call and what it answered
  paid,          \* history: paid[id + 1] are the prices ticket id was resold at
  verified       \* history: the VERIFIED events published, one ticket id for
                 \* every time verify_ticket answered true

saleVars    == <<admin, maxTickets, maxResale, nextId>>
history     == <<paid, verified>>
ticketState == <<saleVars, tickets, wasm, reply, history>>

TicketStatus == {"Valid", "Used", "Transferred"}

Ticket == [owner : Address, status : TicketStatus, max_resale_price : Nat]

TicketInit ==
  /\ admin = NoAddress
  /\ maxTickets = 0
  /\ maxResale = 0
  /\ nextId = 0
  /\ tickets = [id \in {} |-> NoAddress]
  /\ wasm \in Wasm
  /\ reply = [call |-> "none", result |-> "none"]
  /\ paid = << >>
  /\ verified = << >>

Answers(name, result) == reply' = [call |-> name, result |-> result]

\* A typed error or a panic: the transaction writes nothing.
Refuses(name, reason) ==
  Answers(name, reason) /\ UNCHANGED <<saleVars, tickets, wasm, history>>

Known(id) == id \in DOMAIN tickets

(***************************************************************************)
(* The entry points.                                                       *)
(***************************************************************************)

Initialized_NotChecked == FALSE
Initialized == admin # NoAddress

initialize(organizer, max_tickets, price, max_resale_price) ==
  \/ Initialized /\ Refuses("initialize", "AlreadyInitialized")
  \/ /\ ~Initialized
     /\ price < 0 \/ max_resale_price < 0
     /\ Refuses("initialize", "NegativePrice")
  \/ /\ ~Initialized
     /\ price >= 0 /\ max_resale_price >= 0
     /\ admin' = organizer
     /\ maxTickets' = max_tickets
     /\ maxResale' = max_resale_price
     /\ nextId' = 0
     /\ Answers("initialize", "Ok")
     /\ UNCHANGED <<tickets, wasm, history>>

\* The check every organizer call starts with.
NotOrganizer(name, caller, message) ==
  \/ ~Initialized /\ Refuses(name, "NotInitialized")
  \/ Initialized /\ caller # admin /\ Refuses(name, message)

SoldOut == nextId >= maxTickets

mint_ticket(organizer, recipient) ==
  \/ NotOrganizer("mint_ticket", organizer, "only organizer can mint")
  \/ organizer = admin /\ SoldOut /\ Refuses("mint_ticket", "sold out")
  \/ /\ organizer = admin
     /\ ~SoldOut
     /\ tickets' = [id \in DOMAIN tickets \cup {nextId} |->
                      IF id = nextId
                      THEN [owner |-> recipient, status |-> "Valid",
                            max_resale_price |-> maxResale]
                      ELSE tickets[id]]
     /\ nextId' = nextId + 1
     /\ paid' = Append(paid, << >>)
     /\ Answers("mint_ticket", "Ok")
     /\ UNCHANGED <<admin, maxTickets, maxResale, wasm, verified>>

Transferable_OnceUsed(id) == tickets[id].status # "Transferred"
Transferable(id) == tickets[id].status = "Valid"

AboveCeiling_NotChecked(id, sale_price) == FALSE
AboveCeiling(id, sale_price) == sale_price > tickets[id].max_resale_price

transfer_ticket(from, to, id, sale_price) ==
  \/ sale_price < 0 /\ Refuses("transfer_ticket", "NegativePrice")
  \/ sale_price >= 0 /\ ~Known(id) /\ Refuses("transfer_ticket", "NotFound")
  \/ /\ sale_price >= 0 /\ Known(id)
     /\ \/ /\ tickets[id].owner # from
           /\ Refuses("transfer_ticket", "not the ticket owner")
        \/ /\ tickets[id].owner = from
           /\ ~Transferable(id)
           /\ Refuses("transfer_ticket", "ticket not transferable")
        \/ /\ tickets[id].owner = from
           /\ Transferable(id)
           /\ AboveCeiling(id, sale_price)
           /\ Refuses("transfer_ticket", "PriceExceedsCeiling")
        \/ /\ tickets[id].owner = from
           /\ Transferable(id)
           /\ ~AboveCeiling(id, sale_price)
           /\ tickets' = [tickets EXCEPT ![id].owner = to,
                                         ![id].status = "Transferred"]
           /\ paid' = [paid EXCEPT ![id + 1] = Append(@, sale_price)]
           /\ Answers("transfer_ticket", "Ok")
           /\ UNCHANGED <<saleVars, wasm, verified>>

Admissible_UsedToo(id) == tickets[id].status \in TicketStatus
Admissible(id) == tickets[id].status \in {"Valid", "Transferred"}

verify_ticket(verifier, id) ==
  \/ NotOrganizer("verify_ticket", verifier, "only organizer can verify")
  \/ /\ verifier = admin
     /\ ~Known(id)
     /\ Refuses("verify_ticket", "ticket not found")
  \/ /\ verifier = admin
     /\ Known(id)
     /\ \/ /\ Admissible(id)
           /\ tickets' = [tickets EXCEPT ![id].status = "Used"]
           /\ verified' = Append(verified, id)
           /\ Answers("verify_ticket", "true")
           /\ UNCHANGED <<saleVars, wasm, paid>>
        \/ /\ ~Admissible(id)
           /\ Refuses("verify_ticket", "false")

upgrade(caller, new_wasm_hash) ==
  \/ NotOrganizer("upgrade", caller, "only organizer can upgrade")
  \/ /\ caller = admin
     /\ wasm' = new_wasm_hash
     /\ Answers("upgrade", "Ok")
     /\ UNCHANGED <<saleVars, tickets, history>>

-----------------------------------------------------------------------------
TicketCall(caller) ==
  \/ \E max_tickets \in SupplyChoice, price, max_resale_price \in Price :
        initialize(caller, max_tickets, price, max_resale_price)
  \/ \E recipient \in Address : mint_ticket(caller, recipient)
  \/ \E to \in Address, id \in TicketId, sale_price \in Price :
        transfer_ticket(caller, to, id, sale_price)
  \/ \E id \in TicketId : verify_ticket(caller, id)
  \/ \E hash \in Wasm : upgrade(caller, hash)

TicketNext == \E caller \in Signer : TicketCall(caller)

TicketSpec == TicketInit /\ [][TicketNext]_ticketState

-----------------------------------------------------------------------------
(***************************************************************************)
(* Properties.                                                             *)
(***************************************************************************)

\* Every key holds a value of its type; the tickets are exactly those numbered
\* below NEXT_ID (get_ticket finds the ids tickets_sold counts, and no other).
TicketTypeOK ==
  /\ admin \in Address \cup {NoAddress}
  /\ maxTickets \in Nat /\ maxResale \in Nat /\ nextId \in Nat
  /\ tickets \in [0 .. (nextId - 1) -> Ticket]
  /\ wasm \in Wasm
  /\ paid \in Seq(Seq(Nat)) /\ Len(paid) = nextId
  /\ verified \in Seq(Nat)

\* Never more tickets than max_tickets, and no ticket was ever resold more than
\* once or above the ceiling of the event, also once it was used.
SupplyAndResaleLimits ==
  /\ nextId <= maxTickets
  /\ \A id \in DOMAIN tickets :
        /\ Len(paid[id + 1]) <= 1
        /\ \A i \in DOMAIN paid[id + 1] : paid[id + 1][i] <= maxResale
        /\ tickets[id].status = "Valid" => paid[id + 1] = << >>

\* The inductive invariant behind them: nothing was sold before initialize, every
\* ticket carries the ceiling of the event, and the used tickets are those that
\* verify_ticket answered true for.
TicketInv ==
  /\ TicketTypeOK
  /\ SupplyAndResaleLimits
  /\ admin = NoAddress => nextId = 0
  /\ \A id \in DOMAIN tickets : tickets[id].max_resale_price = maxResale
  /\ {verified[i] : i \in DOMAIN verified}
       = {id \in DOMAIN tickets : tickets[id].status = "Used"}

\* The tickets, as the passes TicketPass promises.
Pass == INSTANCE TicketPass WITH
  Person     <- Address,
  SeatChoice <- SupplyChoice,
  seats      <- maxTickets,
  holder     <- [id \in DOMAIN tickets |-> tickets[id].owner],
  fresh      <- {id \in DOMAIN tickets : tickets[id].status = "Valid"},
  admissions <- verified

\* The contract sells, resells and admits as TicketPass allows: verify_ticket
\* answers true (and publishes VERIFIED) at most once per ticket, whatever
\* transfers and verifications come before, and a ticket that was admitted or
\* resold never changes hands again.
ImplementsPass == Pass!PassSpec

(* What the fuzzing notes say of the replies, which the code does not keep. *)

\* "verify_ticket errors (never panics) on a nonexistent ticket id".
UnknownTicketIsTypedError ==
  reply # [call |-> "verify_ticket", result |-> "ticket not found"]
================================================================================
