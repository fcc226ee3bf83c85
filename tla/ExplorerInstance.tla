-------------------------- MODULE ExplorerInstance --------------------------
(***************************************************************************)
(* Instance storage of the explorer contract (explorer/src/lib.rs) and the *)
(* entry points that write nothing else: initialisation, the two-step      *)
(* admin handover, the ring-buffer capacity, pause and upgrade.            *)
(*                                                                         *)
(* A transaction is atomic: an entry point that panics leaves every entry  *)
(* as it was, so a refused call is simply not a step and its checks are    *)
(* the guards below.  require_auth is the membership of the caller in      *)
(* Signer, the addresses whose owner can sign.                             *)
(***************************************************************************)
EXTENDS Integers, Sequences

CONSTANTS
  Address,            \* the addresses a caller can pass
  Signer,             \* those whose owner can satisfy require_auth
  NoAddress,          \* an absent Admin or PendingAdmin key
  InitAdmin,          \* the addresses passed to init as admin
  InitCapacity,       \* the values passed to init as max_events
  ResizeTo,           \* the values passed to set_max_events
  MinMaxEvents,       \* MIN_MAX_EVENTS
  DefaultMaxEvents,   \* DEFAULT_MAX_EVENTS
  Wasm                \* the wasm hashes an upgrade can install

ASSUME AddressAssumption ==
  /\ Signer \subseteq Address
  /\ InitAdmin \subseteq Address
  /\ NoAddress \notin Address

ASSUME CapacityAssumption ==
  /\ InitCapacity \subseteq Nat
  /\ ResizeTo \subseteq Nat
  /\ MinMaxEvents \in Nat \ {0}
  /\ DefaultMaxEvents \in Nat
  /\ DefaultMaxEvents >= MinMaxEvents

VARIABLES
  admin,          \* DataKey::Admin
  pendingAdmin,   \* DataKey::PendingAdmin
  paused,         \* DataKey::Paused; absent reads as false
  eventSeq,       \* DataKey::EventSeq; absent reads as 0
  maxEvents,      \* DataKey::MaxEvents; absent reads as the default
  wasm,           \* the executable installed for the contract
  emitted         \* the events the last successful call published, in order

authority    == <<admin, pendingAdmin>>
instanceVars == <<admin, pendingAdmin, paused, eventSeq, maxEvents, wasm,
                  emitted>>

\* Every key holds a value of its type, and the capacity is never zero: a ring
\* slot is a sequence number modulo MaxEvents, so a stored 0 would make every
\* later submit_event, get_event and get_events panic.
InstanceTypeOK ==
  /\ admin \in Address \cup {NoAddress}
  /\ pendingAdmin \in Address \cup {NoAddress}
  /\ paused \in BOOLEAN
  /\ eventSeq \in Nat
  /\ maxEvents \in Nat \ {0}     \* the modulus of every slot computation
  /\ wasm \in Wasm

InstanceInit ==
  /\ admin = NoAddress
  /\ pendingAdmin = NoAddress
  /\ paused = FALSE
  /\ eventSeq = 0
  /\ maxEvents = DefaultMaxEvents
  /\ wasm \in Wasm
  /\ emitted = << >>

Topic(name, fields) == [topic |-> name, data |-> fields]

(***************************************************************************)
(* The entry points.                                                       *)
(***************************************************************************)

Capacity_ZeroKept(max_events) == max_events
Capacity(max_events) == IF max_events = 0 THEN DefaultMaxEvents ELSE max_events

Uninitialised_NotChecked == TRUE
Uninitialised == admin = NoAddress

init(new_admin, max_events) ==
  /\ Uninitialised
  /\ admin' = new_admin
  /\ eventSeq' = 0
  /\ maxEvents' = Capacity(max_events)
  /\ emitted' = << >>
  /\ UNCHANGED <<pendingAdmin, paused, wasm>>

IsAdmin(caller) == caller = admin

Nominate_Immediate(new_admin) ==
  admin' = new_admin /\ UNCHANGED pendingAdmin
Nominate(new_admin) == pendingAdmin' = new_admin /\ UNCHANGED admin

transfer_admin(caller, new_admin) ==
  /\ IsAdmin(caller)
  /\ Nominate(new_admin)
  /\ emitted' = <<Topic("adm_nom", <<caller, new_admin>>)>>
  /\ UNCHANGED <<paused, eventSeq, maxEvents, wasm>>

Promote_NominationKept(caller) == admin' = caller /\ UNCHANGED pendingAdmin
Promote(caller) == admin' = caller /\ pendingAdmin' = NoAddress

accept_admin(caller) ==
  /\ caller = pendingAdmin
  /\ Promote(caller)
  /\ emitted' = <<Topic("adm_acc", <<caller>>)>>
  /\ UNCHANGED <<paused, eventSeq, maxEvents, wasm>>

cancel_admin_transfer(caller) ==
  /\ IsAdmin(caller)
  /\ pendingAdmin # NoAddress
  /\ pendingAdmin' = NoAddress
  /\ emitted' = <<Topic("adm_cncl", <<caller>>)>>
  /\ UNCHANGED <<admin, paused, eventSeq, maxEvents, wasm>>

\* Only the capacity is rewritten: no slot is touched, nothing is published.
set_max_events(caller, new_max) ==
  /\ IsAdmin(caller)
  /\ new_max >= MinMaxEvents
  /\ maxEvents' = new_max
  /\ emitted' = << >>
  /\ UNCHANGED <<admin, pendingAdmin, paused, eventSeq, wasm>>

pause(caller) ==
  /\ IsAdmin(caller)
  /\ paused' = TRUE
  /\ emitted' = <<Topic("paused", << >>)>>
  /\ UNCHANGED <<admin, pendingAdmin, eventSeq, maxEvents, wasm>>

unpause(caller) ==
  /\ IsAdmin(caller)
  /\ paused' = FALSE
  /\ emitted' = <<Topic("unpaused", << >>)>>
  /\ UNCHANGED <<admin, pendingAdmin, eventSeq, maxEvents, wasm>>

upgrade(caller, new_wasm_hash) ==
  /\ ~paused
  /\ IsAdmin(caller)
  /\ wasm' = new_wasm_hash
  /\ emitted' = <<Topic("upgrade", <<new_wasm_hash>>)>>
  /\ UNCHANGED <<admin, pendingAdmin, paused, eventSeq, maxEvents>>

-----------------------------------------------------------------------------
\* The calls that leave the capacity and the event sequence alone.
GovernanceCall ==
  \/ \E caller \in Signer, new_admin \in Address :
        transfer_admin(caller, new_admin)
  \/ \E caller \in Signer : accept_admin(caller)
  \/ \E caller \in Signer : cancel_admin_transfer(caller)
  \/ \E caller \in Signer : pause(caller)
  \/ \E caller \in Signer : unpause(caller)
  \/ \E caller \in Signer, hash \in Wasm : upgrade(caller, hash)

InstanceNext ==
  \/ \E new_admin \in InitAdmin, max_events \in InitCapacity :
        init(new_admin, max_events)
  \/ \E caller \in Signer, new_max \in ResizeTo :
        set_max_events(caller, new_max)
  \/ GovernanceCall

InstanceSpec == InstanceInit /\ [][InstanceNext]_instanceVars

-----------------------------------------------------------------------------
(***************************************************************************)
(* Properties.                                                             *)
(***************************************************************************)

\* The active admin is always somebody who can sign: whatever addresses are
\* nominated, cancelled and re-nominated, control never rests with an address
\* nobody holds the key of, which would leave no way to make a privileged call
\* again (the reason transfer_admin/accept_admin give for the two steps).
AdminHoldsKey == admin \in Signer \cup {NoAddress}

\* Once there is an admin, control passes only to the address nominated at that
\* moment, and the nomination is spent by the same call: it cannot be accepted
\* again after a later handover (accept_admin, and init being refused).
HandoverSpendsNomination ==
  [][admin' # admin /\ admin # NoAddress
       => admin' = pendingAdmin /\ pendingAdmin' = NoAddress]_authority

\* While the contract stays paused none of its state changes: pause is
\* documented to "freeze all state-mutating operations".
PauseFreezesInstance ==
  [][paused /\ paused'
       => UNCHANGED <<admin, pendingAdmin, eventSeq, maxEvents, wasm>>]_instanceVars
=============================================================================
