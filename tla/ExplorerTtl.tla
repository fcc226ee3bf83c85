----------------------------- MODULE ExplorerTtl -----------------------------
(***************************************************************************)
(* Storage TTL of the explorer contract.  Every entry has a time to live,  *)
(* in ledgers; one whose TTL lapsed is archived: it cannot be read or      *)
(* written until somebody restores it.  The calls extend the entries they  *)
(* use, each kind to its own horizon.                                      *)
(*                                                                         *)
(* What a call stores and who may make it is in ExplorerRegistry and       *)
(* ExplorerEvents; kept here is which entries it needs, creates, removes   *)
(* and extends.  A call is one the contract accepts.                       *)
(***************************************************************************)
EXTENDS Integers, Functions

CONSTANTS
  ContractId,      \* the contract ids registered
  AbiMax,          \* the last abi_version
  Capacity,        \* the slots of the ring
  Day,             \* LEDGERS_PER_DAY
  InstanceBump,    \* INSTANCE_BUMP_AMOUNT
  RegistryBump,    \* REGISTRY_BUMP_AMOUNT
  EventBump,       \* EVENT_BUMP_AMOUNT
  Floor            \* the network's TTL of a new or restored persistent entry

ASSUME TtlAssumption ==
  /\ AbiMax \in Nat
  /\ Capacity \in Nat \ {0}
  /\ Day \in Nat \ {0}
  /\ InstanceBump \in Nat /\ RegistryBump \in Nat /\ EventBump \in Nat
  /\ Day <= EventBump /\ Day <= InstanceBump /\ Day <= RegistryBump
  /\ Floor \in Nat

VARIABLES
  initialised,   \* whether the instance holds DataKey::Admin
  paused,        \* DataKey::Paused
  next,          \* the slot of the next event, EventSeq modulo MaxEvents
  contracts,     \* id -> abi_version, for the Contract entries present
  ttl,           \* the entries in storage: key -> remaining TTL, -1 if archived
  idle,          \* history: ledgers since a call that is to keep the entry
                 \* alive, counted just past the threshold
  unread         \* history: slots written and neither read nor restored since

ttlVars == <<initialised, paused, next, contracts, ttl, idle, unread>>

-----------------------------------------------------------------------------
(***************************************************************************)
(* Entries and their TTL.                                                  *)
(***************************************************************************)

Slots == 0 .. (Capacity - 1)

Instance       == <<"instance">>
Contract(id)   == <<"contract", id>>
Version(id, v) == <<"version", id, v>>
EventLog(slot) == <<"event", slot>>

Key == {Instance} \cup {Contract(id) : id \in ContractId}
         \cup {Version(id, v) : id \in ContractId, v \in 0 .. AbiMax}
         \cup {EventLog(slot) : slot \in Slots}

Horizon(key) ==
  CASE key[1] = "instance" -> InstanceBump
    [] key[1] = "event"    -> EventBump
    [] OTHER               -> RegistryBump

Threshold(key) == Horizon(key) - Day

\* An entry's TTL before a call extends it: a new entry gets the floor.
Left(key) == IF key \in DOMAIN ttl THEN ttl[key] ELSE Floor

\* extend_ttl(key, threshold, bump), of an entry with this much left.
Extended_BelowFloor(key, left) == IF left < Floor THEN Horizon(key) ELSE left
Extended(key, left) == IF left < Threshold(key) THEN Horizon(key) ELSE left

\* The call can use these entries: none that exists is archived.  Every call
\* loads the instance.
Usable(keys) == \A key \in keys \cup {Instance} : Left(key) >= 0

\* The entries after a call that leaves `keys', creating those that are new,
\* and extends those in `extended'.
Store(keys, extended) ==
  ttl' = [key \in keys |-> IF key \in extended THEN Extended(key, Left(key))
                                               ELSE Left(key)]

\* The call is one that is to keep the entries `kept' alive.
Keep(keys, kept) ==
  idle' = [key \in keys |-> IF key \in kept THEN 0 ELSE idle[key]]

\* A call that creates no entry but those in `kept', and extends them.
Extend(kept) ==
  /\ Usable(kept)
  /\ Store(DOMAIN ttl \cup kept, kept)
  /\ Keep(DOMAIN ttl \cup kept, kept)

\* The contract is deployed: its instance entry is new and nothing is set.
TtlInit ==
  /\ initialised = FALSE
  /\ paused = FALSE
  /\ next = 0
  /\ contracts = [id \in {} |-> 0]
  /\ ttl = [key \in {Instance} |-> Floor]
  /\ idle = [key \in {Instance} |-> Threshold(Instance) + 1]
  /\ unread = {}

-----------------------------------------------------------------------------
(***************************************************************************)
(* The entry points that change state; each extends the instance.          *)
(***************************************************************************)

init ==
  /\ ~initialised
  /\ initialised' = TRUE
  /\ Extend({Instance})
  /\ UNCHANGED <<paused, next, contracts, unread>>

\* transfer_admin, accept_admin, cancel_admin_transfer, upgrade.
Administer ==
  /\ initialised
  /\ Extend({Instance})
  /\ UNCHANGED <<initialised, paused, next, contracts, unread>>

\* Under another modulus the event sequence may be at any slot.
set_max_events ==
  /\ initialised
  /\ Extend({Instance})
  /\ next' \in Slots
  /\ UNCHANGED <<initialised, paused, contracts, unread>>

SetPaused(value) ==
  /\ initialised
  /\ paused' = value
  /\ Extend({Instance})
  /\ UNCHANGED <<initialised, next, contracts, unread>>

Accepting == initialised /\ ~paused

register_contract(id) ==
  /\ Accepting
  /\ id \notin DOMAIN contracts
  /\ contracts' = [x \in DOMAIN contracts \cup {id} |->
                     IF x = id THEN 0 ELSE contracts[x]]
  /\ Extend({Instance, Contract(id), Version(id, 0)})
  /\ UNCHANGED <<initialised, paused, next, unread>>

update_contract(id) ==
  /\ Accepting
  /\ id \in DOMAIN contracts
  /\ contracts[id] < AbiMax
  /\ contracts' = [contracts EXCEPT ![id] = @ + 1]
  /\ Extend({Instance, Contract(id), Version(id, contracts[id] + 1)})
  /\ UNCHANGED <<initialised, paused, next, unread>>

Removed_History(id) == {Version(id, v) : v \in 0 .. contracts[id]}
Removed(id) == {Contract(id)}

\* The version entries stay in storage, and are not extended.
deregister_contract(id) ==
  /\ Accepting
  /\ id \in DOMAIN contracts
  /\ Usable({Contract(id)})
  /\ contracts' = Restrict(contracts, DOMAIN contracts \ {id})
  /\ Store(DOMAIN ttl \ Removed(id), {Instance})
  /\ Keep(DOMAIN ttl \ Removed(id), {Instance})
  /\ UNCHANGED <<initialised, paused, next, unread>>

SubmitExtends_SlotOnly == {EventLog(next)}
SubmitExtends == {EventLog(next), Instance}

\* The slot is overwritten: if it has an entry, the entry must not be archived.
submit_event ==
  /\ Accepting
  /\ Usable({EventLog(next)})
  /\ Store(DOMAIN ttl \cup {EventLog(next)}, SubmitExtends)
  /\ Keep(DOMAIN ttl \cup {EventLog(next)}, {EventLog(next), Instance})
  /\ next' = (next + 1) % Capacity
  /\ unread' = unread \cup {next}
  /\ UNCHANGED <<initialised, paused, contracts>>

(***************************************************************************)
(* Reads.  A single read extends the entry it returns, and only that one;  *)
(* get_events extends nothing and changes nothing.                         *)
(***************************************************************************)

\* get_contract, get_latest_contract.
get_contract(id) ==
  /\ id \in DOMAIN contracts
  /\ Extend({Contract(id)})
  /\ UNCHANGED <<initialised, paused, next, contracts, unread>>

get_contract_version(id, v) ==
  /\ Version(id, v) \in DOMAIN ttl
  /\ Extend({Version(id, v)})
  /\ UNCHANGED <<initialised, paused, next, contracts, unread>>

\* A stored event is asked for by its own seq (after a change of capacity some
\* are not found any more: ExplorerEvents).
get_event(slot) ==
  /\ EventLog(slot) \in DOMAIN ttl
  /\ Extend({EventLog(slot)})
  /\ unread' = unread \ {slot}
  /\ UNCHANGED <<initialised, paused, next, contracts>>

(***************************************************************************)
(* The network.                                                            *)
(***************************************************************************)

CloseLedger ==
  /\ ttl' = [key \in DOMAIN ttl |-> IF ttl[key] < 0 THEN -1 ELSE ttl[key] - 1]
  /\ idle' = [key \in DOMAIN idle |->
                IF idle[key] > Threshold(key) THEN idle[key] ELSE idle[key] + 1]
  /\ UNCHANGED <<initialised, paused, next, contracts, unread>>

\* Anybody may have an archived entry restored.
Restore(key) ==
  /\ ttl[key] < 0
  /\ ttl' = [ttl EXCEPT ![key] = Floor]
  /\ unread' = {slot \in unread : EventLog(slot) # key}
  /\ UNCHANGED <<initialised, paused, next, contracts, idle>>

RegistryCall(id) ==
  \/ register_contract(id) \/ update_contract(id) \/ deregister_contract(id)
  \/ get_contract(id)
  \/ \E v \in 0 .. AbiMax : get_contract_version(id, v)

TtlNext ==
  \/ init \/ Administer \/ set_max_events \/ SetPaused(TRUE) \/ SetPaused(FALSE)
  \/ \E id \in ContractId : RegistryCall(id)
  \/ submit_event
  \/ \E slot \in Slots : get_event(slot)
  \/ \E key \in DOMAIN ttl : Restore(key)
  \/ CloseLedger

TtlSpec == TtlInit /\ [][TtlNext]_ttlVars

-----------------------------------------------------------------------------
(***************************************************************************)
(* Properties.                                                             *)
(***************************************************************************)

\* The entries in storage are the instance, a Contract entry for exactly the
\* registered ids, and at least the versions those ids have; the histories
\* speak of these entries.
TtlTypeOK ==
  /\ initialised \in BOOLEAN /\ paused \in BOOLEAN
  /\ next \in Slots
  /\ DOMAIN contracts \subseteq ContractId
  /\ \A id \in DOMAIN contracts : contracts[id] \in 0 .. AbiMax
  /\ DOMAIN ttl \subseteq Key /\ DOMAIN idle = DOMAIN ttl
  /\ Instance \in DOMAIN ttl
  /\ \A key \in DOMAIN ttl : ttl[key] \in Int /\ ttl[key] >= -1
                             /\ idle[key] \in 0 .. (Threshold(key) + 1)
  /\ \A id \in ContractId : Contract(id) \in DOMAIN ttl <=> id \in DOMAIN contracts
  /\ \A id \in DOMAIN contracts : \A v \in 0 .. contracts[id] :
        Version(id, v) \in DOMAIN ttl
  /\ unread \subseteq Slots
  /\ \A slot \in unread : EventLog(slot) \in DOMAIN ttl

\* Use keeps entries alive: an entry is live, with the rest of its threshold to
\* go, for as long as the calls the TTL policy counts on come at most a threshold
\* apart: for the instance any state-changing call, for a registry entry a write
\* or a read of it, for an event slot a submission into it or a get_event of it.
\* In particular submit_event never meets an archived slot in a ring that wraps
\* around within the event threshold.
HorizonKept ==
  \A key \in DOMAIN ttl :
    idle[key] <= Threshold(key) => ttl[key] >= Threshold(key) - idle[key]

\* An event lives no longer than the instance unless it was read or restored:
\* while it waits to be read, the capacity needed to find it is there too.
EventsWithinInstance ==
  \A slot \in unread :
    ttl[EventLog(slot)] >= 0 => ttl[Instance] >= ttl[EventLog(slot)]

(* What the documentation says of the event horizon, which the code breaks. *)

\* A slot only has to live until its event was consumed, because "each slot is
\* overwritten as soon as seq wraps back around to it": whatever became of the
\* event in it, a live and unpaused contract can write the next slot.
SlotOverwrittenOnWrap ==
  Accepting /\ ttl[Instance] >= 0 => Usable({EventLog(next)})
=============================================================================
