-------------------------- MODULE ExplorerTtlProofs --------------------------
(***************************************************************************)
(* Proofs about storage TTL: type correctness, that use keeps entries      *)
(* alive, and that an unread event never outlives the instance, for all    *)
(* horizons and any number of contracts, versions and slots.               *)
(***************************************************************************)
EXTENDS ExplorerTtl, TLAPS

(***************************************************************************)
(* Keys.                                                                   *)
(***************************************************************************)

\* The four kinds of keys are told apart by their first component, and a key
\* determines what it is made of.
LEMMA KeysDiffer ==
  /\ \A id : Instance # Contract(id)
  /\ \A id, v : Instance # Version(id, v)
  /\ \A slot : Instance # EventLog(slot)
  /\ \A id, id2, v : Contract(id) # Version(id2, v)
  /\ \A id, slot : Contract(id) # EventLog(slot)
  /\ \A id, v, slot : Version(id, v) # EventLog(slot)
  /\ \A id, id2 : Contract(id) = Contract(id2) => id = id2
  /\ \A s, t : EventLog(s) = EventLog(t) => s = t
PROOF
  <1>1. Instance[1] = "instance"  BY DEF Instance
  <1>2. \A id : Contract(id)[1] = "contract" /\ Contract(id)[2] = id
    BY DEF Contract
  <1>3. \A id, v : Version(id, v)[1] = "version"  BY DEF Version
  <1>4. \A s : EventLog(s)[1] = "event" /\ EventLog(s)[2] = s  BY DEF EventLog
  <1>. QED  BY <1>1, <1>2, <1>3, <1>4

\* The keys a call names are keys.
LEMMA KeysAreKeys ==
  /\ Instance \in Key
  /\ \A id \in ContractId : Contract(id) \in Key
  /\ \A id \in ContractId, v \in 0 .. AbiMax : Version(id, v) \in Key
  /\ \A slot \in Slots : EventLog(slot) \in Key
PROOF BY DEF Key

\* Horizons are what the policy says, and a threshold is a natural number not
\* above its horizon.
LEMMA Horizons ==
  /\ Threshold(Instance) = InstanceBump - Day
  /\ \A slot : Horizon(EventLog(slot)) = EventBump
  /\ \A key : /\ Horizon(key) \in Nat /\ Threshold(key) \in Nat
              /\ Threshold(key) <= Horizon(key)
PROOF
  <1>1. Instance[1] = "instance"  BY DEF Instance
  <1>2. \A s : EventLog(s)[1] = "event"  BY DEF EventLog
  <1>3. \A key : Horizon(key) \in {InstanceBump, EventBump, RegistryBump}
    BY DEF Horizon
  <1>4. Horizon(Instance) = InstanceBump /\ \A s : Horizon(EventLog(s)) = EventBump
    BY <1>1, <1>2 DEF Horizon
  <1>. QED  BY <1>3, <1>4, TtlAssumption DEF Threshold

(***************************************************************************)
(* What every call does to the entries.                                    *)
(***************************************************************************)

\* The part of the type invariant that is about TTLs and histories.
EntriesOK ==
  /\ DOMAIN ttl \subseteq Key /\ DOMAIN idle = DOMAIN ttl
  /\ \A key \in DOMAIN ttl : ttl[key] \in Int /\ ttl[key] >= -1
                             /\ idle[key] \in 0 .. (Threshold(key) + 1)

\* The entries a call leaves: the ones it keeps alive, and others that were there.
Leaves(keys, kept) ==
  /\ kept \subseteq keys /\ keys \subseteq Key
  /\ \A key \in keys : key \in kept \/ key \in DOMAIN ttl
  /\ Usable(kept)
  /\ Store(keys, kept)
  /\ Keep(keys, kept)

\* Extending an entry never shortens it and leaves it its threshold at least.
LEMMA ExtendedBounds ==
  ASSUME NEW key, NEW left \in Int
  PROVE  /\ Extended(key, left) \in Int
         /\ Extended(key, left) >= left
         /\ Extended(key, left) >= Threshold(key)
PROOF BY Horizons DEF Extended

\* A call that keeps alive what it extends preserves the types and the horizon.
LEMMA CallKeeps ==
  ASSUME EntriesOK, HorizonKept, NEW keys, NEW kept, Leaves(keys, kept)
  PROVE  DOMAIN ttl' = keys /\ EntriesOK' /\ HorizonKept'
PROOF
  <1>1. DOMAIN ttl' = keys /\ DOMAIN idle' = keys  BY DEF Leaves, Store, Keep
  <1>2. ASSUME NEW key \in keys
        PROVE  /\ ttl'[key] \in Int /\ ttl'[key] >= -1
               /\ idle'[key] \in 0 .. (Threshold(key) + 1)
               /\ idle'[key] <= Threshold(key) =>
                    ttl'[key] >= Threshold(key) - idle'[key]
    <2>. DEFINE T == Threshold(key)
    <2>0. T \in Nat  BY Horizons
    <2>1. CASE key \in kept
      <3>1. ttl'[key] = Extended(key, Left(key)) /\ idle'[key] = 0
        BY <2>1 DEF Leaves, Store, Keep
      <3>2. Left(key) \in Int
        BY <2>1, TtlAssumption DEF EntriesOK, Left
      <3>3. ttl'[key] \in Int /\ ttl'[key] >= T
        BY <3>1, <3>2, ExtendedBounds
      <3>. QED  BY <2>0, <3>1, <3>3
    <2>2. CASE key \notin kept
      <3>1. key \in DOMAIN ttl  BY <2>2 DEF Leaves
      <3>2. ttl'[key] = ttl[key] /\ idle'[key] = idle[key]
        BY <2>2, <3>1 DEF Leaves, Store, Keep, Left
      <3>. QED  BY <3>1, <3>2 DEF EntriesOK, HorizonKept
    <2>. QED  BY <2>1, <2>2
  <1>3. keys \subseteq Key  BY DEF Leaves
  <1>. QED  BY <1>1, <1>2, <1>3 DEF EntriesOK, HorizonKept

\* The common case: no entry is removed.
LEMMA ExtendLeaves ==
  ASSUME EntriesOK, NEW kept, kept \subseteq Key, Extend(kept)
  PROVE  Leaves(DOMAIN ttl \cup kept, kept)
PROOF BY DEF EntriesOK, Extend, Leaves

LEMMA ExtendKeeps ==
  ASSUME EntriesOK, HorizonKept, NEW kept, kept \subseteq Key, Extend(kept)
  PROVE  DOMAIN ttl' = DOMAIN ttl \cup kept /\ EntriesOK' /\ HorizonKept'
PROOF BY ExtendLeaves, CallKeeps

\* Time: what an entry loses in TTL it gains in idleness.
LEMMA CloseKeeps ==
  ASSUME EntriesOK, HorizonKept, CloseLedger
  PROVE  DOMAIN ttl' = DOMAIN ttl /\ EntriesOK' /\ HorizonKept'
PROOF
  <1>1. DOMAIN ttl' = DOMAIN ttl /\ DOMAIN idle' = DOMAIN ttl
    BY DEF CloseLedger, EntriesOK
  <1>2. ASSUME NEW key \in DOMAIN ttl
        PROVE  /\ ttl'[key] \in Int /\ ttl'[key] >= -1
               /\ idle'[key] \in 0 .. (Threshold(key) + 1)
               /\ idle'[key] <= Threshold(key) =>
                    ttl'[key] >= Threshold(key) - idle'[key]
    <2>1. Threshold(key) \in Nat  BY Horizons
    <2>2. /\ ttl[key] \in Int /\ ttl[key] >= -1
          /\ idle[key] \in 0 .. (Threshold(key) + 1)
          /\ idle[key] <= Threshold(key) => ttl[key] >= Threshold(key) - idle[key]
      BY DEF EntriesOK, HorizonKept
    <2>3. /\ ttl'[key] = IF ttl[key] < 0 THEN -1 ELSE ttl[key] - 1
          /\ idle'[key] = IF idle[key] > Threshold(key) THEN idle[key]
                                                        ELSE idle[key] + 1
      BY DEF CloseLedger, EntriesOK
    <2>. QED  BY <2>1, <2>2, <2>3
  <1>. QED  BY <1>1, <1>2 DEF EntriesOK, HorizonKept

\* A restored entry has lapsed, so nothing is promised of it before its next use.
LEMMA RestoreKeeps ==
  ASSUME EntriesOK, HorizonKept, NEW key \in DOMAIN ttl, Restore(key)
  PROVE  DOMAIN ttl' = DOMAIN ttl /\ EntriesOK' /\ HorizonKept'
PROOF
  <1>1. ttl' = [ttl EXCEPT ![key] = Floor] /\ idle' = idle /\ ttl[key] < 0
    BY DEF Restore
  <1>2. Threshold(key) \in Nat  BY Horizons
  <1>3. idle[key] > Threshold(key)
    BY <1>1, <1>2 DEF EntriesOK, HorizonKept
  <1>4. DOMAIN ttl' = DOMAIN ttl /\ DOMAIN idle' = DOMAIN ttl'
    BY <1>1 DEF EntriesOK
  <1>5. ASSUME NEW k \in DOMAIN ttl
        PROVE  /\ ttl'[k] \in Int /\ ttl'[k] >= -1
               /\ idle'[k] \in 0 .. (Threshold(k) + 1)
               /\ idle'[k] <= Threshold(k) =>
                    ttl'[k] >= Threshold(k) - idle'[k]
    <2>1. CASE k = key
      <3>1. ttl'[k] = Floor  BY <1>1, <2>1
      <3>. QED  BY <1>1, <1>2, <1>3, <2>1, <3>1, TtlAssumption DEF EntriesOK
    <2>2. CASE k # key
      <3>1. ttl'[k] = ttl[k]  BY <1>1, <2>2
      <3>. QED  BY <1>1, <3>1 DEF EntriesOK, HorizonKept
    <2>. QED  BY <2>1, <2>2
  <1>. QED  BY <1>4, <1>5 DEF EntriesOK, HorizonKept

(***************************************************************************)
(* The type invariant.                                                     *)
(***************************************************************************)

\* The part of the type invariant that is about what the entries stand for.
FootprintOK ==
  /\ initialised \in BOOLEAN /\ paused \in BOOLEAN
  /\ next \in Slots
  /\ DOMAIN contracts \subseteq ContractId
  /\ \A id \in DOMAIN contracts : contracts[id] \in 0 .. AbiMax
  /\ Instance \in DOMAIN ttl
  /\ \A id \in ContractId : Contract(id) \in DOMAIN ttl <=> id \in DOMAIN contracts
  /\ \A id \in DOMAIN contracts : \A v \in 0 .. contracts[id] :
        Version(id, v) \in DOMAIN ttl
  /\ unread \subseteq Slots
  /\ \A slot \in unread : EventLog(slot) \in DOMAIN ttl

\* The invariant of types and horizons.
TtlInv == FootprintOK /\ EntriesOK /\ HorizonKept

\* It contains the type invariant.
LEMMA InvTypes == TtlInv => TtlTypeOK
PROOF BY DEF TtlInv, FootprintOK, EntriesOK, TtlTypeOK

\* It holds once the contract is deployed.
LEMMA TtlInvInit == TtlInit => TtlInv
PROOF
  <1>. SUFFICES ASSUME TtlInit PROVE TtlInv  OBVIOUS
  <1>1. DOMAIN ttl = {Instance} /\ DOMAIN idle = {Instance}
        /\ ttl[Instance] = Floor /\ idle[Instance] = Threshold(Instance) + 1
    BY DEF TtlInit
  <1>2. Threshold(Instance) \in Nat  BY Horizons
  <1>3. EntriesOK /\ HorizonKept
    BY <1>1, <1>2, KeysAreKeys, TtlAssumption DEF EntriesOK, HorizonKept
  <1>4. /\ DOMAIN contracts = {} /\ unread = {} /\ next = 0
        /\ initialised = FALSE /\ paused = FALSE
    BY DEF TtlInit
  <1>5. next \in Slots  BY <1>4, TtlAssumption DEF Slots
  <1>6. \A id \in ContractId : Contract(id) \notin DOMAIN ttl
    BY <1>1, KeysDiffer
  <1>7. FootprintOK  BY <1>1, <1>4, <1>5, <1>6 DEF FootprintOK
  <1>. QED  BY <1>3, <1>7 DEF TtlInv

\* A call that registers, removes and submits nothing keeps the footprint.
LEMMA SameFootprint ==
  ASSUME FootprintOK, DOMAIN ttl \subseteq DOMAIN ttl', contracts' = contracts,
         \A id \in ContractId : Contract(id) \in DOMAIN ttl' => Contract(id) \in DOMAIN ttl,
         unread' \subseteq unread, next' \in Slots,
         initialised' \in BOOLEAN, paused' \in BOOLEAN
  PROVE  FootprintOK'
PROOF BY DEF FootprintOK

\* The calls that only extend entries, which exist already or are event slots.
LEMMA ExtendingCall ==
  ASSUME TtlInv, NEW kept, kept \subseteq Key, Extend(kept),
         \A id \in ContractId : Contract(id) \in kept => Contract(id) \in DOMAIN ttl,
         contracts' = contracts, unread' \subseteq unread, next' \in Slots,
         initialised' \in BOOLEAN, paused' \in BOOLEAN
  PROVE  TtlInv'
PROOF
  <1>1. DOMAIN ttl' = DOMAIN ttl \cup kept /\ EntriesOK' /\ HorizonKept'
    BY ExtendKeeps DEF TtlInv
  <1>2. FootprintOK'  BY <1>1, SameFootprint DEF TtlInv
  <1>. QED  BY <1>1, <1>2 DEF TtlInv

\* register_contract creates the current entry and the entry of version 0.
LEMMA RegisterKeepsInv ==
  ASSUME TtlInv, NEW id \in ContractId, register_contract(id)
  PROVE  TtlInv'
PROOF
  <1>. DEFINE kept == {Instance, Contract(id), Version(id, 0)}
  <1>1. kept \subseteq Key  BY KeysAreKeys, TtlAssumption
  <1>2. DOMAIN ttl' = DOMAIN ttl \cup kept /\ EntriesOK' /\ HorizonKept'
    BY <1>1, ExtendKeeps DEF TtlInv, register_contract
  <1>3. /\ contracts' = [x \in DOMAIN contracts \cup {id} |->
                           IF x = id THEN 0 ELSE contracts[x]]
        /\ UNCHANGED <<initialised, paused, next, unread>>
    BY DEF register_contract
  <1>4. \A x \in ContractId : Contract(x) \in DOMAIN ttl' <=> x \in DOMAIN contracts'
    BY <1>2, <1>3, KeysDiffer DEF TtlInv, FootprintOK
  <1>5. \A x \in DOMAIN contracts' : \A v \in 0 .. contracts'[x] :
          Version(x, v) \in DOMAIN ttl'
    BY <1>2, <1>3 DEF TtlInv, FootprintOK
  <1>6. FootprintOK'
    BY <1>2, <1>3, <1>4, <1>5, TtlAssumption DEF TtlInv, FootprintOK
  <1>. QED  BY <1>2, <1>6 DEF TtlInv

\* update_contract creates the entry of the next version.
LEMMA UpdateKeepsInv ==
  ASSUME TtlInv, NEW id \in ContractId, update_contract(id)
  PROVE  TtlInv'
PROOF
  <1>. DEFINE abi  == contracts[id]
              kept == {Instance, Contract(id), Version(id, abi + 1)}
  <1>0. /\ id \in DOMAIN contracts /\ abi \in 0 .. AbiMax /\ abi < AbiMax
        /\ AbiMax \in Nat
    BY TtlAssumption DEF update_contract, TtlInv, FootprintOK
  <1>a. abi + 1 \in 0 .. AbiMax  BY <1>0
  <1>1. kept \subseteq Key  BY <1>a, KeysAreKeys
  <1>2. DOMAIN ttl' = DOMAIN ttl \cup kept /\ EntriesOK' /\ HorizonKept'
    BY <1>1, ExtendKeeps DEF TtlInv, update_contract
  <1>3. /\ contracts' = [contracts EXCEPT ![id] = abi + 1]
        /\ UNCHANGED <<initialised, paused, next, unread>>
    BY DEF update_contract
  <1>4. \A x \in ContractId : Contract(x) \in DOMAIN ttl' <=> x \in DOMAIN contracts'
    BY <1>0, <1>2, <1>3, KeysDiffer DEF TtlInv, FootprintOK
  <1>5. ASSUME NEW x \in DOMAIN contracts', NEW v \in 0 .. contracts'[x]
        PROVE  Version(x, v) \in DOMAIN ttl'
    <2>1. CASE x # id  BY <1>2, <1>3, <2>1 DEF TtlInv, FootprintOK
    <2>2. CASE x = id
      <3>1. v \in 0 .. (abi + 1)  BY <1>0, <1>3, <2>2
      <3>2. v \in 0 .. abi \/ v = abi + 1  BY <1>0, <3>1
      <3>. QED  BY <1>0, <1>2, <2>2, <3>2 DEF TtlInv, FootprintOK
    <2>. QED  BY <2>1, <2>2
  <1>6. /\ DOMAIN contracts' = DOMAIN contracts
        /\ \A x \in DOMAIN contracts' : contracts'[x] \in 0 .. AbiMax
    BY <1>a, <1>0, <1>3 DEF TtlInv, FootprintOK
  <1>7. FootprintOK'
    BY <1>2, <1>3, <1>4, <1>5, <1>6 DEF TtlInv, FootprintOK
  <1>. QED  BY <1>2, <1>7 DEF TtlInv

\* deregister_contract removes the current entry and no other.
LEMMA DeregisterKeepsInv ==
  ASSUME TtlInv, NEW id \in ContractId, deregister_contract(id)
  PROVE  TtlInv'
PROOF
  <1>. DEFINE keys == DOMAIN ttl \ {Contract(id)}
  <1>1. Leaves(keys, {Instance})
    BY KeysDiffer, KeysAreKeys
       DEF deregister_contract, Removed, Leaves, Usable, TtlInv, FootprintOK, EntriesOK
  <1>2. DOMAIN ttl' = keys /\ EntriesOK' /\ HorizonKept'
    BY <1>1, CallKeeps DEF TtlInv
  <1>3. /\ DOMAIN contracts' = DOMAIN contracts \ {id}
        /\ \A x \in DOMAIN contracts' : contracts'[x] = contracts[x]
        /\ UNCHANGED <<initialised, paused, next, unread>>
    BY DEF deregister_contract, Restrict
  <1>4. \A x \in ContractId : Contract(x) \in DOMAIN ttl' <=> x \in DOMAIN contracts'
    BY <1>2, <1>3, KeysDiffer DEF TtlInv, FootprintOK
  <1>5. \A x \in DOMAIN contracts' : \A v \in 0 .. contracts'[x] :
          Version(x, v) \in DOMAIN ttl'
    BY <1>2, <1>3, KeysDiffer DEF TtlInv, FootprintOK
  <1>6. \A slot \in unread' : EventLog(slot) \in DOMAIN ttl'
    BY <1>2, <1>3, KeysDiffer DEF TtlInv, FootprintOK
  <1>7. Instance \in DOMAIN ttl'
    BY <1>2, KeysDiffer DEF TtlInv, FootprintOK
  <1>8. FootprintOK'
    BY <1>3, <1>4, <1>5, <1>6, <1>7 DEF TtlInv, FootprintOK
  <1>. QED  BY <1>2, <1>8 DEF TtlInv

\* What submit_event leaves.
LEMMA SubmitLeaves ==
  ASSUME TtlInv, submit_event
  PROVE  Leaves(DOMAIN ttl \cup {EventLog(next)}, {EventLog(next), Instance})
PROOF BY KeysAreKeys
      DEF submit_event, SubmitExtends, Leaves, Usable, TtlInv, FootprintOK, EntriesOK

\* submit_event creates or overwrites one slot.
LEMMA SubmitKeepsInv == ASSUME TtlInv, submit_event PROVE TtlInv'
PROOF
  <1>1. DOMAIN ttl' = DOMAIN ttl \cup {EventLog(next)} /\ EntriesOK' /\ HorizonKept'
    BY SubmitLeaves, CallKeeps DEF TtlInv
  <1>2. next \in Slots /\ next' = (next + 1) % Capacity
    BY DEF submit_event, TtlInv, FootprintOK
  <1>3. next' \in Slots
    <2>1. next + 1 \in Int /\ Capacity \in Int /\ Capacity > 0
      BY <1>2, TtlAssumption DEF Slots
    <2>2. (next + 1) % Capacity \in 0 .. (Capacity - 1)  BY <2>1
    <2>. QED  BY <1>2, <2>2 DEF Slots
  <1>4. /\ unread' = unread \cup {next}
        /\ UNCHANGED <<initialised, paused, contracts>>
    BY DEF submit_event
  <1>5. \A x \in ContractId : Contract(x) \in DOMAIN ttl' <=> x \in DOMAIN contracts'
    BY <1>1, <1>4, KeysDiffer DEF TtlInv, FootprintOK
  <1>6. FootprintOK'
    BY <1>1, <1>2, <1>3, <1>4, <1>5 DEF TtlInv, FootprintOK
  <1>. QED  BY <1>1, <1>6 DEF TtlInv

\* Every step preserves the invariant.
LEMMA TtlInvStep == TtlInv /\ [TtlNext]_ttlVars => TtlInv'
PROOF
  <1>. SUFFICES ASSUME TtlInv, [TtlNext]_ttlVars PROVE TtlInv'  OBVIOUS
  <1>. USE KeysAreKeys, KeysDiffer
  <1>0. /\ Instance \in DOMAIN ttl /\ next \in Slots
        /\ initialised \in BOOLEAN /\ paused \in BOOLEAN
    BY DEF TtlInv, FootprintOK
  <1>1. CASE init
    <2>1. Extend({Instance}) /\ initialised' = TRUE
          /\ UNCHANGED <<paused, next, contracts, unread>>
      BY <1>1 DEF init
    <2>. QED  BY <1>0, <2>1, ExtendingCall
  <1>2. CASE Administer
    <2>1. Extend({Instance})
          /\ UNCHANGED <<initialised, paused, next, contracts, unread>>
      BY <1>2 DEF Administer
    <2>. QED  BY <1>0, <2>1, ExtendingCall
  <1>3. CASE set_max_events
    <2>1. Extend({Instance}) /\ next' \in Slots
          /\ UNCHANGED <<initialised, paused, contracts, unread>>
      BY <1>3 DEF set_max_events
    <2>. QED  BY <1>0, <2>1, ExtendingCall
  <1>4. ASSUME NEW value \in BOOLEAN, SetPaused(value) PROVE TtlInv'
    <2>1. Extend({Instance}) /\ paused' = value
          /\ UNCHANGED <<initialised, next, contracts, unread>>
      BY <1>4 DEF SetPaused
    <2>. QED  BY <1>0, <2>1, ExtendingCall
  <1>5. ASSUME NEW id \in ContractId, RegistryCall(id) PROVE TtlInv'
    <2>1. CASE register_contract(id)  BY <2>1, RegisterKeepsInv
    <2>2. CASE update_contract(id)  BY <2>2, UpdateKeepsInv
    <2>3. CASE deregister_contract(id)  BY <2>3, DeregisterKeepsInv
    <2>4. CASE get_contract(id)
      <3>1. Extend({Contract(id)}) /\ id \in DOMAIN contracts
            /\ UNCHANGED <<initialised, paused, next, contracts, unread>>
        BY <2>4 DEF get_contract
      <3>2. Contract(id) \in DOMAIN ttl  BY <3>1 DEF TtlInv, FootprintOK
      <3>. QED  BY <1>0, <3>1, <3>2, ExtendingCall
    <2>5. ASSUME NEW v \in 0 .. AbiMax, get_contract_version(id, v) PROVE TtlInv'
      <3>1. Extend({Version(id, v)})
            /\ UNCHANGED <<initialised, paused, next, contracts, unread>>
        BY <2>5 DEF get_contract_version
      <3>. QED  BY <1>0, <3>1, ExtendingCall
    <2>. QED  BY <1>5, <2>1, <2>2, <2>3, <2>4, <2>5 DEF RegistryCall
  <1>6. CASE submit_event  BY <1>6, SubmitKeepsInv
  <1>7. ASSUME NEW slot \in Slots, get_event(slot) PROVE TtlInv'
    <2>1. Extend({EventLog(slot)}) /\ unread' \subseteq unread
          /\ UNCHANGED <<initialised, paused, next, contracts>>
      BY <1>7 DEF get_event
    <2>. QED  BY <1>0, <2>1, ExtendingCall
  <1>8. ASSUME NEW key \in DOMAIN ttl, Restore(key) PROVE TtlInv'
    <2>1. DOMAIN ttl' = DOMAIN ttl /\ EntriesOK' /\ HorizonKept'
      BY <1>8, RestoreKeeps DEF TtlInv
    <2>2. unread' \subseteq unread
          /\ UNCHANGED <<initialised, paused, next, contracts>>
      BY <1>8 DEF Restore
    <2>3. FootprintOK'  BY <1>0, <2>1, <2>2, SameFootprint DEF TtlInv
    <2>. QED  BY <2>1, <2>3 DEF TtlInv
  <1>9. CASE CloseLedger
    <2>1. DOMAIN ttl' = DOMAIN ttl /\ EntriesOK' /\ HorizonKept'
      BY <1>9, CloseKeeps DEF TtlInv
    <2>2. UNCHANGED <<initialised, paused, next, contracts, unread>>
      BY <1>9 DEF CloseLedger
    <2>3. FootprintOK'  BY <1>0, <2>1, <2>2, SameFootprint DEF TtlInv
    <2>. QED  BY <2>1, <2>3 DEF TtlInv
  <1>10. CASE UNCHANGED ttlVars
    BY <1>10 DEF ttlVars, TtlInv, FootprintOK, EntriesOK, HorizonKept
  <1>. QED
    BY <1>1, <1>2, <1>3, <1>4, <1>5, <1>6, <1>7, <1>8, <1>9, <1>10 DEF TtlNext

\* The invariant of types and horizons holds in every reachable state.
LEMMA TtlInvariant == TtlSpec => []TtlInv
PROOF BY TtlInvInit, TtlInvStep, PTL DEF TtlSpec

\* The entries in storage are those the contract's state stands for, for any
\* number of contracts, versions and slots.
THEOREM TtlTypeCorrect == TtlSpec => []TtlTypeOK
PROOF BY TtlInvariant, InvTypes, PTL

\* For all horizons: what is used at most a threshold apart stays live.
THEOREM HorizonAlwaysKept == TtlSpec => []HorizonKept
PROOF
  <1>1. TtlInv => HorizonKept  BY DEF TtlInv
  <1>. QED  BY <1>1, TtlInvariant, PTL

(***************************************************************************)
(* Unread events and the instance.                                         *)
(***************************************************************************)

\* The code's horizons, and the network's floor, are ordered this way.
EventsShorter ==
  EventBump <= InstanceBump - Day /\ Floor <= InstanceBump - Day

\* No slot has more to live than an instance that was just extended.
SlotsBounded ==
  \A slot \in Slots : EventLog(slot) \in DOMAIN ttl =>
    ttl[EventLog(slot)] <= Threshold(Instance)

WithinInv == SlotsBounded /\ EventsWithinInstance

\* A call preserves it if it writes a slot only together with extending the
\* instance, and a slot it extends otherwise counts as read.
LEMMA CallKeepsWithin ==
  ASSUME EventsShorter, TtlInv, WithinInv,
         NEW keys, NEW kept, Leaves(keys, kept), Instance \in keys,
         unread' \subseteq Slots,
         \A slot \in unread' :
           \/ slot \in unread /\ EventLog(slot) \in keys \ kept
           \/ EventLog(slot) \in kept /\ Instance \in kept
  PROVE  WithinInv'
PROOF
  <1>1. DOMAIN ttl' = keys
        /\ \A key \in keys : ttl'[key] = IF key \in kept
                                        THEN Extended(key, Left(key)) ELSE Left(key)
    BY DEF Leaves, Store
  <1>2. Threshold(Instance) \in Nat /\ Threshold(Instance) = InstanceBump - Day
    BY Horizons
  <1>3. ASSUME NEW key \in keys PROVE Left(key) \in Int
    BY TtlAssumption DEF Left, TtlInv, EntriesOK
  <1>4. Instance \in DOMAIN ttl  BY DEF TtlInv, FootprintOK
  <1>5. /\ ttl[Instance] \in Int /\ ttl'[Instance] \in Int
        /\ ttl'[Instance] >= ttl[Instance]
        /\ Instance \in kept => ttl'[Instance] >= Threshold(Instance)
    <2>1. Left(Instance) = ttl[Instance]  BY <1>4 DEF Left
    <2>2. ttl[Instance] \in Int  BY <1>4 DEF TtlInv, EntriesOK
    <2>. QED  BY <1>1, <2>1, <2>2, ExtendedBounds
  <1>6. ASSUME NEW slot \in Slots, EventLog(slot) \in keys
        PROVE  /\ ttl'[EventLog(slot)] \in Int
               /\ ttl'[EventLog(slot)] <= Threshold(Instance)
    <2>. DEFINE key == EventLog(slot)
    <2>1. Left(key) \in Int  BY <1>3, <1>6
    <2>2. Left(key) <= Threshold(Instance)
      BY <1>2, TtlAssumption DEF Left, WithinInv, SlotsBounded, EventsShorter
    <2>3. Horizon(key) = EventBump /\ EventBump \in Nat
      BY Horizons, TtlAssumption
    <2>4. Extended(key, Left(key)) \in {EventBump, Left(key)}
      BY <2>3 DEF Extended
    <2>. QED  BY <1>1, <1>2, <1>6, <2>1, <2>2, <2>3, <2>4 DEF EventsShorter
  <1>7. SlotsBounded'  BY <1>1, <1>2, <1>6 DEF SlotsBounded, Threshold, Horizon
  <1>8. ASSUME NEW slot \in unread', ttl'[EventLog(slot)] >= 0
        PROVE  ttl'[Instance] >= ttl'[EventLog(slot)]
    <2>1. CASE slot \in unread /\ EventLog(slot) \in keys \ kept
      <3>1. EventLog(slot) \in DOMAIN ttl
        BY <2>1 DEF TtlInv, FootprintOK
      <3>2. ttl'[EventLog(slot)] = ttl[EventLog(slot)]
            /\ ttl[EventLog(slot)] \in Int
        BY <1>1, <2>1, <3>1 DEF Left, TtlInv, EntriesOK
      <3>3. ttl[Instance] >= ttl[EventLog(slot)]
        BY <1>8, <2>1, <3>2 DEF WithinInv, EventsWithinInstance
      <3>. QED  BY <1>5, <3>2, <3>3
    <2>2. CASE EventLog(slot) \in kept /\ Instance \in kept
      <3>1. EventLog(slot) \in keys  BY <2>2 DEF Leaves
      <3>. QED  BY <1>2, <1>5, <1>6, <2>2, <3>1
    <2>. QED  BY <2>1, <2>2
  <1>9. EventsWithinInstance'  BY <1>8 DEF EventsWithinInstance
  <1>. QED  BY <1>7, <1>9 DEF WithinInv

\* The calls that write no slot.
LEMMA ExtendKeepsWithin ==
  ASSUME EventsShorter, TtlInv, WithinInv, NEW kept, kept \subseteq Key,
         Extend(kept), unread' \subseteq unread,
         \A slot \in unread' : EventLog(slot) \notin kept
  PROVE  WithinInv'
PROOF
  <1>1. Leaves(DOMAIN ttl \cup kept, kept)  BY ExtendLeaves DEF TtlInv
  <1>2. Instance \in DOMAIN ttl /\ unread \subseteq Slots
        /\ \A slot \in unread : EventLog(slot) \in DOMAIN ttl
    BY DEF TtlInv, FootprintOK
  <1>. QED  BY <1>1, <1>2, CallKeepsWithin

\* deregister_contract leaves the slots alone.
LEMMA DeregisterKeepsWithin ==
  ASSUME EventsShorter, TtlInv, WithinInv, NEW id \in ContractId,
         deregister_contract(id)
  PROVE  WithinInv'
PROOF
  <1>. DEFINE keys == DOMAIN ttl \ {Contract(id)}
  <1>1. Leaves(keys, {Instance})
    BY KeysDiffer, KeysAreKeys
       DEF deregister_contract, Removed, Leaves, Usable, TtlInv, FootprintOK, EntriesOK
  <1>2. unread' = unread  BY DEF deregister_contract
  <1>3. Instance \in keys /\ unread' \subseteq Slots
        /\ \A slot \in unread' : EventLog(slot) \in keys \ {Instance}
    BY <1>2, KeysDiffer DEF TtlInv, FootprintOK
  <1>. HIDE DEF keys
  <1>. QED  BY <1>1, <1>2, <1>3, CallKeepsWithin

\* submit_event extends the instance past the slot it writes.
LEMMA SubmitKeepsWithin ==
  ASSUME EventsShorter, TtlInv, WithinInv, submit_event
  PROVE  WithinInv'
PROOF
  <1>. DEFINE kept == {EventLog(next), Instance}
              keys == DOMAIN ttl \cup {EventLog(next)}
  <1>1. Leaves(keys, kept)  BY SubmitLeaves
  <1>2. /\ unread' = unread \cup {next} /\ next \in Slots /\ unread \subseteq Slots
        /\ \A slot \in unread : EventLog(slot) \in DOMAIN ttl
        /\ Instance \in DOMAIN ttl
    BY DEF submit_event, TtlInv, FootprintOK
  <1>3. \A slot \in unread' :
           \/ slot \in unread /\ EventLog(slot) \in keys \ kept
           \/ EventLog(slot) \in kept /\ Instance \in kept
    BY <1>2, KeysDiffer
  <1>4. Instance \in keys  BY <1>2
  <1>. HIDE DEF kept, keys
  <1>5. unread' \subseteq Slots  BY ONLY <1>2
  <1>. QED  BY <1>1, <1>3, <1>4, <1>5, CallKeepsWithin

\* Time takes the same from the instance as from the slots.
LEMMA CloseKeepsWithin ==
  ASSUME TtlInv, WithinInv, CloseLedger
  PROVE  WithinInv'
PROOF
  <1>1. unread' = unread /\ DOMAIN ttl' = DOMAIN ttl
        /\ \A key \in DOMAIN ttl :
              ttl'[key] = IF ttl[key] < 0 THEN -1 ELSE ttl[key] - 1
    BY DEF CloseLedger
  <1>2. /\ Instance \in DOMAIN ttl
        /\ \A slot \in unread : EventLog(slot) \in DOMAIN ttl
        /\ \A key \in DOMAIN ttl : ttl[key] \in Int
    BY DEF TtlInv, FootprintOK, EntriesOK
  <1>3. Threshold(Instance) \in Nat  BY Horizons
  <1>4. SlotsBounded'
    <2>1. ASSUME NEW slot \in Slots, EventLog(slot) \in DOMAIN ttl
          PROVE  ttl'[EventLog(slot)] <= Threshold(Instance)
      <3>1. ttl[EventLog(slot)] <= Threshold(Instance)
        BY <2>1 DEF WithinInv, SlotsBounded
      <3>2. ttl[EventLog(slot)] \in Int  BY <1>2, <2>1
      <3>3. ttl'[EventLog(slot)] = IF ttl[EventLog(slot)] < 0
                                   THEN -1 ELSE ttl[EventLog(slot)] - 1
        BY <1>1, <2>1
      <3>. HIDE DEF EventLog, Instance
      <3>. QED  BY ONLY <1>3, <3>1, <3>2, <3>3
    <2>. QED  BY <1>1, <2>1 DEF SlotsBounded
  <1>5. EventsWithinInstance'
    BY <1>1, <1>2 DEF WithinInv, EventsWithinInstance
  <1>. QED  BY <1>4, <1>5 DEF WithinInv

\* When the instance is restored no unread event is live.
LEMMA RestoreKeepsWithin ==
  ASSUME EventsShorter, TtlInv, WithinInv, NEW key \in DOMAIN ttl, Restore(key)
  PROVE  WithinInv'
PROOF
  <1>1. /\ ttl[key] < 0 /\ DOMAIN ttl' = DOMAIN ttl
        /\ \A k \in DOMAIN ttl : ttl'[k] = IF k = key THEN Floor ELSE ttl[k]
        /\ \A slot \in unread' : slot \in unread /\ EventLog(slot) # key
    BY DEF Restore
  <1>2. /\ Instance \in DOMAIN ttl
        /\ \A slot \in unread : EventLog(slot) \in DOMAIN ttl
        /\ \A k \in DOMAIN ttl : ttl[k] \in Int
    BY DEF TtlInv, FootprintOK, EntriesOK
  <1>3. Threshold(Instance) = InstanceBump - Day  BY Horizons
  <1>4. SlotsBounded'
    BY <1>1, <1>3, TtlAssumption DEF WithinInv, SlotsBounded, EventsShorter
  <1>5. ASSUME NEW slot \in unread', ttl'[EventLog(slot)] >= 0
        PROVE  ttl'[Instance] >= ttl'[EventLog(slot)]
    <2>1. slot \in unread /\ ttl'[EventLog(slot)] = ttl[EventLog(slot)]
      BY <1>1, <1>2
    <2>2. ttl[Instance] >= ttl[EventLog(slot)]
      BY <1>5, <2>1 DEF WithinInv, EventsWithinInstance
    <2>3. Instance # key  BY <1>1, <1>2, <1>5, <2>1, <2>2
    <2>. QED  BY <1>1, <1>2, <2>1, <2>2, <2>3
  <1>. QED  BY <1>4, <1>5 DEF WithinInv, EventsWithinInstance

\* Every step preserves it.
LEMMA WithinStep ==
  ASSUME EventsShorter
  PROVE  TtlInv /\ WithinInv /\ [TtlNext]_ttlVars => WithinInv'
PROOF
  <1>. SUFFICES ASSUME TtlInv, WithinInv, [TtlNext]_ttlVars PROVE WithinInv'
    OBVIOUS
  <1>. USE KeysAreKeys, KeysDiffer
  <1>1. ASSUME Extend({Instance}), unread' = unread PROVE WithinInv'
    BY <1>1, ExtendKeepsWithin
  <1>2. CASE init \/ Administer \/ set_max_events \/ SetPaused(TRUE) \/ SetPaused(FALSE)
    <2>1. Extend({Instance}) /\ unread' = unread
      BY <1>2 DEF init, Administer, set_max_events, SetPaused
    <2>. QED  BY <1>1, <2>1
  <1>3. ASSUME NEW id \in ContractId, RegistryCall(id) PROVE WithinInv'
    <2>1. CASE register_contract(id)
      <3>1. Extend({Instance, Contract(id), Version(id, 0)}) /\ unread' = unread
        BY <2>1 DEF register_contract
      <3>2. 0 \in 0 .. AbiMax  BY TtlAssumption
      <3>. QED  BY <3>1, <3>2, ExtendKeepsWithin
    <2>2. CASE update_contract(id)
      <3>1. Extend({Instance, Contract(id), Version(id, contracts[id] + 1)})
            /\ unread' = unread
        BY <2>2 DEF update_contract
      <3>2. contracts[id] + 1 \in 0 .. AbiMax
        BY <2>2, TtlAssumption DEF update_contract, TtlInv, FootprintOK
      <3>. QED  BY <3>1, <3>2, ExtendKeepsWithin
    <2>3. CASE deregister_contract(id)  BY <2>3, DeregisterKeepsWithin
    <2>4. CASE get_contract(id)
      <3>1. Extend({Contract(id)}) /\ unread' = unread
        BY <2>4 DEF get_contract
      <3>. QED  BY <3>1, ExtendKeepsWithin
    <2>5. ASSUME NEW v \in 0 .. AbiMax, get_contract_version(id, v) PROVE WithinInv'
      <3>1. Extend({Version(id, v)}) /\ unread' = unread
        BY <2>5 DEF get_contract_version
      <3>. QED  BY <3>1, ExtendKeepsWithin
    <2>. QED  BY <1>3, <2>1, <2>2, <2>3, <2>4, <2>5 DEF RegistryCall
  <1>4. CASE submit_event  BY <1>4, SubmitKeepsWithin
  <1>5. ASSUME NEW slot \in Slots, get_event(slot) PROVE WithinInv'
    <2>1. Extend({EventLog(slot)}) /\ unread' = unread \ {slot}
      BY <1>5 DEF get_event
    <2>. QED  BY <2>1, ExtendKeepsWithin
  <1>6. ASSUME NEW key \in DOMAIN ttl, Restore(key) PROVE WithinInv'
    BY <1>6, RestoreKeepsWithin
  <1>7. CASE CloseLedger  BY <1>7, CloseKeepsWithin
  <1>8. CASE UNCHANGED ttlVars
    BY <1>8 DEF ttlVars, WithinInv, SlotsBounded, EventsWithinInstance
  <1>. QED  BY <1>2, <1>3, <1>4, <1>5, <1>6, <1>7, <1>8 DEF TtlNext

\* For all horizons of which the event horizon fits into the instance's
\* threshold: an unread event never outlives the instance.
THEOREM UnreadWithinInstance ==
  ASSUME EventsShorter
  PROVE  TtlSpec => []EventsWithinInstance
PROOF
  <1>1. TtlInit => WithinInv
    BY KeysDiffer DEF TtlInit, WithinInv, SlotsBounded, EventsWithinInstance
  <1>2. WithinInv => EventsWithinInstance  BY DEF WithinInv
  <1>. QED  BY <1>1, <1>2, TtlInvariant, WithinStep, PTL DEF TtlSpec
=============================================================================
