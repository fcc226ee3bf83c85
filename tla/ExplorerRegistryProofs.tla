----------------------- MODULE ExplorerRegistryProofs -----------------------
(***************************************************************************)
(* Proofs about ExplorerRegistry, for every choice of its constants.       *)
(***************************************************************************)
EXTENDS ExplorerRegistry, ExplorerInstanceProofs

\* The inductive invariant: the types, the history and its order by ledger.
RegistryInv == RegistryTypeOK /\ HistoryIsServed /\ MinLedgerOrdersVersions

-----------------------------------------------------------------------------
(***************************************************************************)
(* A write of one metadata record, by a registration or an update.         *)
(***************************************************************************)

\* Both entries of the metadata, and every other entry as it was.
Written(id, meta) ==
  /\ DOMAIN contracts' = DOMAIN contracts \cup {id}
  /\ contracts'[id] = meta
  /\ \A x \in DOMAIN contracts : x # id => contracts'[x] = contracts[x]
  /\ DOMAIN versions' = DOMAIN versions \cup {<<id, meta.abi_version>>}
  /\ versions'[<<id, meta.abi_version>>] = meta
  /\ \A key \in DOMAIN versions :
       key # <<id, meta.abi_version>> => versions'[key] = versions[key]

\* What register_contract and update_contract leave in storage.
LEMMA WriteEffect ==
  ASSUME NEW id, NEW meta, Write(id, meta)
  PROVE  Written(id, meta)
BY DEF Write, Put, Written

\* The entries keep their types.
LEMMA WriteKeepsTypes ==
  ASSUME RegistryTypeOK, NEW id \in ContractId, NEW meta \in ContractMeta,
         Write(id, meta)
  PROVE  /\ DOMAIN contracts' \subseteq ContractId
         /\ \A x \in DOMAIN contracts' : contracts'[x] \in ContractMeta
         /\ DOMAIN versions' \subseteq ContractId \X (0 .. AbiMax)
         /\ \A key \in DOMAIN versions' :
              /\ versions'[key] \in ContractMeta
              /\ versions'[key].abi_version = key[2]
<1>0. Written(id, meta)
  BY WriteEffect
<1>1. meta.abi_version \in 0 .. AbiMax
  BY DEF ContractMeta
<1>2. /\ DOMAIN contracts' \subseteq ContractId
      /\ \A x \in DOMAIN contracts' : contracts'[x] \in ContractMeta
  BY <1>0 DEF Written, RegistryTypeOK
<1>3. DOMAIN versions' \subseteq ContractId \X (0 .. AbiMax)
  BY <1>0, <1>1 DEF Written, RegistryTypeOK
<1>4. ASSUME NEW key \in DOMAIN versions'
      PROVE  versions'[key] \in ContractMeta /\ versions'[key].abi_version = key[2]
  <2>1. CASE key = <<id, meta.abi_version>>
    <3>1. versions'[key] = meta /\ key[2] = meta.abi_version
      BY <1>0, <2>1 DEF Written
    <3> QED
      BY <3>1
  <2>2. CASE key # <<id, meta.abi_version>>
    <3>1. key \in DOMAIN versions /\ versions'[key] = versions[key]
      BY <1>0, <2>2 DEF Written
    <3> QED
      BY <3>1 DEF RegistryTypeOK
  <2> QED
    BY <2>1, <2>2
<1> QED
  BY <1>2, <1>3, <1>4

\* If the versions below the one written are the history h says they are, the
\* write leaves a served history.
LEMMA WriteServesHistory ==
  ASSUME RegistryTypeOK, HistoryIsServed,
         NEW id \in ContractId, NEW meta \in ContractMeta, Write(id, meta),
         NEW h \in Seq(ContractMeta), accepted' = [accepted EXCEPT ![id] = h],
         Len(h) = meta.abi_version + 1, h[meta.abi_version + 1] = meta,
         \A v \in 0 .. (meta.abi_version - 1) :
            <<id, v>> \in DOMAIN versions /\ versions[<<id, v>>] = h[v + 1]
  PROVE  HistoryIsServed'
<1>0. Written(id, meta)
  BY WriteEffect
<1>1. meta.abi_version \in Nat
  BY RegistryAssumption DEF ContractMeta
<1>2. accepted'[id] = h /\ \A x \in ContractId : x # id => accepted'[x] = accepted[x]
  BY DEF RegistryTypeOK
<1>3. DOMAIN contracts \subseteq ContractId
  BY DEF RegistryTypeOK
<1>4. ASSUME NEW x \in DOMAIN contracts',
             NEW v \in 0 .. contracts'[x].abi_version
      PROVE  /\ Len(accepted'[x]) = contracts'[x].abi_version + 1
             /\ contracts'[x] = accepted'[x][contracts'[x].abi_version + 1]
             /\ <<x, v>> \in DOMAIN versions'
             /\ versions'[<<x, v>>] = accepted'[x][v + 1]
  <2>1. CASE x = id /\ v = meta.abi_version
    BY <1>0, <1>2, <2>1 DEF Written
  <2>2. CASE x = id /\ v # meta.abi_version
    <3>1. v \in 0 .. (meta.abi_version - 1)
      BY <1>0, <1>1, <2>2 DEF Written
    <3>2. <<id, v>> # <<id, meta.abi_version>>
      BY <2>2
    <3> QED
      BY <1>0, <1>2, <2>2, <3>1, <3>2 DEF Written
  <2>3. CASE x # id
    <3>1. x \in DOMAIN contracts /\ contracts'[x] = contracts[x]
      BY <1>0, <2>3 DEF Written
    <3>2. accepted'[x] = accepted[x]
      BY <1>2, <1>3, <2>3, <3>1
    <3>3. /\ Len(accepted[x]) = contracts[x].abi_version + 1
          /\ contracts[x] = accepted[x][contracts[x].abi_version + 1]
          /\ <<x, v>> \in DOMAIN versions
          /\ versions[<<x, v>>] = accepted[x][v + 1]
      BY <3>1 DEF HistoryIsServed
    <3>4. <<x, v>> # <<id, meta.abi_version>>
      BY <2>3
    <3> QED
      BY <1>0, <3>1, <3>2, <3>3, <3>4 DEF Written
  <2> QED
    BY <2>1, <2>2, <2>3
<1>5. \A x \in DOMAIN contracts' : contracts'[x].abi_version \in Nat
  BY WriteKeepsTypes, RegistryAssumption DEF ContractMeta
<1>6. \A x \in DOMAIN contracts' : 0 \in 0 .. contracts'[x].abi_version
  BY <1>5
<1> QED
  BY <1>4, <1>6 DEF HistoryIsServed

\* If the versions below the one written are ordered by ledger, the write, which
\* is stamped with the current ledger, leaves them ordered.
LEMMA WriteKeepsOrder ==
  ASSUME RegistryTypeOK, MinLedgerOrdersVersions,
         NEW id \in ContractId, NEW meta \in ContractMeta, Write(id, meta),
         meta.min_ledger = ledger, ledger' = ledger,
         \A w \in 0 .. (meta.abi_version - 1) :
            /\ <<id, w>> \in DOMAIN versions
            /\ versions[<<id, w>>].min_ledger <= ledger
            /\ \A v \in 0 .. w :
                 versions[<<id, v>>].min_ledger <= versions[<<id, w>>].min_ledger,
         HistoryIsServed
  PROVE  MinLedgerOrdersVersions'
<1>0. Written(id, meta)
  BY WriteEffect
<1>1. meta.abi_version \in Nat /\ ledger \in Nat
  BY RegistryAssumption DEF ContractMeta, RegistryTypeOK
<1>2. SUFFICES ASSUME NEW x \in DOMAIN contracts',
                      NEW w \in 0 .. contracts'[x].abi_version
               PROVE  /\ versions'[<<x, w>>].min_ledger <= ledger
                      /\ \A v \in 0 .. w : versions'[<<x, v>>].min_ledger
                                             <= versions'[<<x, w>>].min_ledger
  BY DEF MinLedgerOrdersVersions
<1>3. CASE x = id
  <2>1. contracts'[x].abi_version = meta.abi_version
    BY <1>0, <1>3 DEF Written
  <2>2. \A v \in 0 .. (meta.abi_version - 1) :
           versions'[<<id, v>>] = versions[<<id, v>>]
    <3>1. TAKE v \in 0 .. (meta.abi_version - 1)
    <3>2. <<id, v>> # <<id, meta.abi_version>> /\ <<id, v>> \in DOMAIN versions
      BY <1>1
    <3> QED
      BY <1>0, <3>2 DEF Written
  <2>3. versions'[<<id, meta.abi_version>>].min_ledger = ledger
    BY <1>0 DEF Written
  <2>4. \A v \in 0 .. meta.abi_version :
           v # meta.abi_version => v \in 0 .. (meta.abi_version - 1)
    BY <1>1
  <2>5. CASE w = meta.abi_version
    <3>1. ASSUME NEW v \in 0 .. w
          PROVE  versions'[<<id, v>>].min_ledger <= ledger
      BY <1>1, <2>2, <2>3, <2>4, <2>5
    <3> QED
      BY <1>1, <1>3, <2>3, <2>5, <3>1
  <2>6. CASE w # meta.abi_version
    <3>1. w \in 0 .. (meta.abi_version - 1)
      BY <2>1, <2>4, <2>6
    <3>2. \A v \in 0 .. w : v \in 0 .. (meta.abi_version - 1)
      BY <1>1, <3>1
    <3> QED
      BY <1>3, <2>2, <3>1, <3>2
  <2> QED
    BY <2>5, <2>6
<1>4. CASE x # id
  <2>1. x \in DOMAIN contracts /\ contracts'[x] = contracts[x]
    BY <1>0, <1>4 DEF Written
  <2>2. \A v \in 0 .. contracts[x].abi_version :
           versions'[<<x, v>>] = versions[<<x, v>>]
    <3>1. TAKE v \in 0 .. contracts[x].abi_version
    <3>2. <<x, v>> # <<id, meta.abi_version>>
      BY <1>4
    <3>3. <<x, v>> \in DOMAIN versions
      BY <2>1 DEF HistoryIsServed
    <3> QED
      BY <1>0, <3>2, <3>3 DEF Written
  <2>3. \A v \in 0 .. w : v \in 0 .. contracts[x].abi_version
    <3>1. contracts[x].abi_version \in Nat
      BY <2>1, RegistryAssumption DEF RegistryTypeOK, ContractMeta
    <3> QED
      BY <2>1, <3>1
  <2>4. w \in 0 .. contracts[x].abi_version
    BY <2>1
  <2> QED
    BY <2>1, <2>2, <2>3, <2>4 DEF MinLedgerOrdersVersions
<1> QED
  BY <1>3, <1>4

-----------------------------------------------------------------------------
(***************************************************************************)
(* The steps.                                                              *)
(***************************************************************************)

\* Nothing the registry's part of the invariant speaks of changes but, perhaps,
\* the ledger, which only grows.
LEMMA EntriesUnchanged ==
  ASSUME RegistryInv, InstanceTypeOK', UNCHANGED entryVars,
         ledger' \in 0 .. LedgerMax, ledger <= ledger'
  PROVE  RegistryInv'
<1>1. RegistryTypeOK'
  BY DEF RegistryInv, RegistryTypeOK, entryVars
<1>2. HistoryIsServed'
  BY DEF RegistryInv, HistoryIsServed, entryVars
<1>3. MinLedgerOrdersVersions'
  <2>1. SUFFICES ASSUME NEW id \in DOMAIN contracts,
                        NEW w \in 0 .. contracts[id].abi_version
                 PROVE  /\ versions[<<id, w>>].min_ledger <= ledger'
                        /\ \A v \in 0 .. w : versions[<<id, v>>].min_ledger
                                               <= versions[<<id, w>>].min_ledger
    BY DEF MinLedgerOrdersVersions, entryVars
  <2>2. /\ versions[<<id, w>>].min_ledger <= ledger
        /\ \A v \in 0 .. w : versions[<<id, v>>].min_ledger
                               <= versions[<<id, w>>].min_ledger
    BY DEF RegistryInv, MinLedgerOrdersVersions
  <2>3. versions[<<id, w>>] \in ContractMeta
    BY DEF RegistryInv, HistoryIsServed, RegistryTypeOK
  <2>4. versions[<<id, w>>].min_ledger \in Nat /\ ledger \in Nat /\ ledger' \in Nat
    BY <2>3, RegistryAssumption DEF ContractMeta, RegistryInv, RegistryTypeOK
  <2> QED
    BY ONLY <2>2, <2>4, ledger <= ledger'
<1> QED
  BY <1>1, <1>2, <1>3 DEF RegistryInv

\* A stored record has its type and carries the current ledger.
LEMMA StampedIsMeta ==
  ASSUME RegistryTypeOK, NEW draft \in Draft, NEW abi \in 0 .. AbiMax
  PROVE  /\ Stamped(draft, abi) \in ContractMeta
         /\ Stamped(draft, abi).min_ledger = ledger
         /\ Stamped(draft, abi).abi_version = abi
BY DEF Stamped, Draft, ContractMeta, RegistryTypeOK

\* The instance keys keep their types in a call of the registry.
LEMMA InstanceUntouched ==
  ASSUME RegistryTypeOK,
         UNCHANGED <<admin, pendingAdmin, paused, eventSeq, maxEvents, wasm>>
  PROVE  InstanceTypeOK'
BY DEF RegistryTypeOK, InstanceTypeOK

\* A registration starts a history of one version.
LEMMA RegisterKeepsInv ==
  ASSUME RegistryInv, NEW caller \in Signer, NEW id \in ContractId,
         NEW draft \in Draft, register_contract(caller, id, draft)
  PROVE  RegistryInv'
<1> DEFINE stored == Stamped(draft, 0)
           h      == <<stored>>
<1>0. RegistryTypeOK /\ HistoryIsServed /\ MinLedgerOrdersVersions
  BY DEF RegistryInv
<1>1. /\ Write(id, stored) /\ accepted' = [accepted EXCEPT ![id] = h]
      /\ ledger' = ledger
      /\ UNCHANGED <<admin, pendingAdmin, paused, eventSeq, maxEvents, wasm>>
  BY DEF register_contract
<1>2. /\ stored \in ContractMeta /\ stored.min_ledger = ledger
      /\ stored.abi_version = 0
  BY <1>0, StampedIsMeta, RegistryAssumption
<1> HIDE DEF stored
<1>3. /\ h \in Seq(ContractMeta) /\ Len(h) = stored.abi_version + 1
      /\ h[stored.abi_version + 1] = stored
  BY <1>2
<1> HIDE DEF h
<1>4. 0 .. (stored.abi_version - 1) = {}
  BY <1>2
<1>5. RegistryTypeOK'
  <2>1. accepted' \in [ContractId -> Seq(ContractMeta)]
    BY <1>0, <1>1, <1>3 DEF RegistryTypeOK
  <2> QED
    BY <1>0, <1>1, <1>2, <2>1, WriteKeepsTypes, InstanceUntouched
    DEF RegistryTypeOK
<1>6. HistoryIsServed'
  BY <1>0, <1>1, <1>2, <1>3, <1>4, WriteServesHistory
<1>7. MinLedgerOrdersVersions'
  BY <1>0, <1>1, <1>2, <1>4, WriteKeepsOrder
<1> QED
  BY <1>5, <1>6, <1>7 DEF RegistryInv

\* An update appends the next version to the history.
LEMMA UpdateKeepsInv ==
  ASSUME RegistryInv, NEW caller \in Signer, NEW id \in ContractId,
         NEW draft \in Draft, update_contract(caller, id, draft)
  PROVE  RegistryInv'
<1> DEFINE updated == Stamped(draft, draft.abi_version)
           h       == Append(accepted[id], updated)
<1>0. RegistryTypeOK /\ HistoryIsServed /\ MinLedgerOrdersVersions
  BY DEF RegistryInv
<1>1. /\ Write(id, updated) /\ accepted' = [accepted EXCEPT ![id] = h]
      /\ ledger' = ledger
      /\ UNCHANGED <<admin, pendingAdmin, paused, eventSeq, maxEvents, wasm>>
      /\ id \in DOMAIN contracts
      /\ draft.abi_version = contracts[id].abi_version + 1
  BY DEF update_contract, Registered, Expected
<1>2. /\ updated \in ContractMeta /\ updated.min_ledger = ledger
      /\ updated.abi_version = contracts[id].abi_version + 1
  <2>1. draft.abi_version \in 0 .. AbiMax
    BY DEF Draft
  <2> QED
    BY <1>0, <1>1, <2>1, StampedIsMeta
<1> HIDE DEF updated
<1>3. contracts[id].abi_version \in Nat /\ accepted[id] \in Seq(ContractMeta)
  <2>1. contracts[id] \in ContractMeta /\ accepted \in [ContractId -> Seq(ContractMeta)]
    BY <1>0, <1>1 DEF RegistryTypeOK
  <2>2. contracts[id].abi_version \in 0 .. AbiMax
    BY ONLY <2>1 DEF ContractMeta
  <2> QED
    BY ONLY <2>1, <2>2, RegistryAssumption, id \in ContractId
<1>4. /\ Len(accepted[id]) = contracts[id].abi_version + 1
      /\ \A v \in 0 .. contracts[id].abi_version :
           <<id, v>> \in DOMAIN versions /\ versions[<<id, v>>] = accepted[id][v + 1]
  BY <1>0, <1>1 DEF HistoryIsServed
<1>5. /\ h \in Seq(ContractMeta) /\ Len(h) = updated.abi_version + 1
      /\ h[updated.abi_version + 1] = updated
      /\ \A v \in 0 .. contracts[id].abi_version : h[v + 1] = accepted[id][v + 1]
  BY <1>2, <1>3, <1>4
<1>6. 0 .. (updated.abi_version - 1) = 0 .. contracts[id].abi_version
  BY <1>2, <1>3
<1> HIDE DEF h
<1>7. RegistryTypeOK'
  <2>1. accepted' \in [ContractId -> Seq(ContractMeta)]
    BY <1>0, <1>1, <1>5 DEF RegistryTypeOK
  <2> QED
    BY <1>0, <1>1, <1>2, <2>1, WriteKeepsTypes, InstanceUntouched
    DEF RegistryTypeOK
<1>8. HistoryIsServed'
  BY <1>0, <1>1, <1>2, <1>4, <1>5, <1>6, WriteServesHistory
<1>9. MinLedgerOrdersVersions'
  <2>1. \A w \in 0 .. contracts[id].abi_version :
          /\ <<id, w>> \in DOMAIN versions
          /\ versions[<<id, w>>].min_ledger <= ledger
          /\ \A v \in 0 .. w :
               versions[<<id, v>>].min_ledger <= versions[<<id, w>>].min_ledger
    BY <1>0, <1>1, <1>4 DEF MinLedgerOrdersVersions
  <2> QED
    BY <1>0, <1>1, <1>2, <1>6, <2>1, WriteKeepsOrder
<1> QED
  BY <1>7, <1>8, <1>9 DEF RegistryInv

\* A removal leaves the histories of the other contracts.
LEMMA DeregisterKeepsInv ==
  ASSUME RegistryInv, NEW caller \in Signer, NEW id \in ContractId,
         deregister_contract(caller, id)
  PROVE  RegistryInv'
<1>1. /\ DOMAIN contracts' = DOMAIN contracts \ {id}
      /\ \A x \in DOMAIN contracts' : contracts'[x] = contracts[x]
      /\ UNCHANGED <<versions, accepted, ledger>>
      /\ UNCHANGED <<admin, pendingAdmin, paused, eventSeq, maxEvents, wasm>>
  BY DEF deregister_contract
<1>2. RegistryTypeOK'
  BY <1>1, InstanceUntouched DEF RegistryInv, RegistryTypeOK
<1>3. HistoryIsServed'
  BY <1>1 DEF RegistryInv, HistoryIsServed
<1>4. MinLedgerOrdersVersions'
  BY <1>1 DEF RegistryInv, MinLedgerOrdersVersions
<1> QED
  BY <1>2, <1>3, <1>4 DEF RegistryInv

\* Every step of the registry, the instance and the network keeps the invariant.
LEMMA RegistryStepKeepsInv ==
  RegistryInv /\ [RegistryNext]_registryState => RegistryInv'
<1> SUFFICES ASSUME RegistryInv, [RegistryNext]_registryState PROVE RegistryInv'
  OBVIOUS
<1>1. ledger \in 0 .. LedgerMax /\ ledger <= ledger /\ InstanceTypeOK
  BY RegistryAssumption DEF RegistryInv, RegistryTypeOK
<1>2. ASSUME NEW caller \in Signer, RegistryCall(caller) PROVE RegistryInv'
  BY <1>2, RegisterKeepsInv, UpdateKeepsInv, DeregisterKeepsInv DEF RegistryCall
<1>3. CASE InstanceCall
  <2>1. InstanceTypeOK'
    BY <1>1, <1>3, InstanceStepKeepsType DEF InstanceCall
  <2> QED
    BY <1>1, <1>3, <2>1, EntriesUnchanged DEF InstanceCall, registryVars, entryVars
<1>4. CASE CloseLedger
  <2>1. InstanceTypeOK'
    BY <1>1, <1>4 DEF CloseLedger, instanceVars, InstanceTypeOK
  <2>2. ledger' \in 0 .. LedgerMax /\ ledger <= ledger'
    BY <1>1, <1>4, RegistryAssumption DEF CloseLedger
  <2> QED
    BY <1>4, <2>1, <2>2, EntriesUnchanged DEF CloseLedger
<1>5. CASE UNCHANGED registryState
  <2>1. InstanceTypeOK'
    BY <1>1, <1>5 DEF registryState, instanceVars, InstanceTypeOK
  <2> QED
    BY <1>1, <1>5, <2>1, EntriesUnchanged
    DEF registryState, registryVars, entryVars
<1> QED
  BY <1>2, <1>3, <1>4, <1>5 DEF RegistryNext

\* Before the first registration there is nothing to order or to serve.
LEMMA RegistryInvInit == RegistryInit => RegistryInv
<1> SUFFICES ASSUME RegistryInit PROVE RegistryInv
  OBVIOUS
<1>1. InstanceTypeOK
  BY InstanceInitHasType DEF RegistryInit
<1>2. /\ DOMAIN contracts = {} /\ DOMAIN versions = {} /\ ledger = 0
      /\ accepted \in [ContractId -> Seq(ContractMeta)]
  BY DEF RegistryInit
<1>3. RegistryTypeOK
  BY <1>1, <1>2, RegistryAssumption DEF RegistryTypeOK
<1> QED
  BY <1>2, <1>3 DEF RegistryInv, HistoryIsServed, MinLedgerOrdersVersions

\* The inductive invariant of the registry.
THEOREM RegistryInvariant == RegistrySpec => []RegistryInv
BY RegistryInvInit, RegistryStepKeepsInv, PTL DEF RegistrySpec

\* Every entry keeps its type, and a version entry is filed under the version it
\* carries.
THEOREM RegistryTypeCorrect == RegistrySpec => []RegistryTypeOK
<1>1. RegistryInv => RegistryTypeOK
  BY DEF RegistryInv
<1> QED
  BY <1>1, RegistryInvariant, PTL

\* get_contract and get_contract_version serve the complete, unaltered history of
\* a registered contract, however often it was registered and removed before.
THEOREM HistoryServed == RegistrySpec => []HistoryIsServed
<1>1. RegistryInv => HistoryIsServed
  BY DEF RegistryInv
<1> QED
  BY <1>1, RegistryInvariant, PTL

\* min_ledger orders the versions of a registered contract and is never ahead of
\* the network.
THEOREM MinLedgerOrdered == RegistrySpec => []MinLedgerOrdersVersions
<1>1. RegistryInv => MinLedgerOrdersVersions
  BY DEF RegistryInv
<1> QED
  BY <1>1, RegistryInvariant, PTL

\* A write under a version that is new for its contract leaves the others.
LEMMA NewVersionStands ==
  ASSUME RegistryInv, NEW id, NEW meta, NEW h, Write(id, meta),
         accepted' = [accepted EXCEPT ![id] = h],
         id \in DOMAIN contracts => meta.abi_version = contracts[id].abi_version + 1
  PROVE  VersionsStand /\ OneHistoryMoves
<1>0. Written(id, meta)
  BY WriteEffect
<1>1. ASSUME NEW x \in DOMAIN contracts, NEW v \in 0 .. contracts[x].abi_version
      PROVE  <<x, v>> \in DOMAIN versions' /\ versions'[<<x, v>>] = versions[<<x, v>>]
  <2>1. contracts[x].abi_version \in Nat
    BY RegistryAssumption DEF RegistryInv, RegistryTypeOK, ContractMeta
  <2>2. <<x, v>> # <<id, meta.abi_version>>
    BY <2>1
  <2>3. <<x, v>> \in DOMAIN versions
    BY DEF RegistryInv, HistoryIsServed
  <2> QED
    BY <1>0, <2>2, <2>3 DEF Written
<1>2. \A x \in ContractId : x # id => accepted'[x] = accepted[x]
  BY DEF RegistryInv, RegistryTypeOK
<1> QED
  BY <1>1, <1>2 DEF VersionsStand, OneHistoryMoves

\* Every step of the registry lets the versions already written stand.
LEMMA StepLetsVersionsStand ==
  RegistryInv /\ [RegistryNext]_registryState
    => [VersionsStand /\ OneHistoryMoves]_entryVars
<1> SUFFICES ASSUME RegistryInv, [RegistryNext]_registryState
             PROVE  [VersionsStand /\ OneHistoryMoves]_entryVars
  OBVIOUS
<1>1. ASSUME NEW caller \in Signer, NEW id \in ContractId, NEW draft \in Draft,
             register_contract(caller, id, draft)
      PROVE  VersionsStand /\ OneHistoryMoves
  <2> DEFINE stored == Stamped(draft, 0)
             h      == <<stored>>
  <2>1. /\ Write(id, stored) /\ accepted' = [accepted EXCEPT ![id] = h]
        /\ id \notin DOMAIN contracts
    BY <1>1 DEF register_contract, Unregistered, Registered
  <2> HIDE DEF stored, h
  <2> QED
    BY <2>1, NewVersionStands
<1>2. ASSUME NEW caller \in Signer, NEW id \in ContractId, NEW draft \in Draft,
             update_contract(caller, id, draft)
      PROVE  VersionsStand /\ OneHistoryMoves
  <2> DEFINE updated == Stamped(draft, draft.abi_version)
             h       == Append(accepted[id], updated)
  <2>1. /\ Write(id, updated) /\ accepted' = [accepted EXCEPT ![id] = h]
        /\ updated.abi_version = contracts[id].abi_version + 1
    BY <1>2 DEF update_contract, Expected, Stamped
  <2> HIDE DEF updated, h
  <2> QED
    BY <2>1, NewVersionStands
<1>3. ASSUME NEW caller \in Signer, NEW id \in ContractId,
             deregister_contract(caller, id)
      PROVE  VersionsStand /\ OneHistoryMoves
  <2>1. versions' = versions /\ accepted' = accepted
    BY <1>3 DEF deregister_contract
  <2> QED
    BY <2>1 DEF VersionsStand, OneHistoryMoves, RegistryInv, HistoryIsServed
<1>4. ASSUME InstanceCall \/ CloseLedger \/ UNCHANGED registryState
      PROVE  UNCHANGED entryVars
  BY <1>4 DEF InstanceCall, CloseLedger, registryState, registryVars, entryVars
<1> QED
  BY <1>1, <1>2, <1>3, <1>4 DEF RegistryNext, RegistryCall

\* No call changes or removes a version already written of a contract that stays
\* registered, and no call touches two contracts.
THEOREM WrittenVersionsNeverChange == RegistrySpec => WrittenVersionsStand
<1>1. RegistryInv /\ [RegistryNext]_registryState
        => [VersionsStand /\ OneHistoryMoves]_entryVars
  BY StepLetsVersionsStand
<1> QED
  BY <1>1, RegistryInvariant, PTL
  DEF RegistrySpec, WrittenVersionsStand

-----------------------------------------------------------------------------
(***************************************************************************)
(* The promised catalogue, read through the getters.                       *)
(***************************************************************************)

\* What the getters answer, by contract id.
Histories == [id \in DOMAIN contracts |-> ServedHistory(id)]

\* In a state of the invariant the getters answer from the metadata accepted, not
\* from entries of an earlier registration.
ServesAccepted == Histories = [id \in DOMAIN contracts |-> accepted[id]]

LEMMA ServedIsAccepted == RegistryInv => ServesAccepted
<1> SUFFICES ASSUME RegistryInv, NEW id \in DOMAIN contracts
             PROVE  ServedHistory(id) = accepted[id]
  BY DEF Histories, ServesAccepted
<1> DEFINE last == contracts[id].abi_version
<1>1. last \in Nat /\ accepted[id] \in Seq(ContractMeta)
  <2>1. id \in ContractId /\ contracts[id] \in ContractMeta
        /\ accepted \in [ContractId -> Seq(ContractMeta)]
    BY DEF RegistryInv, RegistryTypeOK
  <2>2. last \in 0 .. AbiMax
    BY ONLY <2>1 DEF ContractMeta
  <2> QED
    BY ONLY <2>1, <2>2, RegistryAssumption
<1>2. /\ Len(accepted[id]) = last + 1
      /\ contracts[id] = accepted[id][last + 1]
      /\ \A v \in 0 .. last : versions[<<id, v>>] = accepted[id][v + 1]
  BY DEF RegistryInv, HistoryIsServed
<1>3. accepted[id] = [n \in 1 .. (last + 1) |-> accepted[id][n]]
  BY <1>1, <1>2
<1>4. ASSUME NEW n \in 1 .. (last + 1)
      PROVE  accepted[id][n] = IF n = last + 1 THEN contracts[id]
                               ELSE versions[<<id, n - 1>>]
  <2>1. n - 1 \in 0 .. last /\ (n - 1) + 1 = n
    BY <1>1
  <2>2. versions[<<id, n - 1>>] = accepted[id][(n - 1) + 1]
    BY <1>2, <2>1
  <2> QED
    BY <1>2, <2>1, <2>2
<1> QED
  BY <1>3, <1>4 DEF ServedHistory

\* The same of the state after a step.
LEMMA ServedIsAcceptedAfter == RegistryInv' => ServesAccepted'
BY ServedIsAccepted, PTL

LEMMA CatalogStarts == RegistryInit => Catalog!CatalogInit
BY DEF RegistryInit, Catalog!CatalogInit

\* A registration publishes a history of one version.
LEMMA RegisterPublishes ==
  ASSUME RegistryInv, NEW caller \in Signer, NEW id \in ContractId,
         NEW draft \in Draft, register_contract(caller, id, draft)
  PROVE  \E meta \in ContractMeta : Catalog!Publish(id, meta)
<1> DEFINE stored == Stamped(draft, 0)
<1>1. RegistryInv'
  BY RegisterKeepsInv
<1>2. /\ Write(id, stored) /\ accepted' = [accepted EXCEPT ![id] = <<stored>>]
      /\ id \notin DOMAIN contracts
  BY DEF register_contract, Unregistered, Registered
<1>3. stored \in ContractMeta /\ stored.abi_version = 0
  BY StampedIsMeta, RegistryAssumption DEF RegistryInv
<1> HIDE DEF stored
<1>4. DOMAIN contracts' = DOMAIN contracts \cup {id}
  BY <1>2, WriteEffect DEF Written
<1>5. accepted'[id] = <<stored>> /\ \A x \in ContractId \ {id} : accepted'[x] = accepted[x]
  BY <1>2 DEF RegistryInv, RegistryTypeOK
<1>6. DOMAIN contracts \subseteq ContractId
  BY DEF RegistryInv, RegistryTypeOK
<1>7. Histories' = [x \in DOMAIN Histories \cup {id} |->
                      IF x = id THEN <<stored>> ELSE Histories[x]]
  BY <1>1, <1>4, <1>5, <1>6, ServedIsAccepted, ServedIsAcceptedAfter
  DEF ServesAccepted
<1>8. id \notin DOMAIN Histories
  BY <1>2 DEF Histories
<1>9. Catalog!Publish(id, stored)
  BY <1>3, <1>7, <1>8 DEF Catalog!Publish, Histories
<1> QED
  BY <1>3, <1>9

\* An update adds the next version, stamped no earlier than the one before.
LEMMA UpdateRevises ==
  ASSUME RegistryInv, NEW caller \in Signer, NEW id \in ContractId,
         NEW draft \in Draft, update_contract(caller, id, draft)
  PROVE  \E meta \in ContractMeta : Catalog!Revise(id, meta)
<1> DEFINE updated == Stamped(draft, draft.abi_version)
           last    == contracts[id].abi_version
<1>1. RegistryInv'
  BY UpdateKeepsInv
<1>2. /\ Write(id, updated)
      /\ accepted' = [accepted EXCEPT ![id] = Append(accepted[id], updated)]
      /\ id \in DOMAIN contracts /\ draft.abi_version = last + 1
  BY DEF update_contract, Registered, Expected
<1>3. updated \in ContractMeta /\ updated.abi_version = last + 1
      /\ updated.min_ledger = ledger
  <2>1. draft.abi_version \in 0 .. AbiMax
    BY DEF Draft
  <2> QED
    BY <1>2, <2>1, StampedIsMeta DEF RegistryInv
<1> HIDE DEF updated
<1>4. DOMAIN contracts' = DOMAIN contracts
  <2>1. DOMAIN contracts' = DOMAIN contracts \cup {id}
    BY <1>2, WriteEffect DEF Written
  <2> QED
    BY <1>2, <2>1
<1>5. /\ accepted'[id] = Append(accepted[id], updated)
      /\ \A x \in ContractId \ {id} : accepted'[x] = accepted[x]
  BY <1>2 DEF RegistryInv, RegistryTypeOK
<1>6. DOMAIN contracts \subseteq ContractId
  BY DEF RegistryInv, RegistryTypeOK
<1>7. Histories' = [Histories EXCEPT ![id] = Append(Histories[id], updated)]
  BY <1>1, <1>2, <1>4, <1>5, <1>6, ServedIsAccepted, ServedIsAcceptedAfter
  DEF ServesAccepted
<1>8. id \in DOMAIN Histories /\ Histories[id] = accepted[id]
  BY <1>2, ServedIsAccepted DEF ServesAccepted
<1>9. /\ Len(Histories[id]) = last + 1
      /\ Histories[id][last + 1].min_ledger <= ledger
  <2>1. contracts[id] \in ContractMeta
    BY <1>2 DEF RegistryInv, RegistryTypeOK
  <2>2. last \in Nat /\ last \in 0 .. last
    BY <2>1, RegistryAssumption DEF ContractMeta
  <2>3. /\ Len(accepted[id]) = last + 1
        /\ versions[<<id, last>>] = accepted[id][last + 1]
    BY <1>2, <2>2 DEF RegistryInv, HistoryIsServed
  <2>4. versions[<<id, last>>].min_ledger <= ledger
    BY <1>2, <2>2 DEF RegistryInv, MinLedgerOrdersVersions
  <2> QED
    BY <1>8, <2>3, <2>4
<1>10. Catalog!Revise(id, updated)
  BY <1>3, <1>7, <1>8, <1>9 DEF Catalog!Revise, Catalog!Newest, Histories
<1> QED
  BY <1>3, <1>10

\* A removal withdraws the history and leaves the others.
LEMMA DeregisterWithdraws ==
  ASSUME RegistryInv, NEW caller \in Signer, NEW id \in ContractId,
         deregister_contract(caller, id)
  PROVE  Catalog!Withdraw(id)
<1>1. RegistryInv'
  BY DeregisterKeepsInv
<1>2. /\ id \in DOMAIN contracts
      /\ DOMAIN contracts' = DOMAIN contracts \ {id}
      /\ accepted' = accepted
  BY DEF deregister_contract, Registered
<1>3. Histories' = [x \in DOMAIN Histories \ {id} |-> Histories[x]]
  BY <1>1, <1>2, ServedIsAccepted, ServedIsAcceptedAfter
  DEF ServesAccepted
<1> QED
  BY <1>2, <1>3 DEF Catalog!Withdraw, Histories

\* Every call of the registry is a step of the catalogue, and nothing else is.
LEMMA CatalogStep ==
  RegistryInv /\ [RegistryNext]_registryState
    => [Catalog!CatalogNext]_Histories
<1> SUFFICES ASSUME RegistryInv, [RegistryNext]_registryState
             PROVE  [Catalog!CatalogNext]_Histories
  OBVIOUS
<1>1. ASSUME NEW caller \in Signer, RegistryCall(caller)
      PROVE  Catalog!CatalogNext
  BY <1>1, RegisterPublishes, UpdateRevises, DeregisterWithdraws
  DEF RegistryCall, Catalog!CatalogNext
<1>2. ASSUME InstanceCall \/ CloseLedger \/ UNCHANGED registryState
      PROVE  Histories' = Histories
  <2>1. contracts' = contracts /\ versions' = versions
    BY <1>2 DEF InstanceCall, CloseLedger, registryState, registryVars, entryVars
  <2> QED
    BY <2>1 DEF Histories, ServedHistory
<1> QED
  BY <1>1, <1>2 DEF RegistryNext

\* Whatever is registered, updated, removed and registered again, the getters answer
\* as the promised catalogue does.
THEOREM CatalogRefined == RegistrySpec => ImplementsCatalog
<1>1. RegistryInv /\ [RegistryNext]_registryState
        => [Catalog!CatalogNext]_Histories
  BY CatalogStep
<1> QED
  BY <1>1, CatalogStarts, RegistryInvariant, PTL
  DEF RegistrySpec, ImplementsCatalog, Catalog!CatalogSpec, Histories
=============================================================================
