------------------------ MODULE RegistryClientsProofs ------------------------
(***************************************************************************)
(* No lost update, for every number of clients, accounts and contracts.    *)
(***************************************************************************)
EXTENDS RegistryClients, ExplorerRegistryProofs

\* The inductive invariant of the registry with its clients.
ClientsInv ==
  /\ RegistryInv
  /\ registration \in [ContractId -> Nat]
  /\ DOMAIN held = Client
  /\ HeldIsHistory

\* The update a client makes is a call of the registry.
LEMMA WriteBackIsUpdate ==
  ASSUME ClientsInv, NEW client \in Client, WriteBack(client)
  PROVE  /\ held[client] \in Holding
         /\ Account[client] \in Signer
         /\ \E draft \in Draft :
              /\ draft.abi_version = held[client].meta.abi_version + 1
              /\ update_contract(Account[client], held[client].id, draft)
         /\ held' = [held EXCEPT ![client] = NoRead]
         /\ UNCHANGED registration
<1>1. PICK body \in Body :
        update_contract(Account[client], held[client].id,
                        Edited(held[client].meta, body))
  BY DEF WriteBack
<1>2. held[client] \in Holding
  BY DEF WriteBack, ClientsInv, HeldIsHistory, Holds
<1>3. /\ held[client].id \in ContractId /\ held[client].meta \in ContractMeta
  BY ONLY <1>2 DEF Holding
<1>4. held[client].meta.abi_version \in Nat
        /\ held[client].meta.registered_by \in Address
  BY ONLY <1>3, RegistryAssumption DEF ContractMeta
<1> DEFINE draft == Edited(held[client].meta, body)
<1>5. /\ draft.abi_version = held[client].meta.abi_version + 1
      /\ draft.body = body
      /\ draft.registered_by = held[client].meta.registered_by
  BY DEF Edited
<1>6. held[client].id \in DOMAIN contracts
        /\ contracts[held[client].id].abi_version < AbiMax
        /\ draft.abi_version = contracts[held[client].id].abi_version + 1
  BY <1>1 DEF update_contract, Registered, Expected
<1>7. draft \in Draft
  <2>1. contracts[held[client].id] \in ContractMeta
    BY <1>6 DEF ClientsInv, RegistryInv, RegistryTypeOK
  <2>2. contracts[held[client].id].abi_version \in Nat
    BY ONLY <2>1, RegistryAssumption DEF ContractMeta
  <2>3. draft.abi_version \in 0 .. AbiMax
    BY ONLY <1>6, <2>2, RegistryAssumption
  <2>4. held[client].meta.abi_version + 1 \in 0 .. AbiMax
    BY ONLY <1>5, <2>3
  <2> QED
    BY ONLY <1>4, <2>4, body \in Body DEF Draft, Edited
<1> QED
  BY <1>1, <1>2, <1>5, <1>7, ClientAssumption DEF WriteBack

\* Every step is a step of the registry or leaves it alone.
LEMMA ClientsStepIsRegistryStep ==
  ASSUME ClientsInv, [ClientsNext]_clientState
  PROVE  [RegistryNext]_registryState
<1>1. ASSUME NEW client \in Client, Read(client)
      PROVE  UNCHANGED registryState
  BY <1>1 DEF Read
<1>2. ASSUME NEW client \in Client, WriteBack(client)
      PROVE  RegistryNext
  <2>1. held[client].id \in ContractId
    BY <1>2, WriteBackIsUpdate DEF Holding
  <2> QED
    BY <1>2, <2>1, WriteBackIsUpdate DEF RegistryNext, RegistryCall
<1>3. ASSUME NEW id \in ContractId, RegisterAnew(id) \/ Deregister(id)
      PROVE  RegistryNext
  BY <1>3 DEF RegisterAnew, Deregister, RegistryNext, RegistryCall
<1>4. ASSUME InstanceCall \/ CloseLedger PROVE RegistryNext
  BY <1>4 DEF RegistryNext
<1>5. CASE UNCHANGED clientState
  BY <1>5 DEF clientState
<1> QED
  BY <1>1, <1>2, <1>3, <1>4, <1>5 DEF ClientsNext

\* The history of a contract grows at its end, or is that of a new registration.
Grows(id) ==
  \/ registration'[id] > registration[id]
  \/ /\ registration'[id] = registration[id]
     /\ Len(accepted[id]) <= Len(accepted'[id])
     /\ \A i \in 1 .. Len(accepted[id]) : accepted'[id][i] = accepted[id][i]

\* What a client holds stays history while histories grow.
LEMMA HoldsKept ==
  ASSUME ClientsInv, NEW client \in Client, held[client] # NoRead,
         held'[client] = held[client], registration' \in [ContractId -> Nat],
         \A x \in ContractId : accepted'[x] \in Seq(ContractMeta),
         \A x \in ContractId : Grows(x)
  PROVE  Holds(client)'
<1> DEFINE id  == held[client].id
           abi == held[client].meta.abi_version
           reg == held[client].registration
<1>1. Holds(client)
  BY DEF ClientsInv, HeldIsHistory, Holds
<1>2. id \in ContractId /\ abi \in Nat /\ reg \in Nat
  <2>1. id \in ContractId /\ held[client].meta \in ContractMeta /\ reg \in Nat
    BY ONLY <1>1 DEF Holds, Holding
  <2> QED
    BY ONLY <2>1, RegistryAssumption DEF ContractMeta
<1>3. /\ registration[id] \in Nat /\ registration'[id] \in Nat
      /\ accepted[id] \in Seq(ContractMeta) /\ accepted'[id] \in Seq(ContractMeta)
  BY <1>2 DEF ClientsInv, RegistryInv, RegistryTypeOK
<1>4. /\ held[client] \in Holding
      /\ reg <= registration[id]
      /\ reg = registration[id] =>
           abi < Len(accepted[id]) /\ accepted[id][abi + 1] = held[client].meta
  BY ONLY <1>1 DEF Holds
<1>5. Grows(id)
  BY <1>2
<1>6. reg <= registration'[id]
  BY ONLY <1>2, <1>3, <1>4, <1>5 DEF Grows
<1>7. ASSUME reg = registration'[id]
      PROVE  abi < Len(accepted'[id]) /\ accepted'[id][abi + 1] = held[client].meta
  <2>1. /\ reg = registration[id]
        /\ Len(accepted[id]) <= Len(accepted'[id])
        /\ \A i \in 1 .. Len(accepted[id]) : accepted'[id][i] = accepted[id][i]
    BY ONLY <1>2, <1>3, <1>4, <1>5, <1>7 DEF Grows
  <2>2. Len(accepted[id]) \in Nat /\ Len(accepted'[id]) \in Nat
    BY ONLY <1>3
  <2>3. abi + 1 \in 1 .. Len(accepted[id])
    BY ONLY <1>2, <1>4, <2>1, <2>2
  <2>4. accepted'[id][abi + 1] = accepted[id][abi + 1]
    BY ONLY <2>1, <2>3
  <2>5. abi < Len(accepted'[id])
    BY ONLY <1>2, <2>1, <2>2, <2>3
  <2>6. accepted[id][abi + 1] = held[client].meta
    BY ONLY <1>4, <2>1
  <2> QED
    BY ONLY <2>4, <2>5, <2>6
<1> QED
  BY <1>4, <1>6, <1>7 DEF Holds

\* The histories grow in every step.
LEMMA HistoriesGrow ==
  ASSUME ClientsInv, [ClientsNext]_clientState
  PROVE  /\ registration' \in [ContractId -> Nat]
         /\ \A x \in ContractId : Grows(x)
<1>0. /\ registration \in [ContractId -> Nat]
      /\ accepted \in [ContractId -> Seq(ContractMeta)]
  BY DEF ClientsInv, RegistryInv, RegistryTypeOK
<1>1. ASSUME UNCHANGED <<registration, accepted>>
      PROVE  /\ registration' \in [ContractId -> Nat]
             /\ \A x \in ContractId : Grows(x)
  BY <1>0, <1>1 DEF Grows
<1>2. ASSUME NEW client \in Client, WriteBack(client)
      PROVE  /\ registration' \in [ContractId -> Nat]
             /\ \A x \in ContractId : Grows(x)
  <2>1. PICK draft \in Draft :
          update_contract(Account[client], held[client].id, draft)
    BY <1>2, WriteBackIsUpdate
  <2> DEFINE updated == Stamped(draft, draft.abi_version)
             id      == held[client].id
  <2>2. accepted' = [accepted EXCEPT ![id] = Append(@, updated)]
    BY <2>1 DEF update_contract
  <2>3. registration' = registration
    BY <1>2, WriteBackIsUpdate
  <2>4. updated \in ContractMeta
    BY <2>1, StampedIsMeta DEF Draft, ClientsInv, RegistryInv
  <2> HIDE DEF updated, id
  <2>5. ASSUME NEW x \in ContractId PROVE Grows(x)
    <3>1. accepted[x] \in Seq(ContractMeta) /\ registration[x] \in Nat
      BY <1>0
    <3>2. CASE x = id
      <4>1. accepted'[x] = Append(accepted[x], updated)
        BY <1>0, <2>2, <3>2
      <4> QED
        BY <2>3, <2>4, <3>1, <4>1 DEF Grows
    <3>3. CASE x # id
      <4>1. accepted'[x] = accepted[x]
        BY <1>0, <2>2, <3>3
      <4> QED
        BY <2>3, <3>1, <4>1 DEF Grows
    <3> QED
      BY <3>2, <3>3
  <2> QED
    BY <1>0, <2>3, <2>5
<1>3. ASSUME NEW id \in ContractId, RegisterAnew(id)
      PROVE  /\ registration' \in [ContractId -> Nat]
             /\ \A x \in ContractId : Grows(x)
  <2>1. PICK draft \in Draft :
          accepted' = [accepted EXCEPT ![id] = <<Stamped(draft, 0)>>]
    BY <1>3 DEF RegisterAnew, register_contract
  <2>2. registration' = [registration EXCEPT ![id] = @ + 1]
    BY <1>3 DEF RegisterAnew
  <2>3. ASSUME NEW x \in ContractId PROVE Grows(x)
    <3>1. accepted[x] \in Seq(ContractMeta) /\ registration[x] \in Nat
      BY <1>0
    <3>2. CASE x = id
      BY <1>0, <2>2, <3>1, <3>2 DEF Grows
    <3>3. CASE x # id
      <4>1. accepted'[x] = accepted[x] /\ registration'[x] = registration[x]
        BY <1>0, <2>1, <2>2, <3>3
      <4> QED
        BY <3>1, <4>1 DEF Grows
    <3> QED
      BY <3>2, <3>3
  <2> QED
    BY <1>0, <2>2, <2>3
<1>4. \/ UNCHANGED <<registration, accepted>>
      \/ \E client \in Client : WriteBack(client)
      \/ \E id \in ContractId : RegisterAnew(id)
  BY DEF ClientsNext, Read, Deregister, deregister_contract, InstanceCall,
         CloseLedger, clientState, clientVars, registryState, registryVars,
         entryVars
<1> QED
  BY <1>1, <1>2, <1>3, <1>4

\* A client holds something it did not hold before only by reading it.
LEMMA HeldIsHistoryKept ==
  ASSUME ClientsInv, RegistryInv', [ClientsNext]_clientState
  PROVE  DOMAIN held' = Client /\ HeldIsHistory'
<1>1. /\ registration' \in [ContractId -> Nat]
      /\ \A x \in ContractId : Grows(x)
      /\ \A x \in ContractId : accepted'[x] \in Seq(ContractMeta)
  BY HistoriesGrow DEF RegistryInv, RegistryTypeOK
<1>2. \/ \E reader \in Client : Read(reader)
      \/ \E writer \in Client : held' = [held EXCEPT ![writer] = NoRead]
      \/ held' = held
  BY DEF ClientsNext, WriteBack, RegisterAnew, Deregister, clientState, clientVars
<1>3. DOMAIN held' = Client
  BY <1>2 DEF ClientsInv, Read
<1>4. ASSUME NEW client \in Client, held'[client] # NoRead
      PROVE  Holds(client)'
  <2>1. CASE held'[client] = held[client]
    BY <1>1, <1>4, <2>1, HoldsKept
  <2>2. CASE held'[client] # held[client]
    <3>1. Read(client)
      BY <1>2, <1>4, <2>2 DEF ClientsInv, Read
    <3>2. PICK id \in DOMAIN contracts :
            held' = [held EXCEPT ![client] =
                       [id |-> id, meta |-> contracts[id],
                        registration |-> registration[id]]]
      BY <3>1 DEF Read
    <3>3. /\ held'[client].id = id /\ held'[client].meta = contracts[id]
          /\ held'[client].registration = registration[id]
          /\ held'[client] \in Holding
      <4>1. /\ id \in ContractId /\ contracts[id] \in ContractMeta
            /\ registration[id] \in Nat
        BY DEF ClientsInv, RegistryInv, RegistryTypeOK
      <4> QED
        BY <3>2, <4>1 DEF ClientsInv, Holding
    <3>4. UNCHANGED <<registration, accepted>>
      BY <3>1 DEF Read, registryState, registryVars
    <3>5. /\ Len(accepted[id]) = contracts[id].abi_version + 1
          /\ contracts[id] = accepted[id][contracts[id].abi_version + 1]
          /\ contracts[id].abi_version \in Nat
          /\ registration[id] \in Nat
      BY RegistryAssumption
      DEF ClientsInv, RegistryInv, RegistryTypeOK, ContractMeta, HistoryIsServed
    <3> QED
      BY ONLY <3>3, <3>4, <3>5 DEF Holds
  <2> QED
    BY <2>1, <2>2
<1> QED
  BY <1>3, <1>4 DEF HeldIsHistory, Holds

\* The inductive invariant is kept by every step of clients, registry and network.
LEMMA ClientsStepKeepsInv ==
  ClientsInv /\ [ClientsNext]_clientState => ClientsInv'
<1> SUFFICES ASSUME ClientsInv, [ClientsNext]_clientState PROVE ClientsInv'
  OBVIOUS
<1>1. RegistryInv'
  BY ClientsStepIsRegistryStep, RegistryStepKeepsInv DEF ClientsInv
<1> QED
  BY <1>1, HistoriesGrow, HeldIsHistoryKept DEF ClientsInv

\* At first no client holds anything.
LEMMA ClientsInvInit == ClientsInit => ClientsInv
<1> SUFFICES ASSUME ClientsInit PROVE ClientsInv
  OBVIOUS
<1>1. RegistryInv
  BY RegistryInvInit DEF ClientsInit
<1> QED
  BY <1>1 DEF ClientsInit, ClientsInv, HeldIsHistory

\* What a client holds is the metadata accepted under that version, unless the
\* contract was registered anew since.
THEOREM HeldStaysHistory == ClientsSpec => []HeldIsHistory
<1>1. ClientsInv => HeldIsHistory
  BY DEF ClientsInv
<1> QED
  BY <1>1, ClientsInvInit, ClientsStepKeepsInv, PTL DEF ClientsSpec

\* A client gives up what it held only by an accepted update, and the version
\* check makes that an update of exactly what it read.
LEMMA CommitBuildsOnRead ==
  ASSUME ClientsInv, [ClientsNext]_clientState, NEW client \in Client,
         Committed(client),
         held[client].registration = registration[held[client].id]
  PROVE  Current(client)
<1>1. held[client] \in Holding /\ Holds(client)
  BY DEF Committed, ClientsInv, HeldIsHistory, Holds
<1>2. ~Read(client)
  <2>1. SUFFICES ASSUME Read(client) PROVE FALSE
    OBVIOUS
  <2>2. PICK id \in DOMAIN contracts :
          held' = [held EXCEPT ![client] =
                     [id |-> id, meta |-> contracts[id],
                      registration |-> registration[id]]]
    BY <2>1 DEF Read
  <2>3. /\ id \in ContractId /\ contracts[id] \in ContractMeta
        /\ registration[id] \in Nat
    BY DEF ClientsInv, RegistryInv, RegistryTypeOK
  <2>4. held'[client] \in Holding
    BY <2>2, <2>3 DEF ClientsInv, Holding
  <2> QED
    BY <2>4, ClientAssumption DEF Committed
<1>3. WriteBack(client)
  <2>1. held'[client] # held[client]
    BY DEF Committed
  <2>2. \/ \E reader \in Client : Read(reader)
        \/ \E writer \in Client : WriteBack(writer)
        \/ held' = held
    BY DEF ClientsNext, RegisterAnew, Deregister, clientState, clientVars
  <2> QED
    BY <1>2, <2>1, <2>2 DEF ClientsInv, Read, WriteBack
<1>4. PICK draft \in Draft :
        /\ draft.abi_version = held[client].meta.abi_version + 1
        /\ update_contract(Account[client], held[client].id, draft)
  BY <1>3, WriteBackIsUpdate
<1>5. /\ held[client].id \in DOMAIN contracts
      /\ draft.abi_version = contracts[held[client].id].abi_version + 1
  BY <1>4 DEF update_contract, Registered, Expected
<1>6. /\ contracts[held[client].id].abi_version \in Nat
      /\ contracts[held[client].id]
           = accepted[held[client].id][contracts[held[client].id].abi_version + 1]
  BY <1>5, RegistryAssumption
  DEF ClientsInv, RegistryInv, RegistryTypeOK, ContractMeta, HistoryIsServed
<1>7. held[client].meta.abi_version \in Nat
  <2>1. held[client].meta \in ContractMeta
    BY ONLY <1>1 DEF Holding
  <2> QED
    BY ONLY <2>1, RegistryAssumption DEF ContractMeta
<1>8. held[client].meta.abi_version = contracts[held[client].id].abi_version
  BY ONLY <1>4, <1>5, <1>6, <1>7
<1> QED
  BY <1>1, <1>5, <1>6, <1>8 DEF Holds, Current, Registered

\* No lost update within a registration: an accepted write replaces exactly the
\* metadata its client read.
THEOREM NoLostUpdate == ClientsSpec => UpdatesBuildOnWhatWasRead
<1>1. ClientsInv /\ [ClientsNext]_clientState
        => [\A client \in Client :
              /\ Committed(client)
              /\ held[client].registration = registration[held[client].id]
              => Current(client)]_clientState
  BY CommitBuildsOnRead
<1> QED
  BY <1>1, ClientsInvInit, ClientsStepKeepsInv, PTL
  DEF ClientsSpec, UpdatesBuildOnWhatWasRead

\* The clients are ordinary callers: a run with them is a run of the registry, so
\* what is proved of the registry holds between any client's read and its write.
THEOREM ClientsOnlyCall == ClientsSpec => RegistrySpec
<1>1. ClientsInit => RegistryInit
  BY DEF ClientsInit
<1>2. ClientsInv /\ [ClientsNext]_clientState => [RegistryNext]_registryState
  BY ClientsStepIsRegistryStep
<1> QED
  BY <1>1, <1>2, ClientsInvInit, ClientsStepKeepsInv, PTL DEF ClientsSpec, RegistrySpec
=============================================================================
