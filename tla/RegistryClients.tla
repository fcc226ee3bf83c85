--------------------------- MODULE RegistryClients ---------------------------
(***************************************************************************)
(* Several clients of the registry, each of which reads a contract with    *)
(* get_contract, edits what it read and sends it back with update_contract *)
(* as the next abi_version.  Anything may happen between the read and the  *)
(* write: update_contract's check of abi_version is the only protection.   *)
(***************************************************************************)
EXTENDS ExplorerRegistry

CONSTANTS
  Client,       \* the clients; a client acts for Account[client]
  Account,
  NoRead,       \* a client that holds nothing it read
  RegisterMax   \* bound: how often a behaviour registers a contract

\* What a client keeps of a read: the contract, the metadata returned and, as
\* history, which of its registrations it was.
Holding == [id : ContractId, meta : ContractMeta, registration : Nat]

ASSUME ClientAssumption ==
  /\ Account \in [Client -> Signer]
  /\ RegisterMax \in Nat
  /\ NoRead \notin Holding

VARIABLES
  held,         \* held[client]: the contract and metadata it read, or NoRead
  registration  \* history: how many times each contract has been registered

clientVars  == <<held, registration>>
clientState == <<registryState, clientVars>>

ClientsInit ==
  /\ RegistryInit
  /\ held = [client \in Client |-> NoRead]
  /\ registration = [id \in ContractId |-> 0]

\* get_contract: the client keeps the id and what was returned.
Read(client) ==
  \E id \in DOMAIN contracts :
    /\ held' = [held EXCEPT ![client] =
                  [id |-> id, meta |-> contracts[id],
                   registration |-> registration[id]]]
    /\ UNCHANGED <<registryState, registration>>

\* update_contract with an edit of what was read.  A rejected write changes
\* nothing: the client reads again.
Edited(meta, body) ==
  [body |-> body, registered_by |-> meta.registered_by,
   abi_version |-> meta.abi_version + 1]

WriteBack(client) ==
  /\ held[client] # NoRead
  /\ \E body \in Body :
       update_contract(Account[client], held[client].id,
                       Edited(held[client].meta, body))
  /\ held' = [held EXCEPT ![client] = NoRead]
  /\ UNCHANGED registration

\* The admin registers and removes contracts meanwhile.
RegisterAnew(id) ==
  /\ registration[id] < RegisterMax
  /\ \E caller \in Signer, draft \in Draft :
       draft.abi_version = 0 /\ register_contract(caller, id, draft)
  /\ registration' = [registration EXCEPT ![id] = @ + 1]
  /\ UNCHANGED held

Deregister(id) ==
  /\ \E caller \in Signer : deregister_contract(caller, id)
  /\ UNCHANGED clientVars

ClientsNext ==
  \/ \E client \in Client : Read(client) \/ WriteBack(client)
  \/ \E id \in ContractId : RegisterAnew(id) \/ Deregister(id)
  \/ (InstanceCall \/ CloseLedger) /\ UNCHANGED clientVars

ClientsSpec == ClientsInit /\ [][ClientsNext]_clientState

-----------------------------------------------------------------------------
(***************************************************************************)
(* Properties.                                                             *)
(***************************************************************************)

\* A client's write is accepted in the step in which it gives up what it held.
Committed(client) == held[client] # NoRead /\ held'[client] = NoRead

Current(client) ==
  /\ Registered(held[client].id)
  /\ contracts[held[client].id] = held[client].meta

\* What the client holds is the metadata accepted under that version, unless the
\* contract has been registered anew since.
Holds(client) ==
  LET id == held[client].id  meta == held[client].meta IN
  /\ held[client] \in Holding
  /\ held[client].registration <= registration[id]
  /\ held[client].registration = registration[id] =>
       /\ meta.abi_version < Len(accepted[id])
       /\ accepted[id][meta.abi_version + 1] = meta

\* The inductive invariant behind the next property: between its read and its
\* write a client's copy never turns into metadata the contract did not accept.
HeldIsHistory == \A client \in Client : held[client] # NoRead => Holds(client)

\* No lost update within a registration: whatever the other clients wrote since
\* it read, a client's update is accepted only on top of exactly the metadata it
\* read.
UpdatesBuildOnWhatWasRead ==
  [][\A client \in Client :
       /\ Committed(client)
       /\ held[client].registration = registration[held[client].id]
       => Current(client)]_clientState

\* The same without the restriction: "submitted abi_version must be current + 1"
\* is documented as the optimistic concurrency guard, which should reject every
\* write whose base is no longer the stored metadata.
StaleWritesRejected ==
  [][\A client \in Client : Committed(client) => Current(client)]_clientState
=============================================================================
