----------------------- MODULE ExplorerInstanceProofs -----------------------
(***************************************************************************)
(* Proofs about ExplorerInstance, for every choice of its constants.       *)
(***************************************************************************)
EXTENDS ExplorerInstance, TLAPS

\* The capacity init stores is a modulus: positive, whatever it is passed.
LEMMA CapacityIsPositive ==
  ASSUME NEW max_events \in InitCapacity
  PROVE  Capacity(max_events) \in Nat \ {0}
BY CapacityAssumption DEF Capacity

\* The type invariant is kept by every entry point of the instance.
LEMMA InstanceStepKeepsType ==
  InstanceTypeOK /\ [InstanceNext]_instanceVars => InstanceTypeOK'
<1> SUFFICES ASSUME InstanceTypeOK, [InstanceNext]_instanceVars
             PROVE  InstanceTypeOK'
  OBVIOUS
<1> USE AddressAssumption DEF InstanceTypeOK
<1>1. ASSUME NEW new_admin \in InitAdmin, NEW max_events \in InitCapacity,
             init(new_admin, max_events)
      PROVE  InstanceTypeOK'
  BY <1>1, CapacityIsPositive DEF init
<1>2. ASSUME NEW caller \in Signer, NEW new_max \in ResizeTo,
             set_max_events(caller, new_max)
      PROVE  InstanceTypeOK'
  BY <1>2, CapacityAssumption DEF set_max_events
<1>3. ASSUME GovernanceCall PROVE InstanceTypeOK'
  <2>1. ASSUME NEW caller \in Signer, NEW new_admin \in Address,
               transfer_admin(caller, new_admin)
        PROVE  InstanceTypeOK'
    BY <2>1 DEF transfer_admin, Nominate
  <2>2. ASSUME NEW caller \in Signer, accept_admin(caller)
        PROVE  InstanceTypeOK'
    BY <2>2 DEF accept_admin, Promote
  <2>3. ASSUME NEW caller \in Signer, cancel_admin_transfer(caller)
        PROVE  InstanceTypeOK'
    BY <2>3 DEF cancel_admin_transfer
  <2>4. ASSUME NEW caller \in Signer, pause(caller) \/ unpause(caller)
        PROVE  InstanceTypeOK'
    BY <2>4 DEF pause, unpause
  <2>5. ASSUME NEW caller \in Signer, NEW hash \in Wasm, upgrade(caller, hash)
        PROVE  InstanceTypeOK'
    BY <2>5 DEF upgrade
  <2> QED
    BY <1>3, <2>1, <2>2, <2>3, <2>4, <2>5 DEF GovernanceCall
<1>4. ASSUME UNCHANGED instanceVars PROVE InstanceTypeOK'
  BY <1>4 DEF instanceVars
<1> QED
  BY <1>1, <1>2, <1>3, <1>4 DEF InstanceNext

\* A contract nobody initialised reads as unpaused, empty and of the default
\* capacity, which is positive.
LEMMA InstanceInitHasType == InstanceInit => InstanceTypeOK
<1>1. DefaultMaxEvents \in Nat \ {0}
  BY CapacityAssumption
<1>2. InstanceInit => paused \in BOOLEAN
  BY DEF InstanceInit
<1> QED
  BY <1>1, <1>2 DEF InstanceInit, InstanceTypeOK

\* In every reachable state the keys hold values of their types and the ring's
\* modulus is positive, so no slot computation divides by zero.
THEOREM InstanceTypeCorrect == InstanceSpec => []InstanceTypeOK
<1>1. InstanceInit => InstanceTypeOK
  BY InstanceInitHasType
<1>2. InstanceTypeOK /\ [InstanceNext]_instanceVars => InstanceTypeOK'
  BY InstanceStepKeepsType
<1> QED
  BY <1>1, <1>2, PTL DEF InstanceSpec

\* Only an address that signed becomes admin, except through init.
LEMMA InstanceStepKeepsAdminKey ==
  ASSUME InitAdmin \subseteq Signer, AdminHoldsKey, [InstanceNext]_instanceVars
  PROVE  AdminHoldsKey'
<1> USE DEF AdminHoldsKey
<1>1. ASSUME NEW new_admin \in InitAdmin, NEW max_events \in InitCapacity,
             init(new_admin, max_events)
      PROVE  AdminHoldsKey'
  BY <1>1 DEF init
<1>2. ASSUME NEW caller \in Signer, accept_admin(caller)
      PROVE  AdminHoldsKey'
  BY <1>2 DEF accept_admin, Promote
<1>3. ASSUME UNCHANGED admin PROVE AdminHoldsKey'
  BY <1>3
<1>4. \/ \E new_admin \in InitAdmin, max_events \in InitCapacity :
            init(new_admin, max_events)
      \/ \E caller \in Signer : accept_admin(caller)
      \/ UNCHANGED admin
  BY DEF InstanceNext, GovernanceCall, instanceVars, transfer_admin, Nominate,
         cancel_admin_transfer, set_max_events, pause, unpause, upgrade
<1> QED
  BY <1>1, <1>2, <1>3, <1>4

\* If the address given to init can sign, the contract never loses its admin:
\* no sequence of nominations, cancellations and acceptances puts an address
\* without a key in control.
THEOREM AdminNeverLost ==
  ASSUME InitAdmin \subseteq Signer
  PROVE  InstanceSpec => []AdminHoldsKey
<1>1. InstanceInit => AdminHoldsKey
  BY DEF InstanceInit, AdminHoldsKey
<1>2. AdminHoldsKey /\ [InstanceNext]_instanceVars => AdminHoldsKey'
  BY InstanceStepKeepsAdminKey
<1> QED
  BY <1>1, <1>2, PTL DEF InstanceSpec

\* A change of admin is a handover: it is made by the nominated address, and it
\* uses the nomination up.
LEMMA HandoverStep ==
  ASSUME [InstanceNext]_instanceVars
  PROVE  [admin' # admin /\ admin # NoAddress
            => admin' = pendingAdmin /\ pendingAdmin' = NoAddress]_authority
<1>1. ASSUME NEW caller \in Signer, accept_admin(caller)
      PROVE  admin' = pendingAdmin /\ pendingAdmin' = NoAddress
  BY <1>1 DEF accept_admin, Promote
<1>2. \/ \E caller \in Signer : accept_admin(caller)
      \/ admin = NoAddress
      \/ UNCHANGED admin
  BY DEF InstanceNext, GovernanceCall, instanceVars, init, Uninitialised,
         transfer_admin, Nominate, cancel_admin_transfer, set_max_events, pause,
         unpause, upgrade
<1> QED
  BY <1>1, <1>2

\* Control of the contract passes only to the pending nominee, once per
\* nomination.
THEOREM HandoverIsNominated == InstanceSpec => HandoverSpendsNomination
<1>1. [InstanceNext]_instanceVars
        => [admin' # admin /\ admin # NoAddress
              => admin' = pendingAdmin /\ pendingAdmin' = NoAddress]_authority
  BY HandoverStep
<1> QED
  BY <1>1, PTL DEF InstanceSpec, HandoverSpendsNomination
=============================================================================
