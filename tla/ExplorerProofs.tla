--------------------------- MODULE ExplorerProofs ---------------------------
(***************************************************************************)
(* The whole explorer contract: the invariants of the registry and of the  *)
(* ring hold together, whatever the calls of the two and of the instance   *)
(* do to each other's storage, and the indexer's copy of the state, made   *)
(* from the published events alone, is right after every transaction.      *)
(***************************************************************************)
EXTENDS Explorer, ExplorerRegistryProofs, ExplorerEventsProofs

WholeInv == RegistryInv /\ RingInv

-----------------------------------------------------------------------------
(***************************************************************************)
(* The invariants of the two parts.                                        *)
(***************************************************************************)

\* A call of the registry and the network leave the ring's part of the instance
\* alone, and every sequence number reads as before.
RingUntouched ==
  UNCHANGED <<ringVars, admin, pendingAdmin, paused, eventSeq, maxEvents, wasm>>

LEMMA RegistryLeavesRing ==
  ASSUME NEW caller \in Signer, RegistryCall(caller), UNCHANGED ringVars
  PROVE  RingUntouched
BY DEF RegistryCall, register_contract, update_contract, deregister_contract,
       RingUntouched

LEMMA NetworkLeavesRing ==
  ASSUME CloseLedger \/ UNCHANGED instanceVars, UNCHANGED ringVars
  PROVE  RingUntouched
BY DEF CloseLedger, instanceVars, RingUntouched

LEMMA SameReads ==
  ASSUME eventLog' = eventLog, maxEvents' = maxEvents
  PROVE  Readable' = Readable /\ \A seq : Found(seq)' = Found(seq)
<1>1. \A seq : Slot(seq)' = Slot(seq)
  BY DEF Slot
<1>2. \A seq : Found(seq)' = Found(seq)
  BY <1>1 DEF Found
<1> QED
  BY <1>2 DEF Readable

LEMMA UntouchedKeepsRingInv ==
  ASSUME RingInv, RingUntouched
  PROVE  RingInv'
<1>1. /\ eventLog' = eventLog /\ submitted' = submitted /\ layoutSeq' = layoutSeq
      /\ admin' = admin /\ eventSeq' = eventSeq /\ maxEvents' = maxEvents
      /\ UNCHANGED <<pendingAdmin, paused, wasm>>
  BY DEF RingUntouched, ringVars
<1>2. EventsTypeOK'
  BY <1>1 DEF RingInv, EventsTypeOK, InstanceTypeOK
<1>3. Window' = Window
  BY <1>1 DEF Window, oldest
<1>4. WindowExactSinceLayout'
  BY <1>1, <1>3, SameReads DEF RingInv, WindowExactSinceLayout
<1> QED
  BY <1>1, <1>2, <1>4 DEF RingInv

\* A call of the ring or the instance leaves the registry's entries alone.
LEMMA RingKeepsWholeInv ==
  ASSUME WholeInv, [EventsNext]_eventVars, UNCHANGED registryVars
  PROVE  WholeInv'
<1>1. RingInv'
  BY SubmitKeepsRingInv, OtherCallKeepsRingInv DEF WholeInv
<1>2. InstanceTypeOK'
  BY <1>1 DEF RingInv, EventsTypeOK
<1>3. ledger' \in 0 .. LedgerMax /\ ledger <= ledger'
  BY RegistryAssumption DEF WholeInv, RegistryInv, RegistryTypeOK, registryVars
<1>4. RegistryInv'
  BY <1>2, <1>3, EntriesUnchanged DEF WholeInv, registryVars, entryVars
<1> QED
  BY <1>1, <1>4 DEF WholeInv

LEMMA RegistryKeepsWholeInv ==
  ASSUME WholeInv, [RegistryNext]_registryState, RingUntouched
  PROVE  WholeInv'
BY RegistryStepKeepsInv, UntouchedKeepsRingInv DEF WholeInv

LEMMA StepKeepsWholeInv ==
  WholeInv /\ [ExplorerNext]_explorerState => WholeInv'
<1> SUFFICES ASSUME WholeInv, [ExplorerNext]_explorerState PROVE WholeInv'
  OBVIOUS
<1>1. ASSUME NEW caller \in Signer, RegistryCall(caller), UNCHANGED ringVars
      PROVE  WholeInv'
  BY <1>1, RegistryLeavesRing, RegistryKeepsWholeInv DEF RegistryNext
<1>2. ASSUME EventsNext, UNCHANGED registryVars PROVE WholeInv'
  BY <1>2, RingKeepsWholeInv
<1>3. ASSUME CloseLedger, UNCHANGED ringVars PROVE WholeInv'
  BY <1>3, NetworkLeavesRing, RegistryKeepsWholeInv DEF RegistryNext
<1>4. ASSUME UNCHANGED explorerState PROVE WholeInv'
  <2>1. UNCHANGED registryVars /\ UNCHANGED eventVars
    BY <1>4 DEF explorerState, explorerVars, eventVars
  <2> QED
    BY <2>1, RingKeepsWholeInv
<1> QED
  BY <1>1, <1>2, <1>3, <1>4 DEF ExplorerNext, Transaction

LEMMA InitWholeInv == ExplorerInit => WholeInv
BY RegistryInvInit, InitRingInv DEF ExplorerInit, WholeInv

\* The registry's and the ring's inductive invariants hold of the contract that
\* has both: no call of one breaks what the other keeps in the common instance.
THEOREM WholeInvariant == ExplorerSpec => []WholeInv
BY InitWholeInv, StepKeepsWholeInv, PTL DEF ExplorerSpec

\* In the whole contract, too, a registered contract's history is served complete,
\* its versions are ordered by ledger, and get_event never returns another event
\* than the one asked for.
THEOREM WholeContractServes ==
  ExplorerSpec => [](RegistryTypeOK /\ HistoryIsServed /\ MinLedgerOrdersVersions
                     /\ ReadsAreFaithful)
<1>1. WholeInv => RegistryTypeOK /\ HistoryIsServed /\ MinLedgerOrdersVersions
                  /\ ReadsAreFaithful
  BY InvReadsFaithful DEF WholeInv, RegistryInv
<1> QED
  BY <1>1, WholeInvariant, PTL

-----------------------------------------------------------------------------
(***************************************************************************)
(* What the indexer hears of a transaction.                                *)
(***************************************************************************)

LEMMA HeardNothing ==
  ASSUME emitted' = << >>, NEW name
  PROVE  Heard(name) = {}
BY DEF Heard

LEMMA HeardOne ==
  ASSUME NEW t, NEW d, emitted' = <<Topic(t, d)>>, NEW name
  PROVE  Heard(name) = IF name = t THEN {d} ELSE {}
<1> DEFINE x == Topic(t, d)
<1>1. emitted' = <<x>> /\ x.topic = t /\ x.data = d
  BY DEF Topic
<1> HIDE DEF x
<1>2. DOMAIN emitted' = {1} /\ emitted'[1] = x
  BY <1>1
<1> QED
  BY <1>1, <1>2 DEF Heard

LEMMA HeardTwo ==
  ASSUME NEW t, NEW d, NEW u, NEW e, t # u,
         emitted' = <<Topic(t, d), Topic(u, e)>>, NEW name
  PROVE  Heard(name) = IF name = t THEN {d} ELSE IF name = u THEN {e} ELSE {}
<1> DEFINE x == Topic(t, d)
           y == Topic(u, e)
<1>1. emitted' = <<x, y>> /\ x.topic = t /\ x.data = d /\ y.topic = u /\ y.data = e
  BY DEF Topic
<1> HIDE DEF x, y
<1>2. DOMAIN emitted' = {1, 2} /\ emitted'[1] = x /\ emitted'[2] = y
  BY <1>1
<1> QED
  BY <1>1, <1>2 DEF Heard

LEMMA HeardThree ==
  ASSUME NEW t, NEW d, NEW u, NEW e, NEW v, NEW f, t # u, t # v, u # v,
         emitted' = <<Topic(t, d), Topic(u, e), Topic(v, f)>>, NEW name
  PROVE  Heard(name) = IF name = t THEN {d} ELSE IF name = u THEN {e}
                       ELSE IF name = v THEN {f} ELSE {}
<1> DEFINE x == Topic(t, d)
           y == Topic(u, e)
           z == Topic(v, f)
<1>1. /\ emitted' = <<x, y, z>> /\ x.topic = t /\ x.data = d
      /\ y.topic = u /\ y.data = e /\ z.topic = v /\ z.data = f
  BY DEF Topic
<1> HIDE DEF x, y, z
<1>2. /\ DOMAIN emitted' = {1, 2, 3}
      /\ emitted'[1] = x /\ emitted'[2] = y /\ emitted'[3] = z
  BY <1>1
<1> QED
  BY <1>1, <1>2 DEF Heard

\* What a submission publishes under the topics the indexer follows.
LEMMA SubmitHeard ==
  ASSUME NEW caller \in Signer, NEW input \in Input, submit_event(caller, input),
         NEW name
  PROVE  Heard(name) = IF name = "ev_sub" THEN {<<input, eventSeq>>}
                       ELSE IF name = "cap_hit" /\ Evicting
                            THEN {<<EvictedSeq, eventSeq>>}
                       ELSE IF name = "decoded" THEN {<<input>>} ELSE {}
<1> DEFINE sub == Topic("ev_sub", <<input, eventSeq>>)
           hit == Topic("cap_hit", <<EvictedSeq, eventSeq>>)
           dec == Topic("decoded", <<input>>)
<1>1. emitted' = <<sub>> \o (IF Evicting THEN <<hit>> ELSE << >>) \o <<dec>>
  BY DEF submit_event
<1>2. CASE Evicting
  <2> HIDE DEF sub, hit, dec
  <2>1. emitted' = <<sub, hit, dec>>
    BY <1>1, <1>2, Publications
  <2> USE DEF sub, hit, dec
  <2> QED
    BY <1>2, <2>1, HeardThree
<1>3. CASE ~Evicting
  <2> HIDE DEF sub, hit, dec
  <2>1. emitted' = <<sub, dec>>
    BY <1>1, <1>3, Publications
  <2> USE DEF sub, hit, dec
  <2> QED
    BY <1>3, <2>1, HeardTwo
<1> QED
  BY <1>2, <1>3

-----------------------------------------------------------------------------
(***************************************************************************)
(* The indexer's copy, part by part: as it was when the transaction        *)
(* publishes nothing about the part.                                       *)
(***************************************************************************)

RegistryMirrored == mirror.registry = CurrentVersions
PausedMirrored   == mirror.paused = paused
AdminMirrored    == mirror.nominee = pendingAdmin /\ mirror.admin \in {NoAddress, admin}
RingMirrored     == mirror.total = eventSeq
                    /\ (layoutSeq = 0 => mirror.live = Readable)

LEMMA MirrorParts ==
  IndexerFollows <=> /\ RegistryMirrored /\ PausedMirrored
                     /\ AdminMirrored /\ RingMirrored
BY DEF IndexerFollows, RegistryMirrored, PausedMirrored, AdminMirrored, RingMirrored

Unheard(names) == \A name \in names : Heard(name) = {}

RegistryTopics == {"c_reg", "c_abiu", "c_dereg"}
PauseTopics    == {"paused", "unpaused"}
AdminTopics    == {"adm_nom", "adm_acc", "adm_cncl"}
RingTopics     == {"ev_sub", "cap_hit"}

LEMMA RegistryQuiet ==
  ASSUME RegistryMirrored, Follow, Unheard(RegistryTopics), contracts' = contracts
  PROVE  RegistryMirrored'
<1>1. WritesHeard = {} /\ RemovalsHeard = {}
  BY DEF Unheard, RegistryTopics, WritesHeard, RemovalsHeard
<1>2. RegistryHeard = [id \in DOMAIN mirror.registry |-> mirror.registry[id]]
  BY <1>1 DEF RegistryHeard
<1>3. RegistryHeard = mirror.registry
  BY <1>2 DEF RegistryMirrored, CurrentVersions
<1>4. mirror'.registry = RegistryHeard
  BY DEF Follow
<1>5. CurrentVersions' = CurrentVersions
  BY DEF CurrentVersions
<1> QED
  BY <1>3, <1>4, <1>5 DEF RegistryMirrored

LEMMA PauseQuiet ==
  ASSUME PausedMirrored, InstanceTypeOK, Follow, Unheard(PauseTopics),
         paused' = paused
  PROVE  PausedMirrored'
<1>1. Heard("paused") = {} /\ Heard("unpaused") = {}
  BY DEF Unheard, PauseTopics
<1>2. mirror'.paused = PausedHeard
  BY DEF Follow
<1>3. PausedHeard = paused
  BY <1>1 DEF PausedHeard, PausedMirrored, InstanceTypeOK
<1> QED
  BY <1>2, <1>3 DEF PausedMirrored

LEMMA AdminQuiet ==
  ASSUME AdminMirrored, Follow, Unheard(AdminTopics), pendingAdmin' = pendingAdmin,
         admin = NoAddress \/ admin' = admin
  PROVE  AdminMirrored'
<1>1. Heard("adm_nom") = {} /\ Heard("adm_acc") = {} /\ Heard("adm_cncl") = {}
  BY DEF Unheard, AdminTopics
<1>2. mirror'.nominee = NomineeHeard /\ mirror'.admin = AdminHeard
  BY DEF Follow
<1>3. NomineeHeard = mirror.nominee /\ AdminHeard = mirror.admin
  BY <1>1 DEF NomineeHeard, AdminHeard
<1> QED
  BY <1>2, <1>3 DEF AdminMirrored

LEMMA RingQuiet ==
  ASSUME RingMirrored, eventSeq \in Nat, Follow, Unheard(RingTopics),
         eventSeq' = eventSeq,
         layoutSeq' = 0 => layoutSeq = 0 /\ Readable' = Readable
  PROVE  RingMirrored'
<1>1. Heard("ev_sub") = {} /\ Heard("cap_hit") = {}
  BY DEF Unheard, RingTopics
<1>2. /\ mirror'.total = mirror.total + Cardinality(Heard("ev_sub"))
      /\ mirror'.live = (mirror.live \cup {d[2] : d \in Heard("ev_sub")})
                          \ {d[1] : d \in Heard("cap_hit")}
  BY DEF Follow
<1>3. Cardinality(Heard("ev_sub")) = 0
  BY <1>1, FS_EmptySet
<1>4. mirror'.total = eventSeq'
  BY <1>2, <1>3 DEF RingMirrored
<1>5. mirror'.live = mirror.live
  BY <1>1, <1>2
<1> QED
  BY <1>4, <1>5 DEF RingMirrored

-----------------------------------------------------------------------------
(***************************************************************************)
(* The calls of the registry.                                              *)
(***************************************************************************)

\* A write that is announced with the version and ledger it stored.
LEMMA WriteMirrored ==
  ASSUME RegistryMirrored, Follow, NEW id, NEW meta, Write(id, meta),
         WritesHeard = {<<id, Version(meta.abi_version, meta.min_ledger)>>},
         RemovalsHeard = {}
  PROVE  RegistryMirrored'
<1> DEFINE known == Version(meta.abi_version, meta.min_ledger)
<1>0. Written(id, meta)
  BY WriteEffect
<1>1. WritesHeard = {<<id, known>>}
  OBVIOUS
<1> HIDE DEF known
<1>2. {w[1] : w \in WritesHeard} = {id}
  BY <1>1
<1>3. (CHOOSE w \in WritesHeard : w[1] = id)[2] = known
  <2>1. <<id, known>> \in WritesHeard /\ <<id, known>>[1] = id
    BY <1>1
  <2>2. (CHOOSE w \in WritesHeard : w[1] = id) \in WritesHeard
    BY ONLY <2>1
  <2>3. (CHOOSE w \in WritesHeard : w[1] = id) = <<id, known>>
    BY ONLY <1>1, <2>2
  <2>4. <<id, known>>[2] = known
    OBVIOUS
  <2> QED
    BY ONLY <2>3, <2>4
<1>4. DOMAIN mirror.registry = DOMAIN contracts
  BY DEF RegistryMirrored, CurrentVersions
<1>5. RegistryHeard = [x \in DOMAIN contracts \cup {id} |->
                         IF x = id THEN known ELSE mirror.registry[x]]
  <2>1. RegistryHeard =
          [x \in (DOMAIN mirror.registry \cup {id}) \ {} |->
             IF x \in {id} THEN (CHOOSE w \in WritesHeard : w[1] = x)[2]
                           ELSE mirror.registry[x]]
    BY <1>2 DEF RegistryHeard
  <2> QED
    BY <1>3, <1>4, <2>1
<1>6. \A x \in DOMAIN contracts' :
        Version(contracts'[x].abi_version, contracts'[x].min_ledger)
          = IF x = id THEN known ELSE mirror.registry[x]
  BY <1>0 DEF Written, known, RegistryMirrored, CurrentVersions
<1>7. RegistryHeard = CurrentVersions'
  BY <1>0, <1>5, <1>6 DEF CurrentVersions, Written
<1> QED
  BY <1>7 DEF Follow, RegistryMirrored

\* register_contract publishes c_reg.
LEMMA RegisterMirrored ==
  ASSUME RegistryMirrored, Follow, NEW caller \in Signer, NEW id \in ContractId,
         NEW draft \in Draft, register_contract(caller, id, draft)
  PROVE  RegistryMirrored' /\ Unheard(PauseTopics \cup AdminTopics \cup RingTopics)
<1> DEFINE stored == Stamped(draft, 0)
<1>1. /\ Write(id, stored)
      /\ emitted' = <<Topic("c_reg", <<id, stored.registered_by, ledger>>)>>
  BY DEF register_contract
<1>2. stored.abi_version = 0 /\ stored.min_ledger = ledger
  BY DEF Stamped
<1> HIDE DEF stored
<1>3. \A name : Heard(name) = IF name = "c_reg"
                              THEN {<<id, stored.registered_by, ledger>>} ELSE {}
  BY <1>1, HeardOne
<1>4. RemovalsHeard = {}
  BY <1>3 DEF RemovalsHeard
<1>5. WritesHeard = {<<id, Version(stored.abi_version, stored.min_ledger)>>}
  <2> DEFINE said == <<id, stored.registered_by, ledger>>
  <2>1. Heard("c_reg") = {said} /\ Heard("c_abiu") = {}
    BY <1>3
  <2>2. said[1] = id /\ said[3] = ledger
    OBVIOUS
  <2> HIDE DEF said
  <2>3. WritesHeard = {<<said[1], Version(0, said[3])>>}
    BY ONLY <2>1 DEF WritesHeard
  <2> QED
    BY <1>2, <2>2, <2>3
<1>6. RegistryMirrored'
  BY <1>1, <1>4, <1>5, WriteMirrored
<1>7. Unheard(PauseTopics \cup AdminTopics \cup RingTopics)
  BY <1>3 DEF Unheard, PauseTopics, AdminTopics, RingTopics
<1> QED
  BY <1>6, <1>7

\* update_contract publishes c_abiu before c_upd.
LEMMA UpdateMirrored ==
  ASSUME RegistryMirrored, Follow, NEW caller \in Signer, NEW id \in ContractId,
         NEW draft \in Draft, update_contract(caller, id, draft)
  PROVE  RegistryMirrored' /\ Unheard(PauseTopics \cup AdminTopics \cup RingTopics)
<1> DEFINE updated == Stamped(draft, draft.abi_version)
           old     == contracts[id].abi_version
<1>1. /\ Write(id, updated)
      /\ emitted' = <<Topic("c_abiu", <<id, old, updated.abi_version, ledger>>),
                      Topic("c_upd", <<id, caller, ledger>>)>>
  BY DEF update_contract
<1>2. updated.min_ledger = ledger
  BY DEF Stamped
<1> HIDE DEF updated, old
<1>3. \A name : Heard(name) = IF name = "c_abiu"
                              THEN {<<id, old, updated.abi_version, ledger>>}
                              ELSE IF name = "c_upd" THEN {<<id, caller, ledger>>}
                              ELSE {}
  BY <1>1, HeardTwo
<1>4. RemovalsHeard = {}
  BY <1>3 DEF RemovalsHeard
<1>5. WritesHeard = {<<id, Version(updated.abi_version, updated.min_ledger)>>}
  <2> DEFINE said == <<id, old, updated.abi_version, ledger>>
  <2>1. Heard("c_reg") = {} /\ Heard("c_abiu") = {said}
    BY <1>3
  <2>2. said[1] = id /\ said[3] = updated.abi_version /\ said[4] = ledger
    OBVIOUS
  <2> HIDE DEF said
  <2>3. WritesHeard = {<<said[1], Version(said[3], said[4])>>}
    BY ONLY <2>1 DEF WritesHeard
  <2> QED
    BY <1>2, <2>2, <2>3
<1>6. RegistryMirrored'
  BY <1>1, <1>4, <1>5, WriteMirrored
<1>7. Unheard(PauseTopics \cup AdminTopics \cup RingTopics)
  BY <1>3 DEF Unheard, PauseTopics, AdminTopics, RingTopics
<1> QED
  BY <1>6, <1>7

\* deregister_contract publishes c_dereg.
LEMMA DeregisterMirrored ==
  ASSUME RegistryMirrored, Follow, NEW caller \in Signer, NEW id \in ContractId,
         deregister_contract(caller, id)
  PROVE  RegistryMirrored' /\ Unheard(PauseTopics \cup AdminTopics \cup RingTopics)
<1>1. /\ contracts' = [x \in DOMAIN contracts \ {id} |-> contracts[x]]
      /\ emitted' = <<Topic("c_dereg", <<id, caller, ledger>>)>>
  BY DEF deregister_contract
<1>2. \A name : Heard(name) = IF name = "c_dereg" THEN {<<id, caller, ledger>>} ELSE {}
  BY <1>1, HeardOne
<1>3. WritesHeard = {} /\ RemovalsHeard = {id}
  <2> DEFINE said == <<id, caller, ledger>>
  <2>1. Heard("c_reg") = {} /\ Heard("c_abiu") = {} /\ Heard("c_dereg") = {said}
    BY <1>2
  <2>2. said[1] = id
    OBVIOUS
  <2> HIDE DEF said
  <2>3. WritesHeard = {}
    BY <2>1 DEF WritesHeard
  <2>4. RemovalsHeard = {said[1]}
    BY ONLY <2>1 DEF RemovalsHeard
  <2> QED
    BY <2>2, <2>3, <2>4
<1>4. RegistryHeard = [x \in DOMAIN mirror.registry \ {id} |-> mirror.registry[x]]
  BY <1>3 DEF RegistryHeard
<1>5. RegistryHeard = CurrentVersions'
  BY <1>1, <1>4 DEF RegistryMirrored, CurrentVersions
<1>6. RegistryMirrored'
  BY <1>5 DEF Follow, RegistryMirrored
<1>7. Unheard(PauseTopics \cup AdminTopics \cup RingTopics)
  BY <1>2 DEF Unheard, PauseTopics, AdminTopics, RingTopics
<1> QED
  BY <1>6, <1>7

LEMMA RegistryCallMirrored ==
  ASSUME WholeInv, IndexerFollows, Follow, NEW caller \in Signer,
         RegistryCall(caller), UNCHANGED ringVars
  PROVE  IndexerFollows'
<1>1. RingUntouched
  BY RegistryLeavesRing
<1>2. RegistryMirrored' /\ Unheard(PauseTopics \cup AdminTopics \cup RingTopics)
  BY RegisterMirrored, UpdateMirrored, DeregisterMirrored, MirrorParts
  DEF RegistryCall
<1>3. Unheard(PauseTopics) /\ Unheard(AdminTopics) /\ Unheard(RingTopics)
  BY <1>2 DEF Unheard
<1>4. InstanceTypeOK /\ eventSeq \in Nat
  BY DEF WholeInv, RingInv, EventsTypeOK, InstanceTypeOK
<1>5. PausedMirrored'
  BY <1>1, <1>3, <1>4, MirrorParts, PauseQuiet DEF RingUntouched
<1>6. AdminMirrored'
  BY <1>1, <1>3, MirrorParts, AdminQuiet DEF RingUntouched
<1>7. RingMirrored'
  BY <1>1, <1>3, <1>4, MirrorParts, RingQuiet, SameReads DEF RingUntouched, ringVars
<1> QED
  BY <1>2, <1>5, <1>6, <1>7 DEF IndexerFollows, RegistryMirrored, PausedMirrored,
     AdminMirrored, RingMirrored

-----------------------------------------------------------------------------
(***************************************************************************)
(* The calls of the ring and of the instance.                              *)
(***************************************************************************)

\* submit_event publishes ev_sub with the number it hands out, and cap_hit with the
\* one it evicts.
LEMMA SubmitMirrored ==
  ASSUME RingInv, RingMirrored, Follow, NEW caller \in Signer, NEW input \in Input,
         submit_event(caller, input)
  PROVE  RingMirrored' /\ Unheard(RegistryTopics \cup PauseTopics \cup AdminTopics)
<1>1. \A name : Heard(name) =
        IF name = "ev_sub" THEN {<<input, eventSeq>>}
        ELSE IF name = "cap_hit" /\ Evicting THEN {<<EvictedSeq, eventSeq>>}
        ELSE IF name = "decoded" THEN {<<input>>} ELSE {}
  BY SubmitHeard
<1>2. Unheard(RegistryTopics \cup PauseTopics \cup AdminTopics)
  BY <1>1 DEF Unheard, RegistryTopics, PauseTopics, AdminTopics
<1>3. Heard("ev_sub") = {<<input, eventSeq>>}
  BY <1>1
<1>4. Heard("cap_hit") = IF Evicting THEN {<<EvictedSeq, eventSeq>>} ELSE {}
  BY <1>1
<1>5. /\ mirror'.total = mirror.total + Cardinality(Heard("ev_sub"))
      /\ mirror'.live = (mirror.live \cup {d[2] : d \in Heard("ev_sub")})
                          \ {d[1] : d \in Heard("cap_hit")}
  BY DEF Follow
<1>6. mirror'.total = eventSeq'
  <2>1. Cardinality(Heard("ev_sub")) = 1
    BY <1>3, FS_Singleton
  <2> QED
    BY <1>5, <2>1 DEF RingMirrored, submit_event
<1>7. ASSUME layoutSeq' = 0 PROVE mirror'.live = Readable'
  <2>1. layoutSeq = 0
    BY <1>7 DEF submit_event
  <2>2. Healed
    BY <2>1 DEF Healed
  <2>3. /\ RingInv' /\ Healed' /\ eventSeq' = eventSeq + 1 /\ maxEvents' = maxEvents
    BY <2>2, SubmitStaysHealed
  <2>4. /\ eventSeq \in Nat /\ maxEvents \in Nat /\ maxEvents > 0
        /\ \A seq : seq \in Readable <=>
             seq \in Nat /\ seq + maxEvents >= eventSeq /\ seq < eventSeq
    BY <2>2, HealedFacts DEF HealedRead
  <2>5. \A seq : seq \in Readable' <=>
          seq \in Nat /\ seq + maxEvents >= eventSeq + 1 /\ seq < eventSeq + 1
    <3>1. \A seq : seq \in Readable' <=>
            seq \in Nat /\ seq + maxEvents' >= eventSeq' /\ seq < eventSeq'
      BY <2>3, HealedFactsAfter DEF HealedRead
    <3> QED
      BY <2>3, <3>1
  <2>6. {d[2] : d \in Heard("ev_sub")} = {eventSeq}
    <3> DEFINE said == <<input, eventSeq>>
    <3>1. said[2] = eventSeq /\ Heard("ev_sub") = {said}
      BY <1>3
    <3> HIDE DEF said
    <3> QED
      BY ONLY <3>1
  <2>7. {d[1] : d \in Heard("cap_hit")} = IF Evicting THEN {EvictedSeq} ELSE {}
    <3> DEFINE said == <<EvictedSeq, eventSeq>>
    <3>1. said[1] = EvictedSeq
          /\ Heard("cap_hit") = IF Evicting THEN {said} ELSE {}
      BY <1>4
    <3> HIDE DEF said
    <3> QED
      BY ONLY <3>1
  <2>8. mirror'.live = (Readable \cup {eventSeq})
                         \ (IF Evicting THEN {EvictedSeq} ELSE {})
    BY <1>5, <2>1, <2>6, <2>7 DEF RingMirrored
  <2>9. \A seq : seq \in mirror'.live <=> seq \in Readable'
    BY ONLY <2>4, <2>5, <2>8 DEF Evicting, EvictedSeq
  <2> QED
    BY <2>9
<1> QED
  BY <1>2, <1>6, <1>7 DEF RingMirrored

\* No other call of the instance moves the counter; one that changes the capacity
\* of a ring in use marks it.
LEMMA OtherKeepsRingMirror ==
  ASSUME RingInv, RingMirrored, Follow, EventsNext, Unheard(RingTopics),
         ~ \E caller \in Signer, input \in Input : submit_event(caller, input)
  PROVE  RingMirrored'
<1>1. eventSeq' = eventSeq /\ RingInv' /\ eventLog' = eventLog
  BY OtherCallKeepsSeq, OtherCallKeepsRingInv, OtherCalls
<1>2. eventSeq \in Nat /\ layoutSeq \in 0 .. eventSeq
  BY DEF RingInv, EventsTypeOK, InstanceTypeOK
<1>3. ASSUME eventSeq = 0, layoutSeq' = 0
      PROVE  layoutSeq = 0 /\ Readable' = Readable
  <2>1. layoutSeq = 0 /\ Healed /\ Healed'
    BY <1>2, <1>3 DEF Healed
  <2>2. \A seq : seq \notin Readable
    BY <1>3, <2>1, HealedFacts DEF HealedRead
  <2>3. \A seq : seq \notin Readable'
    <3>1. \A seq : seq \in Readable' => seq \in Nat /\ seq < eventSeq'
      BY <1>1, <2>1, HealedFactsAfter DEF HealedRead
    <3> QED
      BY <1>1, <1>3, <3>1
  <2> QED
    BY <2>1, <2>2, <2>3
<1>4. ASSUME NEW new_admin \in InitAdmin, NEW max_events \in InitCapacity,
             Open(new_admin, max_events)
      PROVE  eventSeq = 0
  BY <1>4 DEF Open, init, Uninitialised, RingInv
<1>5. ASSUME NEW caller \in Signer, NEW new_max \in ResizeTo,
             Resize(caller, new_max)
      PROVE  layoutSeq' = eventSeq
  BY <1>5 DEF Resize
<1>6. ASSUME UNCHANGED <<eventSeq, maxEvents, layoutSeq>>
      PROVE  layoutSeq' = layoutSeq /\ Readable' = Readable
  BY <1>1, <1>6, SameReads
<1>7. layoutSeq' = 0 => layoutSeq = 0 /\ Readable' = Readable
  BY <1>3, <1>4, <1>5, <1>6, OtherCalls
<1> QED
  BY <1>1, <1>2, <1>7, RingQuiet

\* What a call of the instance publishes, and what it leaves alone.
AboutPause == paused' = paused /\ Unheard(PauseTopics)
AboutAdmin == /\ pendingAdmin' = pendingAdmin /\ Unheard(AdminTopics)
              /\ admin = NoAddress \/ admin' = admin

\* The calls that publish nothing at all.
LEMMA SilentMirrored ==
  ASSUME emitted' = << >>, UNCHANGED <<paused, pendingAdmin>>,
         admin = NoAddress \/ admin' = admin
  PROVE  AboutPause /\ AboutAdmin /\ Unheard(RegistryTopics) /\ Unheard(RingTopics)
BY HeardNothing DEF AboutPause, AboutAdmin, Unheard

\* The handover: adm_nom, adm_acc and adm_cncl name the admin that acts.
LEMMA HandoverMirrored ==
  ASSUME AdminMirrored, Follow, NEW caller \in Signer,
         \/ \E new_admin \in Address : transfer_admin(caller, new_admin)
         \/ accept_admin(caller)
         \/ cancel_admin_transfer(caller)
  PROVE  AdminMirrored' /\ AboutPause /\ Unheard(RegistryTopics) /\ Unheard(RingTopics)
<1>0. mirror'.nominee = NomineeHeard /\ mirror'.admin = AdminHeard
  BY DEF Follow
<1>1. ASSUME NEW new_admin \in Address, transfer_admin(caller, new_admin)
      PROVE  AdminMirrored' /\ AboutPause /\ Unheard(RegistryTopics)
             /\ Unheard(RingTopics)
  <2> DEFINE said == <<caller, new_admin>>
  <2>1. \A name : Heard(name) = IF name = "adm_nom" THEN {said} ELSE {}
    BY <1>1, HeardOne DEF transfer_admin
  <2>2. said[1] = caller /\ said[2] = new_admin
    OBVIOUS
  <2> HIDE DEF said
  <2>3. NomineeHeard = new_admin
    BY <2>1, <2>2 DEF NomineeHeard
  <2>4. AdminHeard = caller
    BY <2>1, <2>2 DEF AdminHeard
  <2>5. pendingAdmin' = new_admin /\ admin' = caller /\ paused' = paused
    BY <1>1 DEF transfer_admin, Nominate, IsAdmin
  <2>6. Unheard(PauseTopics) /\ Unheard(RegistryTopics) /\ Unheard(RingTopics)
    BY <2>1 DEF Unheard, PauseTopics, RegistryTopics, RingTopics
  <2> QED
    BY <1>0, <2>3, <2>4, <2>5, <2>6 DEF AdminMirrored, AboutPause
<1>2. ASSUME NEW t \in {"adm_acc", "adm_cncl"}, emitted' = <<Topic(t, <<caller>>)>>,
             pendingAdmin' = NoAddress, admin' = caller, paused' = paused
      PROVE  AdminMirrored' /\ AboutPause /\ Unheard(RegistryTopics)
             /\ Unheard(RingTopics)
  <2> DEFINE said == <<caller>>
  <2>1. \A name : Heard(name) = IF name = t THEN {said} ELSE {}
    BY <1>2, HeardOne
  <2>2. said[1] = caller
    OBVIOUS
  <2> HIDE DEF said
  <2>3. /\ Heard("adm_nom") = {}
        /\ Heard("adm_acc") \cup Heard("adm_cncl") = {said}
        /\ Heard("adm_nom") \cup Heard("adm_acc") \cup Heard("adm_cncl") = {said}
    BY <2>1
  <2>4. NomineeHeard = NoAddress
    BY <2>3 DEF NomineeHeard
  <2>5. AdminHeard = caller
    BY <2>2, <2>3 DEF AdminHeard
  <2>6. Unheard(PauseTopics) /\ Unheard(RegistryTopics) /\ Unheard(RingTopics)
    BY <2>1 DEF Unheard, PauseTopics, RegistryTopics, RingTopics
  <2> QED
    BY <1>0, <1>2, <2>4, <2>5, <2>6 DEF AdminMirrored, AboutPause
<1>3. ASSUME accept_admin(caller)
      PROVE  AdminMirrored' /\ AboutPause /\ Unheard(RegistryTopics)
             /\ Unheard(RingTopics)
  BY <1>2, <1>3 DEF accept_admin, Promote
<1>4. ASSUME cancel_admin_transfer(caller)
      PROVE  AdminMirrored' /\ AboutPause /\ Unheard(RegistryTopics)
             /\ Unheard(RingTopics)
  BY <1>2, <1>4 DEF cancel_admin_transfer, IsAdmin
<1> QED
  BY <1>1, <1>3, <1>4

\* pause and unpause publish their own topic, upgrade one the indexer ignores.
LEMMA PauseMirrored ==
  ASSUME PausedMirrored, InstanceTypeOK, Follow, NEW caller \in Signer,
         pause(caller) \/ unpause(caller) \/ \E hash \in Wasm : upgrade(caller, hash)
  PROVE  PausedMirrored' /\ AboutAdmin /\ Unheard(RegistryTopics) /\ Unheard(RingTopics)
<1>0. mirror'.paused = PausedHeard
  BY DEF Follow
<1>1. PICK t \in {"paused", "unpaused", "upgrade"} :
        \E d : emitted' = <<Topic(t, d)>>
  BY DEF pause, unpause, upgrade
<1>2. \A name : name # t => Heard(name) = {}
  BY <1>1, HeardOne
<1>3. AboutAdmin /\ Unheard(RegistryTopics) /\ Unheard(RingTopics)
  BY <1>2 DEF AboutAdmin, Unheard, AdminTopics, RegistryTopics, RingTopics,
              pause, unpause, upgrade
<1>4. CASE pause(caller)
  <2>1. emitted' = <<Topic("paused", << >>)>> /\ paused' = TRUE
    BY <1>4 DEF pause
  <2>2. Heard("paused") = {<< >>} /\ Heard("unpaused") = {}
    BY <2>1, HeardOne
  <2>3. PausedHeard = TRUE
    BY <2>2 DEF PausedHeard
  <2> QED
    BY <1>0, <1>3, <2>1, <2>3 DEF PausedMirrored
<1>5. CASE unpause(caller)
  <2>1. emitted' = <<Topic("unpaused", << >>)>> /\ paused' = FALSE
    BY <1>5 DEF unpause
  <2>2. Heard("unpaused") = {<< >>}
    BY <2>1, HeardOne
  <2>3. PausedHeard = FALSE
    BY <2>2 DEF PausedHeard
  <2> QED
    BY <1>0, <1>3, <2>1, <2>3 DEF PausedMirrored
<1>6. ASSUME NEW hash \in Wasm, upgrade(caller, hash)
      PROVE  PausedMirrored'
  <2>1. emitted' = <<Topic("upgrade", <<hash>>)>> /\ paused' = paused
    BY <1>6 DEF upgrade
  <2>2. Unheard(PauseTopics)
    BY <2>1, HeardOne DEF Unheard, PauseTopics
  <2> QED
    BY <2>1, <2>2, PauseQuiet
<1> QED
  BY <1>3, <1>4, <1>5, <1>6

\* Every call of the ring and the instance.
LEMMA RingCallMirrored ==
  ASSUME WholeInv, IndexerFollows, Follow, EventsNext, UNCHANGED registryVars
  PROVE  IndexerFollows'
<1>0. /\ RegistryMirrored /\ PausedMirrored /\ AdminMirrored /\ RingMirrored
      /\ InstanceTypeOK /\ RingInv /\ contracts' = contracts
  BY MirrorParts DEF WholeInv, RingInv, EventsTypeOK, registryVars
<1>1. CASE \E caller \in Signer, input \in Input : submit_event(caller, input)
  <2>1. PICK caller \in Signer, input \in Input : submit_event(caller, input)
    BY <1>1
  <2>2. RingMirrored' /\ Unheard(RegistryTopics \cup PauseTopics \cup AdminTopics)
    BY <1>0, <2>1, SubmitMirrored
  <2>3. Unheard(RegistryTopics) /\ Unheard(PauseTopics) /\ Unheard(AdminTopics)
    BY <2>2 DEF Unheard
  <2>4. UNCHANGED <<admin, pendingAdmin, paused>>
    BY <2>1 DEF submit_event
  <2> QED
    BY <1>0, <2>2, <2>3, <2>4, RegistryQuiet, PauseQuiet, AdminQuiet
    DEF IndexerFollows, RegistryMirrored, PausedMirrored, AdminMirrored, RingMirrored
<1>2. CASE ~ \E caller \in Signer, input \in Input : submit_event(caller, input)
  <2>1. /\ Unheard(RegistryTopics) /\ Unheard(RingTopics)
        /\ PausedMirrored' \/ AboutPause
        /\ AdminMirrored' \/ AboutAdmin
    <3>1. ASSUME NEW new_admin \in InitAdmin, NEW max_events \in InitCapacity,
                 Open(new_admin, max_events)
          PROVE  AboutPause /\ AboutAdmin /\ Unheard(RegistryTopics)
                 /\ Unheard(RingTopics)
      BY <3>1, SilentMirrored DEF Open, init, Uninitialised
    <3>2. ASSUME NEW caller \in Signer, NEW new_max \in ResizeTo,
                 Resize(caller, new_max)
          PROVE  AboutPause /\ AboutAdmin /\ Unheard(RegistryTopics)
                 /\ Unheard(RingTopics)
      BY <3>2, SilentMirrored DEF Resize, set_max_events
    <3>3. CASE GovernanceCall
      BY <1>0, <3>3, HandoverMirrored, PauseMirrored DEF GovernanceCall
    <3> QED
      BY <1>2, <3>1, <3>2, <3>3 DEF EventsNext
  <2>2. PausedMirrored'
    BY <1>0, <2>1, PauseQuiet DEF AboutPause
  <2>3. AdminMirrored'
    BY <1>0, <2>1, AdminQuiet DEF AboutAdmin
  <2> QED
    BY <1>0, <1>2, <2>1, <2>2, <2>3, RegistryQuiet, OtherKeepsRingMirror
    DEF IndexerFollows, RegistryMirrored, PausedMirrored, AdminMirrored, RingMirrored
<1> QED
  BY <1>1, <1>2

LEMMA StepMirrored ==
  WholeInv /\ IndexerFollows /\ [ExplorerNext]_explorerState => IndexerFollows'
<1> SUFFICES ASSUME WholeInv, IndexerFollows, [ExplorerNext]_explorerState
             PROVE  IndexerFollows'
  OBVIOUS
<1>1. ASSUME RingUntouched, mirror' = mirror, contracts' = contracts
      PROVE  IndexerFollows'
  <2>1. Readable' = Readable /\ layoutSeq' = layoutSeq
    BY <1>1, SameReads DEF RingUntouched, ringVars
  <2>2. CurrentVersions' = CurrentVersions
    BY <1>1 DEF CurrentVersions
  <2> QED
    BY <1>1, <2>1, <2>2 DEF IndexerFollows, RingUntouched
<1>2. CASE CloseLedger /\ UNCHANGED <<ringVars, mirror>>
  BY <1>1, <1>2, NetworkLeavesRing DEF CloseLedger, entryVars
<1>3. CASE UNCHANGED explorerState
  BY <1>1, <1>3, NetworkLeavesRing DEF explorerState, explorerVars, registryVars
<1> QED
  BY <1>2, <1>3, RegistryCallMirrored, RingCallMirrored DEF ExplorerNext, Transaction

LEMMA InitMirrored == ExplorerInit => IndexerFollows
<1> SUFFICES ASSUME ExplorerInit PROVE IndexerFollows
  OBVIOUS
<1>1. /\ mirror.registry = [id \in {} |-> Version(0, 0)] /\ mirror.paused = FALSE
      /\ mirror.nominee = NoAddress /\ mirror.admin = NoAddress
      /\ mirror.total = 0 /\ mirror.live = {}
  BY DEF ExplorerInit, NothingHeard
<1>2. DOMAIN contracts = {} /\ DOMAIN eventLog = {}
  BY DEF ExplorerInit, RegistryInit, EventsInit
<1>3. paused = FALSE /\ pendingAdmin = NoAddress /\ eventSeq = 0
  BY DEF ExplorerInit, RegistryInit, InstanceInit
<1>4. Readable = {}
  BY <1>2 DEF Readable, Found
<1>5. mirror.registry = CurrentVersions
  BY <1>1, <1>2 DEF CurrentVersions
<1> QED
  BY <1>1, <1>3, <1>4, <1>5 DEF IndexerFollows

\* The published events determine the registry, the pause, the handover, the number
\* of events submitted and, while the capacity stays as it was, the events that can
\* be read: an indexer that applies them in order is never wrong.
THEOREM IndexerAlwaysFollows == ExplorerSpec => []IndexerFollows
BY InitMirrored, StepMirrored, WholeInvariant, PTL DEF ExplorerSpec

-----------------------------------------------------------------------------
(***************************************************************************)
(* Action properties of the parts, in the whole.                           *)
(***************************************************************************)

\* In the whole contract no call changes a version already written.
THEOREM WholeVersionsStand == ExplorerSpec => WrittenVersionsStand
<1>1. WholeInv /\ [ExplorerNext]_explorerState
        => [VersionsStand /\ OneHistoryMoves]_entryVars
  <2> SUFFICES ASSUME WholeInv, [ExplorerNext]_explorerState, ~UNCHANGED entryVars
               PROVE  VersionsStand /\ OneHistoryMoves
    OBVIOUS
  <2>1. \E caller \in Signer : RegistryCall(caller)
    BY DEF ExplorerNext, Transaction, CloseLedger, explorerState, explorerVars,
           registryVars, entryVars
  <2>2. RegistryNext
    BY <2>1 DEF RegistryNext
  <2> QED
    BY <2>2, StepLetsVersionsStand DEF WholeInv
<1> QED
  BY <1>1, WholeInvariant, PTL DEF ExplorerSpec, WrittenVersionsStand

\* In the whole contract control passes only to the pending nominee, once per
\* nomination.
THEOREM WholeHandoverIsNominated == ExplorerSpec => HandoverSpendsNomination
<1>1. [ExplorerNext]_explorerState
        => [admin' # admin /\ admin # NoAddress
              => admin' = pendingAdmin /\ pendingAdmin' = NoAddress]_authority
  <2> SUFFICES ASSUME [ExplorerNext]_explorerState, ~UNCHANGED authority
               PROVE  [admin' # admin /\ admin # NoAddress
                         => admin' = pendingAdmin /\ pendingAdmin' = NoAddress]_authority
    OBVIOUS
  <2>1. ASSUME NEW caller \in Signer, RegistryCall(caller), UNCHANGED ringVars
        PROVE  UNCHANGED authority
    BY <2>1, RegistryLeavesRing DEF RingUntouched, authority
  <2>2. ASSUME NEW caller \in Signer, NEW input \in Input, submit_event(caller, input)
        PROVE  UNCHANGED authority
    BY <2>2 DEF submit_event, authority
  <2>3. EventsNext
    BY <2>1 DEF ExplorerNext, Transaction, CloseLedger, explorerState, explorerVars,
                instanceVars, authority
  <2>4. ~ \E caller \in Signer, input \in Input : submit_event(caller, input)
    BY <2>2
  <2>5. [InstanceNext]_instanceVars
    BY <2>3, <2>4, OtherCalls
  <2> QED
    BY <2>5, HandoverStep
<1> QED
  BY <1>1, PTL DEF ExplorerSpec, HandoverSpendsNomination

\* A step is one of the ring and the instance, or one of the registry or the
\* network; each leaves the other component's storage as it was.
LEMMA StepOfOnePart ==
  ASSUME [ExplorerNext]_explorerState
  PROVE  \/ [EventsNext]_eventVars /\ UNCHANGED registryVars
         \/ [RegistryNext]_registryState /\ RingUntouched
<1>1. ASSUME NEW caller \in Signer, RegistryCall(caller), UNCHANGED ringVars
      PROVE  RegistryNext /\ RingUntouched
  BY <1>1, RegistryLeavesRing DEF RegistryNext
<1>2. ASSUME CloseLedger, UNCHANGED ringVars
      PROVE  RegistryNext /\ RingUntouched
  BY <1>2, NetworkLeavesRing DEF RegistryNext
<1>3. ASSUME UNCHANGED explorerState
      PROVE  UNCHANGED eventVars /\ UNCHANGED registryVars
  BY <1>3 DEF explorerState, explorerVars, eventVars
<1> QED
  BY <1>1, <1>2, <1>3 DEF ExplorerNext, Transaction

\* In the whole contract, too, an admin who can sign is never replaced by an
\* address without a key.
THEOREM WholeAdminNeverLost ==
  ASSUME InitAdmin \subseteq Signer
  PROVE  ExplorerSpec => []AdminHoldsKey
<1>1. ExplorerInit => AdminHoldsKey
  BY DEF ExplorerInit, RegistryInit, InstanceInit, AdminHoldsKey
<1>2. AdminHoldsKey /\ [ExplorerNext]_explorerState => AdminHoldsKey'
  <2> SUFFICES ASSUME AdminHoldsKey, [ExplorerNext]_explorerState
               PROVE  AdminHoldsKey'
    OBVIOUS
  <2>1. ASSUME NEW caller \in Signer, NEW input \in Input, submit_event(caller, input)
        PROVE  AdminHoldsKey'
    BY <2>1 DEF submit_event, AdminHoldsKey
  <2>2. CASE RingUntouched
    BY <2>2 DEF RingUntouched, AdminHoldsKey
  <2>3. CASE [EventsNext]_eventVars
    <3>1. CASE ~ \E caller \in Signer, input \in Input : submit_event(caller, input)
      <4>1. [InstanceNext]_instanceVars
        BY <2>3, <3>1, OtherCalls
      <4> QED
        BY <4>1, InstanceStepKeepsAdminKey
    <3> QED
      BY <2>1, <3>1
  <2> QED
    BY <2>2, <2>3, StepOfOnePart
<1> QED
  BY <1>1, <1>2, PTL DEF ExplorerSpec

\* The registry does no harm to the ring: in the whole contract the window is exact
\* since the last change of capacity, and a healed ring serves it all.
THEOREM WholeRingServes ==
  ExplorerSpec => [](WindowExactSinceLayout /\ HealedRingExact)
<1>1. WholeInv => WindowExactSinceLayout /\ HealedRingExact
  BY InvHealedExact DEF WholeInv, RingInv
<1> QED
  BY <1>1, WholeInvariant, PTL

\* In the whole contract cap_hit names exactly the event that is lost, and no call
\* of the registry publishes one or moves the sequence.
THEOREM WholeEvictionsAnnounced == ExplorerSpec => HealedEvictionsAnnounced
<1>1. WholeInv /\ [ExplorerNext]_explorerState
        => [Healed /\ eventSeq' # eventSeq
              => CapHits' = Readable \ Readable']_eventVars
  <2> SUFFICES ASSUME WholeInv, [ExplorerNext]_explorerState,
                      Healed, eventSeq' # eventSeq
               PROVE  CapHits' = Readable \ Readable'
    OBVIOUS
  <2>1. RingInv /\ [EventsNext]_eventVars
    BY StepOfOnePart DEF RingUntouched, WholeInv
  <2> QED
    BY <2>1, OtherCallKeepsSeq, SubmitEvicts, SubmitAnnounces
<1> QED
  BY <1>1, WholeInvariant, PTL DEF ExplorerSpec, HealedEvictionsAnnounced

\* Between changes of capacity the whole contract is the promised ledger.
THEOREM WholeLedgerRefined == ExplorerSpec => ImplementsLedger
<1>1. WholeInv /\ [ExplorerNext]_explorerState
        => [Healed /\ Healed' => [Promised!LedgerNext]_(Promised!ledgerVars)]_eventVars
  <2> SUFFICES ASSUME WholeInv, [ExplorerNext]_explorerState, Healed, Healed'
               PROVE  [Promised!LedgerNext]_(Promised!ledgerVars)
    OBVIOUS
  <2>1. CASE RingUntouched
    <3>1. eventLog' = eventLog /\ eventSeq' = eventSeq /\ maxEvents' = maxEvents
      BY <2>1 DEF RingUntouched, ringVars
    <3> QED
      BY <3>1, LedgerUnchanged
  <2>2. CASE [EventsNext]_eventVars
    BY <2>2, LedgerStep DEF WholeInv
  <2> QED
    BY <2>1, <2>2, StepOfOnePart
<1>2. ExplorerInit => Promised!LedgerInit
  BY LedgerStarts DEF ExplorerInit
<1> QED
  BY <1>1, <1>2, WholeInvariant, PTL DEF ExplorerSpec, ImplementsLedger

\* The whole contract answers for its registry as the promised catalogue does: the
\* ring's calls never show in it.
THEOREM WholeCatalogRefined == ExplorerSpec => ImplementsCatalog
<1>1. WholeInv /\ [ExplorerNext]_explorerState => [Catalog!CatalogNext]_Histories
  <2> SUFFICES ASSUME WholeInv, [ExplorerNext]_explorerState
               PROVE  [Catalog!CatalogNext]_Histories
    OBVIOUS
  <2>1. CASE UNCHANGED registryVars
    BY <2>1 DEF registryVars, Histories, ServedHistory
  <2>2. CASE [RegistryNext]_registryState
    BY <2>2, CatalogStep DEF WholeInv
  <2> QED
    BY <2>1, <2>2, StepOfOnePart
<1>2. ExplorerInit => Catalog!CatalogInit
  BY CatalogStarts DEF ExplorerInit
<1> QED
  BY <1>1, <1>2, WholeInvariant, PTL
  DEF ExplorerSpec, ImplementsCatalog, Catalog!CatalogSpec, Histories
=============================================================================
